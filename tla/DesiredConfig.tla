--------------------------- MODULE DesiredConfig ---------------------------
(***************************************************************************)
(* The desired configuration of one device, from the operators' calls to   *)
(* the daemon's cache: a call reads the stored document, merges its change *)
(* into it, stores the result and publishes it, without a lock; the        *)
(* message is retained, delivered to a device that is connected and        *)
(* delivered again to one that connects; each delivery is handled by a     *)
(* goroutine that replaces the daemon's copy.                              *)
(*                                                                         *)
(* A document gives every channel a content and a version. Devices apply a *)
(* channel only when its version differs from the one they have applied.   *)
(***************************************************************************)
EXTENDS Naturals, Sequences, SequencesExt

CONSTANTS
    Channel,
    Field,       \* what the content of a channel consists of: settings, protocol, state
    Value,
    Absent,      \* in place of a value: the document does not have the field
    Patch,       \* what an operator may send for one channel
    Settings,    \* what an operator may send for the device's own settings
    Document,    \* what an operator may send for the whole device
    Worker,      \* the goroutines that serve the operators' calls
    Complete,    \* TRUE: no document leaves out a field that is stored
    MaxTime,     \* bound: updates
    MaxDrops     \* bound: losses of the connection and restarts of the session

Optional == Value \cup {Absent}

Content == [Field -> Optional]

NoContent == [f \in Field |-> Absent]

ASSUME ValueAssumption == Absent \notin Value

ASSUME InputAssumption ==
    /\ Patch \subseteq Content \ {NoContent}
    /\ Settings \subseteq Optional
    /\ Document \subseteq [settings : Optional, channel : [Channel -> Content]]

ASSUME BoundAssumption == Complete \in BOOLEAN /\ MaxTime \in Nat /\ MaxDrops \in Nat

VARIABLES
    state,       \* the state of the device's row
    stored,      \* its desired configuration
    clock,       \* the last reading of the host's clock; a version is a reading
    task,        \* what each worker is doing
    retained,    \* the retained message on the device's configuration topic
    link,        \* TRUE: the device is connected and has subscribed
    inbox,       \* messages whose handlers have not run, in the order of delivery
    cache,       \* the daemon's copy
    drops,
    overlapped,  \* history: two updates of the device were in progress at a time
    reordered    \* history: messages were not handled in the order of delivery

vars == <<state, stored, clock, task, retained, link, inbox, cache, drops, overlapped, reordered>>

-----------------------------------------------------------------------------
Version == 0 .. MaxTime

\* A channel that the document does not have.
NoEntry == [content |-> NoContent, version |-> 0]

Entry == [content : Content, version : Version]

\* The settings of the device itself have a version as each channel has.
Config == [settings : Optional, version : Version, channel : [Channel -> Entry]]

NoConfig == [settings |-> Absent, version |-> 0, channel |-> [c \in Channel |-> NoEntry]]

Idle == [step |-> "idle", config |-> NoConfig]

Init ==
    /\ state = "ACTIVE"
    /\ stored = NoConfig
    /\ clock = 0
    /\ task = [w \in Worker |-> Idle]
    /\ retained = NoConfig
    /\ link = FALSE
    /\ inbox = <<>>
    /\ cache = NoConfig
    /\ drops = 0
    /\ overlapped = FALSE
    /\ reordered = FALSE

Now == clock + 1

Tick == clock < MaxTime /\ clock' = Now

-----------------------------------------------------------------------------
(* What the calls make of the stored document *)

Merge(content, patch) ==
    [f \in Field |-> IF patch[f] # Absent THEN patch[f] ELSE content[f]]

\* The device's version is set by the first update and by those of its settings.
DeviceVersion(config) == IF config.version = 0 THEN Now ELSE config.version

\* Mutant: the channel keeps its version.
UnversionedMerge(config, c, patch) ==
    [config EXCEPT
        !.version = DeviceVersion(config),
        !.channel[c] = [content |-> Merge(@.content, patch),
                        version |-> IF @.version = 0 THEN Now ELSE @.version]]

\* mergeChannelUpdate
ChannelMerge(config, c, patch) ==
    [config EXCEPT
        !.version = DeviceVersion(config),
        !.channel[c] = [content |-> Merge(@.content, patch), version |-> Now]]

\* mergeDeviceSettingsUpdate: a new version also when there is nothing new.
SettingsMerge(config, settings) ==
    [config EXCEPT !.version = Now, !.settings = IF settings = Absent THEN @ ELSE settings]

\* Mutant: a field that the stored content does not have is not compared.
ChangedKnown(new, entry) ==
    entry.version = 0
    \/ \E f \in Field : Absent \notin {new[f], entry.content[f]} /\ new[f] # entry.content[f]

\* channelContentChanged looks at the fields of the new content only.
Changed(new, entry) ==
    entry.version = 0 \/ \E f \in Field : new[f] # Absent /\ new[f] # entry.content[f]

\* Mutant: what has not changed has no version.
ReplaceBare(config, doc) ==
    [settings |-> doc.settings,
     version |-> IF doc.settings # config.settings THEN Now ELSE DeviceVersion(config),
     channel |-> [c \in Channel |->
        IF doc.channel[c] = NoContent THEN NoEntry
        ELSE [content |-> doc.channel[c],
              version |-> IF Changed(doc.channel[c], config.channel[c]) THEN Now ELSE Absent]]]

\* UpdateConfiguration: the document replaces the stored one; what has not
\* changed keeps its version.
Replace(config, doc) ==
    [settings |-> doc.settings,
     version |-> IF doc.settings # config.settings THEN Now ELSE DeviceVersion(config),
     channel |-> [c \in Channel |->
        IF doc.channel[c] = NoContent THEN NoEntry
        ELSE [content |-> doc.channel[c],
              version |-> IF Changed(doc.channel[c], config.channel[c]) THEN Now
                          ELSE config.channel[c].version]]]

LeavesNothingOut(doc) ==
    \A c \in Channel, f \in Field :
        \/ doc.channel[c] = NoContent
        \/ stored.channel[c].content[f] # Absent => doc.channel[c][f] # Absent

-----------------------------------------------------------------------------
(* The operators' calls *)

\* The row is read; what will be stored is computed from it.
Begin(w, config) ==
    /\ task[w] = Idle
    /\ state # "DEPROVISIONED"
    /\ Tick
    /\ task' = [task EXCEPT ![w] = [step |-> "write", config |-> config]]
    /\ overlapped' = (overlapped \/ \E v \in Worker : task[v] # Idle)
    /\ UNCHANGED <<state, stored, retained, link, inbox, cache, drops, reordered>>

UpdateChannelConfig(w, c, patch) == Begin(w, ChannelMerge(stored, c, patch))

UpdateDeviceSettings(w, settings) == Begin(w, SettingsMerge(stored, settings))

UpdateConfiguration(w, doc) ==
    /\ Complete => LeavesNothingOut(doc)
    /\ Begin(w, Replace(stored, doc))

\* persistAndPublish: the document is stored whatever the row holds by now.
Persist(w) ==
    /\ task[w].step = "write"
    /\ stored' = task[w].config
    /\ task' = [task EXCEPT ![w].step = "publish"]
    /\ UNCHANGED <<state, clock, retained, link, inbox, cache, drops, overlapped, reordered>>

\* Mutant: the message is not retained.
PublishUnretained(w) ==
    /\ task[w].step = "publish"
    /\ inbox' = IF link THEN Append(inbox, task[w].config) ELSE inbox
    /\ task' = [task EXCEPT ![w] = Idle]
    /\ UNCHANGED <<state, stored, clock, retained, link, cache, drops, overlapped, reordered>>

Publish(w) ==
    /\ task[w].step = "publish"
    /\ retained' = task[w].config
    /\ inbox' = IF link THEN Append(inbox, task[w].config) ELSE inbox
    /\ task' = [task EXCEPT ![w] = Idle]
    /\ UNCHANGED <<state, stored, clock, link, cache, drops, overlapped, reordered>>

\* The row's configuration is cleared; the retained message stays.
Deprovision ==
    /\ state = "ACTIVE"
    /\ state' = "DEPROVISIONED"
    /\ stored' = NoConfig
    /\ overlapped' = (overlapped \/ \E v \in Worker : task[v] # Idle)
    /\ UNCHANGED <<clock, task, retained, link, inbox, cache, drops, reordered>>

-----------------------------------------------------------------------------
(* The connection of the device and the daemon *)

Subscribe ==
    /\ ~link
    /\ state = "ACTIVE"
    /\ link' = TRUE
    /\ inbox' = IF retained = NoConfig THEN inbox ELSE Append(inbox, retained)
    /\ UNCHANGED <<state, stored, clock, task, retained, cache, drops, overlapped, reordered>>

\* Messages on their way are lost, those whose handlers have started are not.
Cut == link' = FALSE /\ \E n \in 0 .. Len(inbox) : inbox' = SubSeq(inbox, 1, n)

Drop ==
    /\ drops < MaxDrops /\ drops' = drops + 1
    /\ link
    /\ Cut
    /\ UNCHANGED <<state, stored, clock, task, retained, cache, overlapped, reordered>>

\* reset: the connection is closed and the copy is forgotten.
Reset ==
    /\ drops < MaxDrops /\ drops' = drops + 1
    /\ Cut
    /\ cache' = NoConfig
    /\ UNCHANGED <<state, stored, clock, task, retained, overlapped, reordered>>

\* updateConfigurationCallback: the copy is replaced, whatever its versions
\* are. The handlers are goroutines, which may run in any order.
Take(i) ==
    /\ i \in 1 .. Len(inbox)
    /\ cache' = inbox[i]
    /\ inbox' = RemoveAt(inbox, i)
    /\ reordered' = (reordered \/ i > 1)
    /\ UNCHANGED <<state, stored, clock, task, retained, link, drops, overlapped>>

-----------------------------------------------------------------------------
Update(w) ==
    \/ \E c \in Channel, patch \in Patch : UpdateChannelConfig(w, c, patch)
    \/ \E settings \in Settings : UpdateDeviceSettings(w, settings)
    \/ \E doc \in Document : UpdateConfiguration(w, doc)

Finish(w) == Persist(w) \/ Publish(w)

Handle == \E i \in 1 .. Len(inbox) : Take(i)

Next ==
    \/ \E w \in Worker : Update(w) \/ Finish(w)
    \/ Deprovision \/ Subscribe \/ Drop \/ Reset \/ Handle

Spec == Init /\ [][Next]_vars

\* The host completes its calls, the device connects and handles its messages.
Fairness == (\A w \in Worker : WF_vars(Finish(w))) /\ WF_vars(Subscribe) /\ WF_vars(Handle)

FairSpec == Spec /\ Fairness

-----------------------------------------------------------------------------
TypeOK ==
    /\ state \in {"ACTIVE", "DEPROVISIONED"}
    /\ {stored, retained, cache} \subseteq Config
    /\ clock \in Version
    /\ task \in [Worker -> [step : {"idle", "write", "publish"}, config : Config]]
    /\ link \in BOOLEAN
    /\ inbox \in Seq(Config)
    /\ drops \in 0 .. MaxDrops
    /\ {overlapped, reordered} \subseteq BOOLEAN

\* The documents in the system.
Documented ==
    {stored, retained, cache} \cup {task[w].config : w \in Worker}
        \cup {inbox[i] : i \in DOMAIN inbox}

(* A version stands for one content, in every document that is stored,      *)
(* retained, on its way or cached, whatever calls overlap: a device that    *)
(* skips a version it has applied skips nothing new (UpdateChannelConfig:   *)
(* "The client-side ApplicationLoop is version-gated and will skip channels *)
(* whose version hasn't changed - so publishing all channels is safe").     *)
VersionFixesContent ==
    \A x, y \in Documented :
        /\ x.version = y.version => x.settings = y.settings
        /\ \A c \in Channel :
              x.channel[c].version = y.channel[c].version => x.channel[c] = y.channel[c]

(* As long as calls do not overlap, no step takes back what an earlier call *)
(* has stored: a channel that changes has a newer version, or a document    *)
(* for the whole device has left it out (UpdateChannelConfig "preserves all *)
(* other channels' existing versions").                                     *)
NothingIsTakenBack ==
    [][~overlapped' /\ state' = "ACTIVE" =>
         /\ stored'.version >= stored.version
         /\ \A c \in Channel :
              \/ stored'.channel[c] \in {stored.channel[c], NoEntry}
              \/ stored'.channel[c].version > stored.channel[c].version]_vars

(* As long as calls do not overlap and messages are handled in order, the   *)
(* daemon of an active device ends up with the stored document, however     *)
(* often it has lost the connection or begun a new session.                 *)
CacheCatchesUp ==
    <>[](state = "ACTIVE" /\ ~overlapped /\ ~reordered => cache = stored)

=============================================================================
