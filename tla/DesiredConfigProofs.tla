------------------------ MODULE DesiredConfigProofs ------------------------
(***************************************************************************)
(* Proofs about DesiredConfig, for any channels, fields, values, workers   *)
(* and inputs of the operators. The theorems about versions assume that no *)
(* document leaves out a field that is stored: the run DesiredConfig-      *)
(* Omission shows that a version otherwise stands for two contents.        *)
(***************************************************************************)
EXTENDS DesiredConfig, SequenceTheorems, TLAPS

-----------------------------------------------------------------------------
(* The inductive invariants *)

\* The versions of a document are readings of the clock, 0 where there is nothing.
Dated(x) ==
    /\ x.version <= clock /\ (x.version = 0 => x.settings = Absent)
    /\ \A c \in Channel :
          x.channel[c].version <= clock /\ (x.channel[c].version = 0 => x.channel[c] = NoEntry)

\* Where two documents have one version they have one content.
Agree(x, y) ==
    /\ x.version = y.version => x.settings = y.settings
    /\ \A c \in Channel :
          x.channel[c].version = y.channel[c].version => x.channel[c] = y.channel[c]

VersionsFit ==
    /\ \A x \in Documented : Dated(x)
    /\ \A x, y \in Documented : Agree(x, y)

\* What a call makes of the stored document: the versions and contents of before, or the
\* version of this reading of the clock.
Derived(x) ==
    /\ \/ x.version = Now
       \/ x.version = stored.version /\ x.settings = stored.settings
    /\ \A c \in Channel :
          \/ x.channel[c].version = Now
          \/ x.channel[c] \in {stored.channel[c], NoEntry}

\* A document that may be stored without taking anything back.
TakesNothing(x) ==
    /\ x.version >= stored.version
    /\ \A c \in Channel :
          \/ x.channel[c] \in {stored.channel[c], NoEntry}
          \/ x.channel[c].version > stored.channel[c].version

\* Calls have not overlapped: there is one at a time, and what it will store is made of
\* what is stored.
OneCall ==
    ~overlapped => \A v, w \in Worker : task[v] # Idle /\ task[w] # Idle => v = w

WritesFit ==
    ~overlapped /\ state = "ACTIVE" =>
        \A w \in Worker : task[w].step = "write" => TakesNothing(task[w].config)

CallsFit == OneCall /\ WritesFit

-----------------------------------------------------------------------------
(* Lemmas about the operators *)

LEMMA NoConfigFits ==
    /\ NoContent \in Content /\ NoEntry \in Entry /\ NoConfig \in Config
    /\ NoConfig.version = 0 /\ NoConfig.settings = Absent
    /\ \A c \in Channel : NoConfig.channel[c] = NoEntry
BY BoundAssumption DEF NoContent, NoEntry, NoConfig, Content, Optional, Entry, Config, Version

LEMMA ConfigFits ==
    ASSUME NEW x \in Config
    PROVE  /\ x.version \in Nat /\ x.version \in Version /\ x.settings \in Optional
           /\ x.channel \in [Channel -> Entry]
           /\ \A c \in Channel :
                 /\ x.channel[c] \in Entry /\ x.channel[c].version \in Version
                 /\ x.channel[c].version \in Nat /\ x.channel[c].content \in Content
BY BoundAssumption DEF Config, Entry, Version

\* The clock is read again.
LEMMA NowFits == ASSUME TypeOK, Tick PROVE Now \in Version /\ Now > 0 /\ Now > clock
BY BoundAssumption DEF TypeOK, Tick, Now, Version

\* What the operators send.
LEMMA InputFits ==
    /\ \A p \in Patch : p \in Content
    /\ \A s \in Settings : s \in Optional
    /\ \A d \in Document : d.settings \in Optional /\ \A c \in Channel : d.channel[c] \in Content
BY InputAssumption

LEMMA ChannelMergeFits ==
    ASSUME TypeOK, Tick, NEW x \in Config, NEW c \in Channel, NEW p \in Patch
    PROVE  /\ ChannelMerge(x, c, p) \in Config
           /\ ChannelMerge(x, c, p).settings = x.settings
           /\ ChannelMerge(x, c, p).version = DeviceVersion(x)
           /\ ChannelMerge(x, c, p).channel[c].version = Now
           /\ \A d \in Channel \ {c} : ChannelMerge(x, c, p).channel[d] = x.channel[d]
<1> DEFINE e == [content |-> Merge(x.channel[c].content, p), version |-> Now]
<1>1. Merge(x.channel[c].content, p) \in Content
    BY ConfigFits, InputFits DEF Merge, Content
<1>2. e \in Entry /\ DeviceVersion(x) \in Version
    BY <1>1, NowFits, ConfigFits DEF Entry, DeviceVersion
<1>3. ChannelMerge(x, c, p) =
          [settings |-> x.settings, version |-> DeviceVersion(x), channel |-> [x.channel EXCEPT ![c] = e]]
  <2>1. ChannelMerge(x, c, p) = [x EXCEPT !.version = DeviceVersion(x), !.channel = [x.channel EXCEPT ![c] = e]]
      BY DEF ChannelMerge
  <2> HIDE DEF e
  <2> QED BY <2>1 DEF Config
<1> HIDE DEF e
<1>4. [x.channel EXCEPT ![c] = e] \in [Channel -> Entry]
    BY <1>2, ConfigFits
<1>5. ChannelMerge(x, c, p) \in Config
    BY <1>2, <1>3, <1>4, ConfigFits DEF Config
<1>6. e.version = Now
    BY DEF e
<1> QED BY <1>3, <1>4, <1>5, <1>6, ConfigFits

LEMMA SettingsMergeFits ==
    ASSUME TypeOK, Tick, NEW x \in Config, NEW s \in Settings
    PROVE  /\ SettingsMerge(x, s) \in Config
           /\ SettingsMerge(x, s).version = Now
           /\ SettingsMerge(x, s).channel = x.channel
BY NowFits, ConfigFits, InputFits DEF SettingsMerge, Config

LEMMA ReplaceFits ==
    ASSUME TypeOK, Tick, NEW x \in Config, NEW d \in Document
    PROVE  /\ Replace(x, d) \in Config
           /\ Replace(x, d).settings = d.settings
           /\ Replace(x, d).version = IF d.settings # x.settings THEN Now ELSE DeviceVersion(x)
           /\ \A c \in Channel :
                 Replace(x, d).channel[c] =
                     IF d.channel[c] = NoContent THEN NoEntry
                     ELSE [content |-> d.channel[c],
                           version |-> IF Changed(d.channel[c], x.channel[c]) THEN Now
                                       ELSE x.channel[c].version]
<1> DEFINE e(c) == IF d.channel[c] = NoContent THEN NoEntry
                   ELSE [content |-> d.channel[c],
                         version |-> IF Changed(d.channel[c], x.channel[c]) THEN Now
                                     ELSE x.channel[c].version]
           n == IF d.settings # x.settings THEN Now ELSE DeviceVersion(x)
<1>1. \A c \in Channel : e(c) \in Entry
    BY NoConfigFits, NowFits, ConfigFits, InputFits DEF Entry
<1>2. n \in Version
    BY NowFits, ConfigFits DEF DeviceVersion
<1>3. Replace(x, d) = [settings |-> d.settings, version |-> n, channel |-> [c \in Channel |-> e(c)]]
    BY DEF Replace
<1> HIDE DEF e, n
<1>4. [c \in Channel |-> e(c)] \in [Channel -> Entry]
    BY <1>1
<1>5. Replace(x, d) \in Config
    BY <1>2, <1>3, <1>4, InputFits DEF Config
<1> QED BY <1>3, <1>5 DEF e, n

\* A document without an omission has, where nothing has changed, what is stored.
LEMMA UnchangedIsSame ==
    ASSUME TypeOK, NEW d \in Document, LeavesNothingOut(d),
           NEW c \in Channel, d.channel[c] # NoContent, ~Changed(d.channel[c], stored.channel[c])
    PROVE  d.channel[c] = stored.channel[c].content
<1>1. stored \in Config /\ d.channel[c] \in Content /\ stored.channel[c].content \in Content
    BY ConfigFits, InputFits DEF TypeOK
<1>2. \A f \in Field : d.channel[c][f] = stored.channel[c].content[f]
    BY DEF LeavesNothingOut, Changed
<1> QED BY <1>1, <1>2 DEF Content

-----------------------------------------------------------------------------
(* Types *)

LEMMA StoredFits == ASSUME TypeOK PROVE stored \in Config /\ retained \in Config /\ cache \in Config
BY DEF TypeOK

LEMMA InboxFits ==
    ASSUME TypeOK
    PROVE  /\ inbox \in Seq(Config) /\ Len(inbox) \in Nat /\ DOMAIN inbox = 1 .. Len(inbox)
           /\ \A i \in 1 .. Len(inbox) : inbox[i] \in Config
<1>1. inbox \in Seq(Config)
    BY DEF TypeOK
<1> QED BY <1>1

\* A call makes a document of what is stored.
LEMMA UpdateMakes ==
    ASSUME TypeOK, NEW w \in Worker, Update(w)
    PROVE  \E x \in Config : Begin(w, x)
<1>1. ASSUME NEW c \in Channel, NEW p \in Patch, UpdateChannelConfig(w, c, p)
      PROVE  \E x \in Config : Begin(w, x)
  <2>1. Begin(w, ChannelMerge(stored, c, p)) /\ Tick
      BY <1>1 DEF UpdateChannelConfig, Begin
  <2> QED BY <2>1, StoredFits, ChannelMergeFits
<1>2. ASSUME NEW s \in Settings, UpdateDeviceSettings(w, s)
      PROVE  \E x \in Config : Begin(w, x)
  <2>1. Begin(w, SettingsMerge(stored, s)) /\ Tick
      BY <1>2 DEF UpdateDeviceSettings, Begin
  <2> QED BY <2>1, StoredFits, SettingsMergeFits
<1>3. ASSUME NEW d \in Document, UpdateConfiguration(w, d)
      PROVE  \E x \in Config : Begin(w, x)
  <2>1. Begin(w, Replace(stored, d)) /\ Tick
      BY <1>3 DEF UpdateConfiguration, Begin
  <2> QED BY <2>1, StoredFits, ReplaceFits
<1> QED BY <1>1, <1>2, <1>3 DEF Update

\* What the messages may be after a step that neither begins nor ends a call: those that
\* were there, and what is retained.
LEMMA Delivered ==
    ASSUME TypeOK, Subscribe
    PROVE  /\ inbox' \in Seq(Config)
           /\ \A i \in DOMAIN inbox' : inbox'[i] = retained \/ \E j \in DOMAIN inbox : inbox'[i] = inbox[j]
<1>1. CASE retained = NoConfig
    BY <1>1, InboxFits DEF Subscribe
<1>2. CASE retained # NoConfig
  <2>1. inbox' = Append(inbox, retained)
      BY <1>2 DEF Subscribe
  <2> QED BY <2>1, InboxFits, StoredFits, AppendProperties
<1> QED BY <1>1, <1>2

LEMMA Published ==
    ASSUME TypeOK, NEW w \in Worker, Publish(w)
    PROVE  /\ inbox' \in Seq(Config)
           /\ \A i \in DOMAIN inbox' :
                 inbox'[i] = task[w].config \/ \E j \in DOMAIN inbox : inbox'[i] = inbox[j]
<1>1. CASE ~link
    BY <1>1, InboxFits DEF Publish
<1>2. CASE link
  <2>1. inbox' = Append(inbox, task[w].config) /\ task[w].config \in Config
      BY <1>2 DEF Publish, TypeOK
  <2> QED BY <2>1, InboxFits, AppendProperties
<1> QED BY <1>1, <1>2

LEMMA CutLeaves ==
    ASSUME TypeOK, Cut
    PROVE  /\ inbox' \in Seq(Config)
           /\ \A i \in DOMAIN inbox' : \E j \in DOMAIN inbox : inbox'[i] = inbox[j]
<1>1. PICK n \in 0 .. Len(inbox) : inbox' = SubSeq(inbox, 1, n)
    BY DEF Cut
<1>2. \A j \in 1 .. n : inbox[j] \in Config
    BY InboxFits
<1>3. /\ SubSeq(inbox, 1, n) \in Seq(Config)
      /\ Len(SubSeq(inbox, 1, n)) = IF 1 <= n THEN n - 1 + 1 ELSE 0
      /\ \A j \in 1 .. n - 1 + 1 : SubSeq(inbox, 1, n)[j] = inbox[1 + j - 1]
    BY <1>2, InboxFits, SubSeqProperties
<1>4. Len(inbox') = n /\ \A j \in 1 .. n : inbox'[j] = inbox[j]
    BY <1>1, <1>3, InboxFits
<1>5. DOMAIN inbox' = 1 .. n /\ \A j \in 1 .. n : j \in DOMAIN inbox
    BY <1>1, <1>3, <1>4, InboxFits
<1> QED BY <1>1, <1>3, <1>4, <1>5

LEMMA TakeLeaves ==
    ASSUME TypeOK, NEW i \in 1 .. Len(inbox), Take(i)
    PROVE  /\ inbox' \in Seq(Config)
           /\ \A k \in DOMAIN inbox' : \E j \in DOMAIN inbox : inbox'[k] = inbox[j]
<1>1. inbox' = SubSeq(inbox, 1, i - 1) \o SubSeq(inbox, i + 1, Len(inbox))
    BY DEF Take, RemoveAt
<1> DEFINE a == SubSeq(inbox, 1, i - 1)
           b == SubSeq(inbox, i + 1, Len(inbox))
<1>2. a \in Seq(Config) /\ \A k \in 1 .. Len(a) : \E j \in 1 .. Len(inbox) : a[k] = inbox[j]
  <2>1. /\ a \in Seq(Config) /\ Len(a) = IF 1 <= i - 1 THEN (i - 1) - 1 + 1 ELSE 0
        /\ \A k \in 1 .. (i - 1) - 1 + 1 : a[k] = inbox[1 + k - 1]
      BY InboxFits, SubSeqProperties
  <2> QED BY <2>1, InboxFits
<1>3. b \in Seq(Config) /\ \A k \in 1 .. Len(b) : \E j \in 1 .. Len(inbox) : b[k] = inbox[j]
  <2>1. /\ b \in Seq(Config)
        /\ Len(b) = IF i + 1 <= Len(inbox) THEN Len(inbox) - (i + 1) + 1 ELSE 0
        /\ \A k \in 1 .. Len(inbox) - (i + 1) + 1 : b[k] = inbox[(i + 1) + k - 1]
    <3>1. i + 1 \in 1 .. Len(inbox) + 1 /\ Len(inbox) \in (i + 1) - 1 .. Len(inbox)
        BY InboxFits
    <3> QED BY <3>1, InboxFits, SubSeqProperties
  <2> HIDE DEF b
  <2>2. Len(b) = Len(inbox) - i
    <3>1. i \in Nat /\ Len(inbox) \in Nat /\ i <= Len(inbox)
        BY InboxFits
    <3>2. (IF i + 1 <= Len(inbox) THEN Len(inbox) - (i + 1) + 1 ELSE 0) = Len(inbox) - i
        BY <3>1
    <3> QED BY <2>1, <3>2
  <2>3. ASSUME NEW k \in 1 .. Len(b) PROVE \E j \in 1 .. Len(inbox) : b[k] = inbox[j]
    <3>1. /\ k \in 1 .. Len(inbox) - (i + 1) + 1 /\ i + k \in 1 .. Len(inbox)
          /\ (i + 1) + k - 1 = i + k
        BY <2>2, InboxFits
    <3> QED BY <2>1, <3>1
  <2> QED BY <2>1, <2>3
<1> HIDE DEF a, b
<1>4. /\ a \o b \in Seq(Config) /\ Len(a \o b) = Len(a) + Len(b)
      /\ \A k \in 1 .. Len(a) + Len(b) : (a \o b)[k] = IF k <= Len(a) THEN a[k] ELSE b[k - Len(a)]
    BY <1>2, <1>3, ConcatProperties
<1>5. ASSUME NEW k \in 1 .. Len(a) + Len(b)
      PROVE  \E j \in 1 .. Len(inbox) : (a \o b)[k] = inbox[j]
  <2>1. CASE k <= Len(a)
      BY <1>2, <1>4, <2>1
  <2>2. CASE ~(k <= Len(a))
    <3>1. PICK m \in 1 .. Len(b) : m = k - Len(a)
      <4>1. Len(a) \in Nat /\ Len(b) \in Nat
          BY <1>2, <1>3, LenProperties
      <4>2. k - Len(a) \in 1 .. Len(b)
          BY <2>2, <4>1
      <4> QED BY <4>2
    <3> QED BY <1>3, <1>4, <2>2, <3>1
  <2> QED BY <2>1, <2>2
<1>6. inbox' = a \o b /\ DOMAIN inbox' = 1 .. Len(a) + Len(b)
    BY <1>1, <1>2, <1>3, <1>4 DEF a, b
<1> QED BY <1>4, <1>5, <1>6, InboxFits

LEMMA TypeInit == Init => TypeOK
<1> SUFFICES ASSUME Init PROVE TypeOK
    OBVIOUS
<1>1. link \in BOOLEAN /\ {overlapped, reordered} \subseteq BOOLEAN
    BY Zenon DEF Init
<1> QED BY <1>1, NoConfigFits, BoundAssumption DEF Init, TypeOK, Idle, Version

LEMMA TypeStep == ASSUME TypeOK, [Next]_vars PROVE TypeOK'
<1> USE BoundAssumption
<1>1. ASSUME NEW w \in Worker, Update(w) PROVE TypeOK'
  <2>1. PICK x \in Config : Begin(w, x)
      BY <1>1, UpdateMakes
  <2>2. clock' \in Version
      BY <2>1, NowFits DEF Begin, Tick
  <2>3. task' \in [Worker -> [step : {"idle", "write", "publish"}, config : Config]]
    <3> DEFINE t == [step |-> "write", config |-> x]
    <3>1. t \in [step : {"idle", "write", "publish"}, config : Config] /\ task' = [task EXCEPT ![w] = t]
        BY <2>1 DEF Begin
    <3> QED BY <3>1 DEF TypeOK
  <2>4. {overlapped', reordered'} \subseteq BOOLEAN
    <3>1. overlapped' = (overlapped \/ \E v \in Worker : task[v] # Idle) /\ reordered' = reordered
        BY <2>1 DEF Begin
    <3>2. overlapped' \in BOOLEAN
        BY <3>1, Zenon
    <3> QED BY <3>1, <3>2 DEF TypeOK
  <2> QED BY <2>1, <2>2, <2>3, <2>4 DEF TypeOK, Begin
<1>2. ASSUME NEW w \in Worker, Persist(w) PROVE TypeOK'
  <2> DEFINE t == [task[w] EXCEPT !.step = "publish"]
  <2>1. task[w] \in [step : {"idle", "write", "publish"}, config : Config]
      BY DEF TypeOK
  <2>2. t \in [step : {"idle", "write", "publish"}, config : Config] /\ task' = [task EXCEPT ![w] = t]
      BY <1>2, <2>1 DEF Persist, TypeOK
  <2>3. task' \in [Worker -> [step : {"idle", "write", "publish"}, config : Config]]
      BY <2>2 DEF TypeOK
  <2> QED BY <1>2, <2>1, <2>3 DEF TypeOK, Persist
<1>3. ASSUME NEW w \in Worker, Publish(w) PROVE TypeOK'
  <2>1. Idle \in [step : {"idle", "write", "publish"}, config : Config]
      BY NoConfigFits DEF Idle
  <2>2. task' \in [Worker -> [step : {"idle", "write", "publish"}, config : Config]] /\ task[w].config \in Config
      BY <1>3, <2>1 DEF Publish, TypeOK
  <2> QED BY <1>3, <2>2, Published DEF Publish, TypeOK
<1>4. CASE Deprovision
  <2>1. {overlapped', reordered'} \subseteq BOOLEAN
    <3>1. overlapped' = (overlapped \/ \E v \in Worker : task[v] # Idle) /\ reordered' = reordered
        BY <1>4 DEF Deprovision
    <3>2. overlapped' \in BOOLEAN
        BY <3>1, Zenon
    <3> QED BY <3>1, <3>2 DEF TypeOK
  <2> QED BY <1>4, <2>1, NoConfigFits DEF Deprovision, TypeOK
<1>5. CASE Subscribe
  <2>1. link' \in BOOLEAN
      BY <1>5, Zenon DEF Subscribe
  <2> QED BY <1>5, <2>1, Delivered DEF Subscribe, TypeOK
<1>6. CASE Drop \/ Reset
  <2>1. link' \in BOOLEAN
      BY <1>6, Zenon DEF Drop, Reset, Cut
  <2>2. inbox' \in Seq(Config)
      BY <1>6, CutLeaves DEF Drop, Reset
  <2> QED BY <1>6, <2>1, <2>2, NoConfigFits DEF Drop, Reset, TypeOK
<1>7. ASSUME NEW i \in 1 .. Len(inbox), Take(i) PROVE TypeOK'
  <2>1. reordered' \in BOOLEAN
    <3>1. reordered' = (reordered \/ i > 1)
        BY <1>7 DEF Take
    <3> QED BY <3>1, Zenon
  <2>2. cache' \in Config
      BY <1>7, InboxFits DEF Take
  <2> QED BY <1>7, <2>1, <2>2, TakeLeaves DEF Take, TypeOK
<1>8. CASE UNCHANGED vars
    BY <1>8 DEF vars, TypeOK
<1> QED BY <1>1, <1>2, <1>3, <1>4, <1>5, <1>6, <1>7, <1>8 DEF Next, Finish, Handle

-----------------------------------------------------------------------------
(* Versions *)

\* A step that neither makes a document nor reads the clock.
LEMMA VersionsStay ==
    ASSUME TypeOK, VersionsFit, UNCHANGED clock, Documented' \subseteq Documented \cup {NoConfig}
    PROVE  VersionsFit'
<1>1. Dated(NoConfig)
    BY NoConfigFits, BoundAssumption DEF Dated, TypeOK, Version, NoEntry
<1>2. ASSUME NEW x \in Documented PROVE Agree(x, NoConfig) /\ Agree(NoConfig, x)
    BY <1>2, NoConfigFits DEF VersionsFit, Dated, Agree, NoEntry
<1>3. Agree(NoConfig, NoConfig)
    BY DEF Agree
<1>4. ASSUME NEW x \in Documented \cup {NoConfig} PROVE Dated(x)'
    BY <1>1, <1>4 DEF VersionsFit, Dated
<1>5. \A x, y \in Documented \cup {NoConfig} : Agree(x, y)
    BY <1>2, <1>3 DEF VersionsFit
<1> QED BY <1>4, <1>5 DEF VersionsFit, Agree

\* What a call makes of the stored document, for each of the calls.
LEMMA DerivedChannel ==
    ASSUME TypeOK, Tick, NEW c \in Channel, NEW p \in Patch
    PROVE  Derived(ChannelMerge(stored, c, p))
BY StoredFits, ChannelMergeFits DEF Derived, DeviceVersion

LEMMA DerivedSettings ==
    ASSUME TypeOK, Tick, NEW s \in Settings
    PROVE  Derived(SettingsMerge(stored, s))
BY StoredFits, SettingsMergeFits DEF Derived

LEMMA DerivedDocument ==
    ASSUME TypeOK, Tick, NEW d \in Document, LeavesNothingOut(d)
    PROVE  Derived(Replace(stored, d))
<1>1. /\ Replace(stored, d).settings = d.settings
      /\ Replace(stored, d).version = IF d.settings # stored.settings THEN Now ELSE DeviceVersion(stored)
    BY StoredFits, ReplaceFits
<1>2. \/ Replace(stored, d).version = Now
      \/ Replace(stored, d).version = stored.version /\ Replace(stored, d).settings = stored.settings
    BY <1>1 DEF DeviceVersion
<1>3. ASSUME NEW c \in Channel
      PROVE  \/ Replace(stored, d).channel[c].version = Now
             \/ Replace(stored, d).channel[c] \in {stored.channel[c], NoEntry}
  <2>1. Replace(stored, d).channel[c] =
            IF d.channel[c] = NoContent THEN NoEntry
            ELSE [content |-> d.channel[c],
                  version |-> IF Changed(d.channel[c], stored.channel[c]) THEN Now
                              ELSE stored.channel[c].version]
      BY StoredFits, ReplaceFits
  <2>2. CASE d.channel[c] = NoContent
      BY <2>1, <2>2
  <2>3. CASE d.channel[c] # NoContent /\ Changed(d.channel[c], stored.channel[c])
      BY <2>1, <2>3
  <2>4. CASE d.channel[c] # NoContent /\ ~Changed(d.channel[c], stored.channel[c])
    <3>1. stored.channel[c] \in Entry
        BY StoredFits, ConfigFits
    <3>2. stored.channel[c] = [content |-> d.channel[c], version |-> stored.channel[c].version]
        BY <2>4, <3>1, UnchangedIsSame DEF Entry
    <3> QED BY <2>1, <2>4, <3>2
  <2> QED BY <2>2, <2>3, <2>4
<1> QED BY <1>2, <1>3 DEF Derived

LEMMA UpdateDerives ==
    ASSUME Complete, TypeOK, NEW w \in Worker, Update(w)
    PROVE  \E x \in Config : Begin(w, x) /\ Derived(x)
<1>1. ASSUME NEW c \in Channel, NEW p \in Patch, UpdateChannelConfig(w, c, p)
      PROVE  \E x \in Config : Begin(w, x) /\ Derived(x)
  <2>1. Begin(w, ChannelMerge(stored, c, p)) /\ Tick
      BY <1>1 DEF UpdateChannelConfig, Begin
  <2> QED BY <2>1, StoredFits, ChannelMergeFits, DerivedChannel
<1>2. ASSUME NEW s \in Settings, UpdateDeviceSettings(w, s)
      PROVE  \E x \in Config : Begin(w, x) /\ Derived(x)
  <2>1. Begin(w, SettingsMerge(stored, s)) /\ Tick
      BY <1>2 DEF UpdateDeviceSettings, Begin
  <2> QED BY <2>1, StoredFits, SettingsMergeFits, DerivedSettings
<1>3. ASSUME NEW d \in Document, UpdateConfiguration(w, d)
      PROVE  \E x \in Config : Begin(w, x) /\ Derived(x)
  <2>1. Begin(w, Replace(stored, d)) /\ Tick /\ LeavesNothingOut(d)
      BY <1>3 DEF UpdateConfiguration, Begin
  <2> QED BY <2>1, StoredFits, ReplaceFits, DerivedDocument
<1> QED BY <1>1, <1>2, <1>3 DEF Update

\* The new document agrees with every other: what has the new version is in no other.
LEMMA VersionsMade ==
    ASSUME TypeOK, VersionsFit, NEW w \in Worker, NEW x \in Config, Begin(w, x), Derived(x)
    PROVE  VersionsFit'
<1>1. clock' = Now /\ Now > clock /\ Now > 0 /\ clock \in Nat /\ Now \in Nat
    BY NowFits, BoundAssumption DEF Begin, Tick, TypeOK, Version
<1>2. Documented' \subseteq Documented \cup {x}
  <2>1. \A v \in Worker : task'[v].config \in {task[v].config, x}
      BY DEF Begin, TypeOK
  <2> QED BY <2>1 DEF Begin, Documented
<1>3. stored \in Documented /\ Dated(stored)
    BY DEF Documented, VersionsFit
<1>4. \A y \in Documented : y \in Config
    BY StoredFits, InboxFits DEF Documented, TypeOK
<1>5. ASSUME NEW y \in Documented PROVE Dated(y)'
  <2>1. Dated(y) /\ y \in Config
      BY <1>4, <1>5 DEF VersionsFit
  <2> QED BY <1>1, <2>1, ConfigFits DEF Dated
<1>6. Dated(x)'
  <2>1. x.version <= Now /\ (x.version = 0 => x.settings = Absent)
      BY <1>1, <1>3, StoredFits, ConfigFits DEF Derived, Dated
  <2>2. \A c \in Channel : x.channel[c].version <= Now /\ (x.channel[c].version = 0 => x.channel[c] = NoEntry)
      BY <1>1, <1>3, StoredFits, ConfigFits DEF Derived, Dated, NoEntry
  <2> QED BY <1>1, <2>1, <2>2 DEF Dated
<1>7. ASSUME NEW y \in Documented PROVE Agree(x, y) /\ Agree(y, x)
  <2>1. Agree(stored, y) /\ Dated(y) /\ y \in Config
      BY <1>3, <1>4, <1>7 DEF VersionsFit
  <2>2. y.version < Now /\ \A c \in Channel : y.channel[c].version < Now
      BY <1>1, <2>1, ConfigFits DEF Dated
  <2>3. x.version = y.version => x.settings = y.settings
      BY <1>1, <2>1, <2>2, ConfigFits DEF Derived, Agree
  <2>4. ASSUME NEW c \in Channel, x.channel[c].version = y.channel[c].version
        PROVE  x.channel[c] = y.channel[c]
    <3>1. x.channel[c].version # Now
        BY <1>1, <2>1, <2>2, <2>4, ConfigFits
    <3>2. CASE x.channel[c] = stored.channel[c]
        BY <2>1, <2>4, <3>2 DEF Agree
    <3>3. CASE x.channel[c] = NoEntry
        BY <2>1, <2>4, <3>3 DEF Dated, NoEntry
    <3> QED BY <3>1, <3>2, <3>3 DEF Derived
  <2> QED BY <2>3, <2>4 DEF Agree
<1>8. \A y, z \in Documented \cup {x} : Agree(y, z)
  <2>1. Agree(x, x)
      BY DEF Agree
  <2> QED BY <1>7, <2>1 DEF VersionsFit
<1> QED BY <1>2, <1>5, <1>6, <1>8 DEF VersionsFit, Agree

LEMMA VersionStep == ASSUME Complete, TypeOK, VersionsFit, [Next]_vars PROVE VersionsFit'
<1>1. ASSUME NEW w \in Worker, Update(w) PROVE VersionsFit'
    BY <1>1, UpdateDerives, VersionsMade
<1>2. ASSUME NEW w \in Worker, Persist(w) PROVE VersionsFit'
  <2>1. \A v \in Worker : task'[v].config = task[v].config
      BY <1>2 DEF Persist, TypeOK
  <2> QED BY <1>2, <2>1, VersionsStay DEF Persist, Documented
<1>3. ASSUME NEW w \in Worker, Publish(w) PROVE VersionsFit'
  <2>1. \A v \in Worker : task'[v].config \in {task[v].config, NoConfig}
      BY <1>3 DEF Publish, TypeOK, Idle
  <2>2. \A i \in DOMAIN inbox' : inbox'[i] \in Documented
      BY <1>3, Published DEF Documented
  <2> QED BY <1>3, <2>1, <2>2, VersionsStay DEF Publish, Documented
<1>4. CASE Deprovision
    BY <1>4, VersionsStay DEF Deprovision, Documented
<1>5. CASE Subscribe
  <2>1. \A i \in DOMAIN inbox' : inbox'[i] \in Documented
      BY <1>5, Delivered DEF Documented
  <2> QED BY <1>5, <2>1, VersionsStay DEF Subscribe, Documented
<1>6. CASE Drop \/ Reset
  <2>1. \A i \in DOMAIN inbox' : inbox'[i] \in Documented
      BY <1>6, CutLeaves DEF Drop, Reset, Documented
  <2> QED BY <1>6, <2>1, VersionsStay DEF Drop, Reset, Documented
<1>7. ASSUME NEW i \in 1 .. Len(inbox), Take(i) PROVE VersionsFit'
  <2>1. \A k \in DOMAIN inbox' : inbox'[k] \in Documented
      BY <1>7, TakeLeaves DEF Documented
  <2>2. cache' \in Documented
      BY <1>7, InboxFits DEF Take, Documented
  <2> QED BY <1>7, <2>1, <2>2, VersionsStay DEF Take, Documented
<1>8. CASE UNCHANGED vars
  <2>1. Documented' = Documented /\ UNCHANGED clock
      BY <1>8 DEF vars, Documented
  <2> QED BY <2>1, VersionsStay
<1> QED BY <1>1, <1>2, <1>3, <1>4, <1>5, <1>6, <1>7, <1>8 DEF Next, Finish, Handle

-----------------------------------------------------------------------------
(* One call at a time *)

LEMMA DerivedTakesNothing ==
    ASSUME TypeOK, VersionsFit, Tick, NEW x \in Config, Derived(x)
    PROVE  TakesNothing(x)
<1>1. stored \in Config /\ Dated(stored)
    BY StoredFits DEF VersionsFit, Documented
<1>2. Now > clock /\ clock \in Nat /\ Now \in Nat
    BY NowFits, BoundAssumption DEF TypeOK, Version
<1>3. x.version >= stored.version
    BY <1>1, <1>2, ConfigFits DEF Derived, Dated
<1>4. ASSUME NEW c \in Channel, x.channel[c].version = Now
      PROVE  x.channel[c].version > stored.channel[c].version
    BY <1>1, <1>2, <1>4, ConfigFits DEF Dated
<1> QED BY <1>3, <1>4 DEF TakesNothing, Derived

LEMMA CallStep ==
    ASSUME Complete, TypeOK, VersionsFit, CallsFit, [Next]_vars PROVE CallsFit'
<1>1. ASSUME NEW w \in Worker, Update(w) PROVE CallsFit'
  <2>1. PICK x \in Config : Begin(w, x) /\ Derived(x)
      BY <1>1, UpdateDerives
  <2>2. task'[w] = [step |-> "write", config |-> x] /\ \A v \in Worker \ {w} : task'[v] = task[v]
      BY <2>1 DEF Begin, TypeOK
  <2>3. ~overlapped' => \A v \in Worker : task[v] = Idle
      BY <2>1 DEF Begin
  <2>4. OneCall'
      BY <2>2, <2>3 DEF OneCall
  <2>5. TakesNothing(x)
      BY <2>1, DerivedTakesNothing DEF Begin
  <2>6. stored' = stored
      BY <2>1 DEF Begin
  <2>7. WritesFit'
    <3> SUFFICES ASSUME ~overlapped', NEW v \in Worker, task'[v].step = "write"
                 PROVE  TakesNothing(task[v].config)'
        BY DEF WritesFit
    <3>1. v = w
        BY <2>2, <2>3 DEF Idle
    <3>2. task'[v].config = x
        BY <2>2, <3>1
    <3> QED BY <2>5, <2>6, <3>2 DEF TakesNothing
  <2> QED BY <2>4, <2>7 DEF CallsFit
<1>2. ASSUME NEW w \in Worker, Persist(w) PROVE CallsFit'
  <2>1. /\ task[w] # Idle /\ task'[w].step = "publish"
        /\ \A v \in Worker \ {w} : task'[v] = task[v]
        /\ UNCHANGED <<state, overlapped>>
      BY <1>2 DEF Persist, TypeOK, Idle
  <2>2. OneCall'
      BY <2>1 DEF CallsFit, OneCall
  <2>3. ~overlapped' => \A v \in Worker : task'[v].step # "write"
      BY <2>1 DEF CallsFit, OneCall, Idle
  <2>4. WritesFit'
      BY <2>3 DEF WritesFit
  <2> QED BY <2>2, <2>4 DEF CallsFit
<1>3. ASSUME NEW w \in Worker, Publish(w) PROVE CallsFit'
  <2>1. /\ task'[w] = Idle
        /\ \A v \in Worker \ {w} : task'[v] = task[v]
        /\ UNCHANGED <<state, stored, overlapped>>
      BY <1>3 DEF Publish, TypeOK
  <2>2. OneCall'
      BY <2>1 DEF CallsFit, OneCall
  <2>3. WritesFit'
    <3> SUFFICES ASSUME ~overlapped', state' = "ACTIVE", NEW v \in Worker, task'[v].step = "write"
                 PROVE  TakesNothing(task[v].config)'
        BY DEF WritesFit
    <3>1. task'[v] = task[v]
        BY <2>1 DEF Idle
    <3>2. TakesNothing(task[v].config)
        BY <2>1, <3>1 DEF CallsFit, WritesFit
    <3> QED BY <2>1, <3>1, <3>2 DEF TakesNothing
  <2> QED BY <2>2, <2>3 DEF CallsFit
<1>4. CASE Deprovision
  <2>1. state' # "ACTIVE" /\ task' = task /\ (overlapped => overlapped')
      BY <1>4 DEF Deprovision
  <2> QED BY <2>1 DEF CallsFit, OneCall, WritesFit
<1>5. CASE UNCHANGED <<state, stored, task, overlapped>>
    BY <1>5 DEF CallsFit, OneCall, WritesFit, TakesNothing
<1> QED BY <1>1, <1>2, <1>3, <1>4, <1>5 DEF Next, Finish, Handle, Take, Subscribe, Drop, Reset, vars

LEMMA NothingTaken ==
    ASSUME TypeOK, CallsFit, [Next]_vars, ~overlapped', state' = "ACTIVE"
    PROVE  TakesNothing(stored')
<1>1. CASE stored' = stored
  <2>1. stored.version >= stored.version
      BY StoredFits, ConfigFits
  <2> QED BY <1>1, <2>1 DEF TakesNothing
<1>2. ASSUME NEW w \in Worker, Persist(w) PROVE TakesNothing(stored')
  <2>1. task[w].step = "write" /\ stored' = task[w].config /\ UNCHANGED <<state, overlapped>>
      BY <1>2 DEF Persist
  <2> QED BY <2>1 DEF CallsFit, WritesFit
<1>3. CASE Deprovision
    BY <1>3 DEF Deprovision
<1> QED
    BY <1>1, <1>2, <1>3
    DEF Next, Update, UpdateChannelConfig, UpdateDeviceSettings, UpdateConfiguration, Begin,
        Finish, Publish, Handle, Take, Subscribe, Drop, Reset, vars

-----------------------------------------------------------------------------
(* The theorems *)

\* Every variable keeps its type: whatever is stored, published, on its way or cached is
\* a whole document.
THEOREM TypeCorrect == Spec => []TypeOK
<1>1. Init => TypeOK
    BY TypeInit
<1>2. TypeOK /\ [Next]_vars => TypeOK'
    BY TypeStep
<1> QED BY <1>1, <1>2, PTL DEF Spec

LEMMA VersionsCorrect == ASSUME Complete PROVE Spec => []VersionsFit
<1>1. Init => VersionsFit
  <2> SUFFICES ASSUME Init PROVE VersionsFit
      OBVIOUS
  <2>1. Documented = {NoConfig}
      BY DEF Init, Documented, Idle
  <2>2. Dated(NoConfig)
      BY NoConfigFits DEF Init, Dated, NoEntry
  <2> QED BY <2>1, <2>2 DEF VersionsFit, Agree
<1>2. TypeOK /\ VersionsFit /\ [Next]_vars => VersionsFit'
    BY VersionStep
<1> QED BY <1>1, <1>2, TypeCorrect, PTL DEF Spec

\* A version stands for one content in every document of the system, whatever calls
\* overlap, messages are lost or handlers run late, so that a device that skips a version
\* it has applied skips nothing new; if no document leaves out a field that is stored.
THEOREM VersionsFix == ASSUME Complete PROVE Spec => []VersionFixesContent
<1>1. VersionsFit => VersionFixesContent
    BY DEF VersionsFit, Agree, VersionFixesContent
<1> QED BY <1>1, VersionsCorrect, PTL

\* Of calls that do not overlap none takes back what an earlier one has stored; if no
\* document leaves out a field that is stored.
THEOREM CallsTakeNothing == ASSUME Complete PROVE Spec => NothingIsTakenBack
<1>1. Init => CallsFit
    BY DEF Init, CallsFit, OneCall, WritesFit, Idle
<1>2. TypeOK /\ VersionsFit /\ CallsFit /\ [Next]_vars => CallsFit'
    BY CallStep
<1> DEFINE Kept ==
        ~overlapped' /\ state' = "ACTIVE" =>
             /\ stored'.version >= stored.version
             /\ \A c \in Channel :
                  \/ stored'.channel[c] \in {stored.channel[c], NoEntry}
                  \/ stored'.channel[c].version > stored.channel[c].version
<1>3. TypeOK /\ CallsFit /\ [Next]_vars => [Kept]_vars
    BY NothingTaken DEF TakesNothing
<1>4. Spec => [][Kept]_vars
    BY <1>1, <1>2, <1>3, TypeCorrect, VersionsCorrect, PTL DEF Spec
<1> QED BY <1>4 DEF NothingIsTakenBack
=============================================================================
