--------------------------- MODULE ConfigSyncProofs ---------------------------
(***************************************************************************)
(* ConfigSync implements ConfigRegister, for every set of requests and     *)
(* configurations and every bound.                                         *)
(*                                                                         *)
(* A step of ConfigSync that changes what the register sees is a commit, a *)
(* message the device takes, or a restart, after which the device runs on  *)
(* what is in its flash.  That the committed version was free is the guard *)
(* of Commit; that it is a version and a configuration, and that the       *)
(* device only takes a version that was saved, is what the invariant says: *)
(* a request that has stored its configuration publishes a saved version,  *)
(* so that the retained message and every message on its way is one, or    *)
(* empty, and so is what the flash holds.  Nothing ever takes a saved      *)
(* version back.                                                           *)
(*                                                                         *)
(* Told adds that the report names the version the device holds or one it  *)
(* refused, unless storing failed, and that every report under way did     *)
(* when it left.  Calm holds while no two saves overlap and none is        *)
(* killed: the one request at work has the newest version and finds its    *)
(* audio whole, and what is on its way to the device goes upwards from     *)
(* what is in its flash.                                                   *)
(***************************************************************************)
EXTENDS ConfigSync, SequenceTheorems, NaturalsInduction, WellFoundedInduction, TLAPS

SavedIn(configs) == {v \in Versions : configs[v].content # NoContent}

Statuses == {"none", "desired", "publish_failed", "applied", "rejected"}

Servers == [configs : [Versions -> [content : Contents \cup {NoContent}, status : Statuses]],
            desired : 0..MaxVersion, reported : 0..MaxVersion, archived : BOOLEAN,
            asset : BOOLEAN, file : Files]

Steps == {"idle", "lookup", "writing", "insert", "ready", "stored"}

Requests == [step : Steps, content : Contents \cup {NoContent}, version : 0..MaxVersion,
             insert : BOOLEAN]

\* Values of which the version is one of S, or none.
Settings(S) == {f \in [Keys -> 0..MaxVersion] : f["cfgVer"] \in {0} \cup S}

Devices(S) == [connected : BOOLEAN, kept : Settings(S), live : Settings(S), audio : BOOLEAN,
               applying : Seq({"fetch", "prune"}),
               report : [due : BOOLEAN, version : {0} \cup S, applied : BOOLEAN]]

\* A device that only knows versions of S. What is in the flash names a version as
\* soon as what it runs on does.
Knows(d, S) ==
  /\ d \in Devices(S)
  /\ Len(d.applying) <= MaxNest
  /\ d.kept["cfgVer"] = 0 => d.live["cfgVer"] = 0

Letters(S) == [version : {0} \cup S, applied : BOOLEAN, held : {0} \cup S, flawed : BOOLEAN]

Flaws == {"store", "audio", "nest"}

\* A broker that only has messages about the versions of S.
Brokers(S) == [retained : {0} \cup S, inbox : Seq({0} \cup S)]

\* A request names a configuration and a version, saved ones once it has committed.
Sound(request, S) ==
  /\ request \in Requests
  /\ request.step # "idle" => request.content \in Contents /\ request.version \in Versions
  /\ request.step = "stored" => request.version \in S

Rest == mishaps \in 0..MaxMishaps /\ disturbed \in BOOLEAN /\ flaws \subseteq Flaws

IInv ==
  /\ server \in Servers
  /\ DOMAIN saving = Savers /\ saving = [s \in Savers |-> saving[s]]
  /\ \A s \in Savers : Sound(saving[s], SavedIn(server.configs))
  /\ broker \in Brokers(SavedIn(server.configs))
  /\ Knows(device, SavedIn(server.configs))
  /\ reports \in Seq(Letters(SavedIn(server.configs)))
  /\ Rest

Mapped == [v \in Versions |-> Content(v)]

\* A step of the register, or none.
Allowed == Register!Next \/ (Mapped' = Mapped /\ Held' = Held)

\* Nothing is saved and nothing taken.
Stays(configs) ==
  /\ \A v \in Versions : configs[v].content = server.configs[v].content
  /\ Held' = Held

-------------------------------------------------------------------------------
\* A broker keeps knowing only saved versions when more are saved.
LEMMA BrokersGrow ==
  ASSUME NEW S, NEW T, S \subseteq T, NEW b \in Brokers(S)
  PROVE  b \in Brokers(T)
<1>1. Seq({0} \cup S) \subseteq Seq({0} \cup T)
  <2>1. ASSUME NEW q \in Seq({0} \cup S) PROVE q \in Seq({0} \cup T)
    BY <2>1
  <2> QED
    BY <2>1
<1> QED
  BY <1>1 DEF Brokers

\* So do the device and the reports.
LEMMA OthersGrow ==
  ASSUME NEW S, NEW T, S \subseteq T, NEW d, Knows(d, S), NEW q \in Seq(Letters(S))
  PROVE  Knows(d, T) /\ q \in Seq(Letters(T))
<1>1. {0} \cup S \subseteq {0} \cup T
  OBVIOUS
<1>2. Settings(S) \subseteq Settings(T) /\ Letters(S) \subseteq Letters(T)
  BY <1>1 DEF Settings, Letters
<1>3. d \in Devices(T)
  <2>1. d \in Devices(S)
    BY DEF Knows
  <2> QED
    BY <1>1, <1>2, <2>1 DEF Devices
<1> QED
  BY <1>2, <1>3 DEF Knows

\* Publishing a saved version, or the empty message, keeps it so.
LEMMA RetainKnows ==
  ASSUME NEW S, broker \in Brokers(S), NEW v \in {0} \cup S, Retain(v)
  PROVE  broker' \in Brokers(S)
<1>1. broker.inbox \in Seq({0} \cup S)
  BY DEF Brokers
<1>2. Append(broker.inbox, v) \in Seq({0} \cup S)
  BY <1>1
<1> QED
  BY <1>1, <1>2 DEF Retain, Brokers

\* A request that goes on without committing leaves the others sound.
LEMMA OneRequest ==
  ASSUME IInv, NEW s \in Savers, NEW r, Sound(r, SavedIn(server.configs)),
         saving' = [saving EXCEPT ![s] = r]
  PROVE  /\ DOMAIN saving' = Savers /\ saving' = [t \in Savers |-> saving'[t]]
         /\ \A t \in Savers : Sound(saving'[t], SavedIn(server.configs))
  BY DEF IInv

\* Without a commit or a message taken, the register is left alone.
LEMMA StaysAllowed ==
  ASSUME Stays(server'.configs)
  PROVE  Allowed /\ SavedIn(server.configs)' = SavedIn(server.configs)
  BY DEF Stays, Allowed, Mapped, Content, SavedIn

\* What a request becomes: nothing, or itself at another step before the commit.
LEMMA Becomes ==
  ASSUME NEW S, NEW r, Sound(r, S), NEW insert \in BOOLEAN,
         NEW step \in Steps \ {"stored"}, r.step # "idle"
  PROVE  /\ Sound(Idle, S)
         /\ Sound([r EXCEPT !.step = step], S)
         /\ Sound([[r EXCEPT !.step = step] EXCEPT !.insert = insert], S)
<1>1. Sound(Idle, S)
  BY ConfigAssumption DEF Sound, Idle, Requests, Steps
<1>2. r \in Requests
  BY DEF Sound
<1> QED
  BY <1>1, <1>2 DEF Sound, Requests, Steps

-------------------------------------------------------------------------------
\* The steps of a request before its commit.
Opens(s) == \E c \in Contents, requested \in 0..MaxVersion : OpenForm(s, c, requested)
Synthesised(s) == \E file \in Files, ok \in BOOLEAN : EndSynthesis(s, file, ok)
Prepares(s) ==
  Opens(s) \/ FindAsset(s) \/ StartSynthesis(s) \/ Synthesised(s) \/ InsertAsset(s) \/ KillSave(s)

\* They only change the request, and the file of the audio.
LEMMA Preparing ==
  ASSUME IInv, NEW s \in Savers, Prepares(s)
  PROVE  IInv' /\ Allowed
<1>1. /\ server' \in Servers /\ Stays(server'.configs) /\ broker' = broker /\ device' = device
      /\ reports' = reports /\ Rest'
  <2>1. server' = server \/ (\E f \in Files : server' = [server EXCEPT !.file = f])
    BY DEF Prepares, Opens, Synthesised, OpenForm, FindAsset, StartSynthesis, EndSynthesis, InsertAsset, KillSave, Files
  <2>2. broker' = broker /\ device' = device /\ reports' = reports /\ flaws' = flaws
    BY DEF Prepares, Opens, Synthesised, OpenForm, FindAsset, StartSynthesis, EndSynthesis, InsertAsset, KillSave
  <2>3. Rest'
    <3>1. mishaps' \in 0..MaxMishaps
      BY ConfigAssumption DEF Prepares, Opens, Synthesised, IInv, Rest, OpenForm, FindAsset, StartSynthesis, EndSynthesis, InsertAsset,
         KillSave, Mishap
    <3>2. CASE Opens(s)
      <4>1. disturbed' = (disturbed \/ \E o \in Savers : saving[o] # Idle)
        BY <3>2 DEF Opens, OpenForm
      <4> QED
        BY <2>2, <3>1, <4>1 DEF IInv, Rest
    <3>3. CASE ~Opens(s)
      BY <2>2, <3>1, <3>3 DEF Prepares, Synthesised, IInv, Rest, FindAsset, StartSynthesis, EndSynthesis, InsertAsset, KillSave
    <3> QED
      BY <3>2, <3>3
  <2> QED
    BY <2>1, <2>2, <2>3 DEF IInv, Servers, Stays, Held
<1>2. Sound(saving[s], SavedIn(server.configs)) /\ saving[s] \in Requests
  BY DEF IInv, Sound
<1> DEFINE S == SavedIn(server.configs)
<1>3. \E q : saving' = [saving EXCEPT ![s] = q] /\ Sound(q, S)
  <2>1. CASE Opens(s)
    <3>0. PICK c \in Contents, requested \in 0..MaxVersion : OpenForm(s, c, requested)
      BY <2>1 DEF Opens
    <3> DEFINE q == [step |-> FirstStep(c), content |-> c,
                     version |-> NextVersion(Latest, requested), insert |-> FALSE]
    <3>1. saving' = [saving EXCEPT ![s] = q] /\ NextVersion(Latest, requested) \in Versions
      BY <3>0 DEF OpenForm
    <3>2. Sound(q, S)
      BY <3>1 DEF FirstStep, Sound, Requests, Steps, Versions
    <3> QED
      BY <3>1, <3>2
  <2>2. CASE FindAsset(s)
    <3>1. saving' = [saving EXCEPT ![s] = [saving[s] EXCEPT !.step = "ready"]] /\ saving[s].step # "idle"
      BY <2>2, <1>2 DEF FindAsset, IInv
    <3> QED
      BY <3>1, <1>2, Becomes DEF Steps
  <2>3. CASE StartSynthesis(s)
    <3> DEFINE q == [[saving[s] EXCEPT !.step = "writing"] EXCEPT !.insert = ~server.asset]
    <3>1. saving' = [saving EXCEPT ![s] = q] /\ saving[s].step # "idle"
      BY <2>3, <1>2 DEF StartSynthesis, IInv
    <3>2. (~server.asset) \in BOOLEAN
      OBVIOUS
    <3>3. Sound(q, S)
      BY <3>1, <3>2, <1>2, Becomes DEF Steps
    <3> QED
      BY <3>1, <3>3
  <2>4. CASE Synthesised(s)
    <3>0. PICK file \in Files, ok \in BOOLEAN : EndSynthesis(s, file, ok)
      BY <2>4 DEF Synthesised
    <3>1. saving[s].step # "idle"
          /\ saving' = [saving EXCEPT ![s] = IF ok THEN [saving[s] EXCEPT !.step = "insert"] ELSE Idle]
      BY <3>0, <1>2 DEF EndSynthesis, Writing
    <3>2. Sound(Idle, S) /\ Sound([saving[s] EXCEPT !.step = "insert"], S)
      BY <3>1, <1>2, Becomes DEF Steps
    <3> QED
      BY <3>1, <3>2
  <2>5. CASE InsertAsset(s)
    <3>1. saving[s].step # "idle"
          /\ (\/ saving' = [saving EXCEPT ![s] = Idle]
              \/ saving' = [saving EXCEPT ![s] = [saving[s] EXCEPT !.step = "ready"]])
      BY <2>5 DEF InsertAsset
    <3>2. Sound(Idle, S) /\ Sound([saving[s] EXCEPT !.step = "ready"], S)
      BY <3>1, <1>2, Becomes DEF Steps
    <3> QED
      BY <3>1, <3>2
  <2>6. CASE KillSave(s)
    <3>1. saving' = [saving EXCEPT ![s] = Idle]
      BY <2>6 DEF KillSave
    <3>2. Sound(Idle, S)
      BY ConfigAssumption DEF Sound, Idle, Requests, Steps
    <3> QED
      BY <3>1, <3>2
  <2> QED
    BY <2>1, <2>2, <2>3, <2>4, <2>5, <2>6 DEF Prepares
<1>4. /\ DOMAIN saving' = Savers /\ saving' = [t \in Savers |-> saving'[t]]
      /\ \A t \in Savers : Sound(saving'[t], SavedIn(server.configs))
  BY <1>3, OneRequest
<1> QED
  BY <1>1, <1>4, StaysAllowed DEF IInv

-------------------------------------------------------------------------------
\* A commit saves a version that was free.
LEMMA Committing ==
  ASSUME IInv, NEW s \in Savers, Commit(s)
  PROVE  IInv' /\ Allowed
<1> DEFINE new == saving[s]
           S == SavedIn(server.configs)
<1>1. /\ new \in Requests /\ new.step = "ready" /\ new.content \in Contents /\ new.version \in Versions
      /\ server \in Servers /\ server.configs \in [Versions -> [content : Contents \cup {NoContent}, status : Statuses]]
  BY DEF IInv, Sound, Commit, Servers
<1>2. Sound(Idle, S)
  BY <1>1, Becomes DEF IInv, Steps
<1>3. CASE Saved(new.version)
  <2>1. saving' = [saving EXCEPT ![s] = Idle] /\ server' = server
        /\ broker' = broker /\ device' = device /\ reports' = reports
        /\ mishaps' = mishaps /\ disturbed' = disturbed /\ flaws' = flaws
    BY <1>3 DEF Commit
  <2>2. Stays(server'.configs)
    BY <2>1 DEF Stays, Held
  <2>3. /\ DOMAIN saving' = Savers /\ saving' = [t \in Savers |-> saving'[t]]
        /\ \A t \in Savers : Sound(saving'[t], S)
    BY <1>2, <2>1, OneRequest
  <2> QED
    BY <2>1, <2>2, <2>3, StaysAllowed DEF IInv, Rest
<1>4. CASE ~Saved(new.version)
  <2> DEFINE row == [content |-> new.content, status |-> "desired"]
             configs == [server.configs EXCEPT ![new.version] = row]
  <2>1. /\ saving' = [saving EXCEPT ![s] = [new EXCEPT !.step = "stored"]]
        /\ server' = [server EXCEPT !.configs = configs, !.desired = new.version,
                                    !.asset = @ \/ new.insert]
        /\ broker' = broker /\ device' = device /\ reports' = reports
        /\ mishaps' = mishaps /\ disturbed' = disturbed /\ flaws' = flaws
    BY <1>4 DEF Commit
  <2>2. row \in [content : Contents \cup {NoContent}, status : Statuses]
    BY <1>1 DEF Statuses
  <2>3. configs \in [Versions -> [content : Contents \cup {NoContent}, status : Statuses]]
    BY <1>1, <2>2
  <2>4. server' \in Servers /\ server'.configs = configs
    <3>1. (server.asset \/ new.insert) \in BOOLEAN
      OBVIOUS
    <3>2. new.version \in 0..MaxVersion
      BY <1>1 DEF Requests
    <3> HIDE DEF configs, row
    <3> QED
      BY <2>1, <2>3, <3>1, <3>2, <1>1 DEF Servers
  <2>5. server.configs[new.version].content = NoContent
    BY <1>1, <1>4 DEF Saved, Content
  <2>6. Register!Save(new.version, new.content)
    <3>1. Mapped[new.version] = NoContent
      BY <1>1, <2>5 DEF Mapped, Content
    <3>2. Mapped' = [Mapped EXCEPT ![new.version] = new.content]
      <4>1. \A v \in Versions :
              configs[v].content = IF v = new.version THEN new.content ELSE server.configs[v].content
        BY <1>1
      <4>2. Mapped' = [v \in Versions |-> configs[v].content]
        BY <2>4 DEF Mapped, Content
      <4> HIDE DEF configs
      <4> QED
        BY <4>1, <4>2, <1>1 DEF Mapped, Content
    <3> QED
      BY <2>1, <3>1, <3>2 DEF Register!Save, Mapped, Held
  <2>7. SavedIn(server.configs)' = S \cup {new.version}
    BY <1>1, <2>4, ConfigAssumption DEF SavedIn
  <2>8. \A t \in Savers : Sound(saving[t], S \cup {new.version})
    BY DEF IInv, Sound
  <2>9. Sound([new EXCEPT !.step = "stored"], S \cup {new.version})
    BY <1>1 DEF Sound, Requests, Steps
  <2>10. /\ DOMAIN saving' = Savers /\ saving' = [t \in Savers |-> saving'[t]]
         /\ \A t \in Savers : Sound(saving'[t], S \cup {new.version})
    BY <2>1, <2>8, <2>9 DEF IInv
  <2>11. broker' \in Brokers(S \cup {new.version})
    <3>1. broker \in Brokers(S)
      BY DEF IInv
    <3>2. broker \in Brokers(S \cup {new.version})
      BY <3>1, BrokersGrow
    <3> QED
      BY <2>1, <3>2
  <2>12. Knows(device, S \cup {new.version}) /\ reports \in Seq(Letters(S \cup {new.version}))
    <3>1. Knows(device, S) /\ reports \in Seq(Letters(S))
      BY DEF IInv
    <3> HIDE DEF S, new
    <3> QED
      BY <3>1, OthersGrow
  <2>14. IInv'
    <3> DEFINE T == S \cup {new.version}
    <3> HIDE DEF T
    <3>1. T = SavedIn(server'.configs)
      BY <2>7 DEF T
    <3>2. broker' \in Brokers(T) /\ Knows(device', T) /\ reports' \in Seq(Letters(T))
          /\ \A t \in Savers : Sound(saving'[t], T)
      BY <2>1, <2>10, <2>11, <2>12 DEF T
    <3> QED
      BY <2>1, <2>4, <2>10, <3>1, <3>2 DEF IInv, Rest
  <2>13. Allowed
    BY <1>1, <2>6 DEF Allowed, Register!Next
  <2> QED
    BY <2>13, <2>14
<1> QED
  BY <1>3, <1>4

-------------------------------------------------------------------------------
\* What a request publishes was saved.
LEMMA Publishing ==
  ASSUME IInv, NEW s \in Savers, PublishDesired(s) \/ PublishFails(s)
  PROVE  IInv' /\ Allowed
<1> DEFINE S == SavedIn(server.configs)
           v == saving[s].version
<1>1. v \in S /\ v \in Versions /\ Sound(saving[s], S) /\ saving[s].step # "idle"
  BY DEF IInv, Sound, PublishDesired, PublishFails
<1>2. /\ DOMAIN saving' = Savers /\ saving' = [t \in Savers |-> saving'[t]]
      /\ \A t \in Savers : Sound(saving'[t], S)
  <2>1. Sound(Idle, S)
    BY <1>1, Becomes DEF IInv, Steps
  <2>2. saving' = [saving EXCEPT ![s] = Idle]
    BY DEF PublishDesired, PublishFails
  <2> QED
    BY <2>1, <2>2, OneRequest
<1>3. broker' \in Brokers(S)
  <2>1. broker \in Brokers(S)
    BY DEF IInv
  <2>2. Retain(v) \/ broker' = broker
    BY DEF PublishDesired, PublishFails
  <2> QED
    BY <1>1, <2>1, <2>2, RetainKnows
<1>4. /\ server' \in Servers /\ Stays(server'.configs) /\ device' = device /\ reports' = reports
      /\ Rest'
  <2>1. device' = device /\ reports' = reports
    BY DEF PublishDesired, PublishFails
  <2>2. Rest'
    BY ConfigAssumption DEF IInv, Rest, PublishDesired, PublishFails, Mishap
  <2>3. CASE server' = server
    BY <2>1, <2>2, <2>3 DEF IInv, Stays, Held
  <2>4. CASE server' = [server EXCEPT !.configs[v].status = "publish_failed"]
    <3> DEFINE configs == [server.configs EXCEPT ![v].status = "publish_failed"]
    <3>1. server.configs \in [Versions -> [content : Contents \cup {NoContent}, status : Statuses]]
      BY DEF IInv, Servers
    <3>2. configs \in [Versions -> [content : Contents \cup {NoContent}, status : Statuses]]
          /\ \A w \in Versions : configs[w].content = server.configs[w].content
      BY <1>1, <3>1 DEF Statuses
    <3>3. server' = [server EXCEPT !.configs = configs] /\ server \in Servers
      BY <2>4 DEF IInv
    <3> HIDE DEF configs
    <3>4. server' \in Servers /\ server'.configs = configs
      BY <3>2, <3>3 DEF Servers
    <3> QED
      BY <2>1, <2>2, <3>2, <3>4 DEF Stays, Held
  <2> QED
    BY <2>3, <2>4 DEF PublishDesired, PublishFails
<1> QED
  BY <1>2, <1>3, <1>4, StaysAllowed DEF IInv

-------------------------------------------------------------------------------
\* Losing the file, deleting and restoring leave what is saved.
LEMMA Administering ==
  ASSUME IInv, LoseFile \/ Archive \/ Restore
  PROVE  IInv' /\ Allowed
<1> DEFINE S == SavedIn(server.configs)
<1>1. server' \in Servers /\ Stays(server'.configs)
  <2>1. server \in Servers /\ device' = device
    BY DEF IInv, LoseFile, Archive, Restore
  <2>2. \/ server' = [server EXCEPT !.file = "none"]
        \/ server' = [server EXCEPT !.archived = TRUE]
        \/ server' = [server EXCEPT !.archived = FALSE]
    BY DEF LoseFile, Archive, Restore
  <2> QED
    BY <2>1, <2>2 DEF Servers, Files, Stays, Held
<1>2. broker' \in Brokers(S)
  <2>1. broker \in Brokers(S)
    BY DEF IInv
  <2>2. Retain(0) \/ broker' = broker
    BY DEF LoseFile, Archive, Restore
  <2> QED
    BY <2>1, <2>2, RetainKnows
<1>3. Rest'
  <2>1. mishaps' \in 0..MaxMishaps
    BY ConfigAssumption DEF IInv, Rest, LoseFile, Archive, Restore, Mishap
  <2>2. disturbed' = disturbed \/ disturbed' = (disturbed \/ \E s \in Savers : saving[s] # Idle)
    BY DEF LoseFile, Archive, Restore
  <2> QED
    BY <2>1, <2>2 DEF IInv, Rest, LoseFile, Archive, Restore
<1>4. saving' = saving /\ device' = device /\ reports' = reports
  BY DEF LoseFile, Archive, Restore
<1> QED
  BY <1>1, <1>2, <1>3, <1>4, StaysAllowed DEF IInv

-------------------------------------------------------------------------------
(* What a message does to the device. *)

\* The report of d names the version d holds or one it refused, unless storing failed.
Truthful(d, flawed) ==
  LET v == d.report.version IN v = 0 \/ Refuses(v) \/ v = d.live["cfgVer"] \/ flawed

\* What d may be after version v was handled: it knows what device knew and v, what is
\* in the flash is what was or v, what it runs on what it did or what is in the flash.
Handled(d, v, S) ==
  /\ Knows(d, S)
  /\ d.kept["cfgVer"] = device.kept["cfgVer"] \/ (v # 0 /\ d.kept["cfgVer"] = v)
  /\ d.live["cfgVer"] = Held \/ d.live["cfgVer"] = d.kept["cfgVer"]

LEMMA NotedIs ==
  ASSUME NEW S, device \in Devices(S), NEW v \in {0} \cup S
  PROVE  /\ Noted(v) \in Devices(S)
         /\ Noted(v).kept = device.kept /\ Noted(v).live = device.live
         /\ Noted(v).applying = device.applying /\ Noted(v).report.version = v
<1> DEFINE r == [[device.report EXCEPT !.version = v] EXCEPT !.applied = FALSE]
<1>1. Noted(v) = [device EXCEPT !.report = r]
  BY DEF Noted, Devices
<1>2. r \in [due : BOOLEAN, version : {0} \cup S, applied : BOOLEAN] /\ r.version = v
  BY DEF Devices
<1> HIDE DEF r
<1> QED
  BY <1>1, <1>2 DEF Devices

\* Settings that name a version of S.
LEMMA SettingsOf ==
  ASSUME NEW S, S \subseteq Versions, NEW v \in S, NEW k, device.kept \in Settings(S)
  PROVE  /\ Values(v) \in Settings(S) /\ Values(v)["cfgVer"] = v
         /\ Kept(v, k) \in Settings(S) /\ Kept(v, k)["cfgVer"] \in {v, device.kept["cfgVer"]}
<1>1. v \in 0..MaxVersion /\ "cfgVer" \in Keys
  BY ConfigAssumption DEF Versions, Keys
<1>2. Kept(v, k) \in [Keys -> 0..MaxVersion] /\ Kept(v, k)["cfgVer"] \in {v, device.kept["cfgVer"]}
  BY <1>1 DEF Kept, Settings
<1> QED
  BY <1>1, <1>2 DEF Values, Settings

\* A report changes neither what the device stored nor what the report is about.
LEMMA Signed ==
  ASSUME NEW S, NEW d \in Devices(S), NEW due \in BOOLEAN, NEW applied \in BOOLEAN
  PROVE  LET e == [d EXCEPT !.report.due = due, !.report.applied = applied] IN
         /\ e \in Devices(S) /\ e.kept = d.kept /\ e.live = d.live /\ e.applying = d.applying
         /\ e.report.version = d.report.version
<1> DEFINE r == [[d.report EXCEPT !.due = due] EXCEPT !.applied = applied]
           e == [d EXCEPT !.report.due = due, !.report.applied = applied]
<1>1. e = [d EXCEPT !.report = r]
  BY DEF Devices
<1>2. r \in [due : BOOLEAN, version : {0} \cup S, applied : BOOLEAN] /\ r.version = d.report.version
  BY DEF Devices
<1> HIDE DEF r
<1> QED
  BY <1>1, <1>2 DEF Devices

LEMMA Due ==
  ASSUME NEW S, NEW d \in Devices(S)
  PROVE  LET e == [d EXCEPT !.report.due = TRUE] IN
         /\ e \in Devices(S) /\ e.kept = d.kept /\ e.live = d.live /\ e.applying = d.applying
         /\ e.report.version = d.report.version
<1> DEFINE r == [d.report EXCEPT !.due = TRUE]
           e == [d EXCEPT !.report.due = TRUE]
<1>1. e = [d EXCEPT !.report = r]
  BY DEF Devices
<1>2. r \in [due : BOOLEAN, version : {0} \cup S, applied : BOOLEAN] /\ r.version = d.report.version
  BY DEF Devices
<1> HIDE DEF r
<1> QED
  BY <1>1, <1>2 DEF Devices

LEMMA StoredIs ==
  ASSUME NEW S, S \subseteq Versions, device \in Devices(S), NEW v \in S
  PROVE  /\ Stored(v) \in Devices(S) /\ Stored(v).kept = Values(v) /\ Stored(v).live = Values(v)
         /\ Stored(v).applying = device.applying /\ Stored(v).report.version = v
<1> DEFINE n == Noted(v)
           f == Values(v)
<1>1. n \in Devices(S) /\ n.applying = device.applying /\ n.report.version = v
  BY NotedIs
<1>2. f \in Settings(S)
  BY SettingsOf DEF Devices
<1>3. Stored(v) = [[n EXCEPT !.kept = f] EXCEPT !.live = f]
  BY DEF Stored
<1> HIDE DEF n, f
<1> QED
  BY <1>1, <1>2, <1>3 DEF Devices, f

LEMMA RestartedIs ==
  ASSUME NEW S, device \in Devices(S), NEW kept \in Settings(S)
  PROVE  /\ Restarted(kept) \in Devices(S) /\ Restarted(kept).kept = kept /\ Restarted(kept).live = kept
         /\ Restarted(kept).applying = <<>> /\ Restarted(kept).report.version = 0
<1>1. NoReport \in [due : BOOLEAN, version : {0} \cup S, applied : BOOLEAN] /\ NoReport.version = 0
  BY DEF NoReport
<1>2. Restarted(kept) =
        [[[[[device EXCEPT !.connected = FALSE] EXCEPT !.kept = kept] EXCEPT !.live = kept]
            EXCEPT !.applying = <<>>] EXCEPT !.report = NoReport]
  BY DEF Restarted
<1> HIDE DEF NoReport
<1>3. <<>> \in Seq({"fetch", "prune"})
  OBVIOUS
<1> QED
  BY <1>1, <1>2, <1>3 DEF Devices

\* What the handler does with a message.
LEMMA TakeHandles ==
  ASSUME NEW S, S \subseteq Versions, Knows(device, S), NEW v \in {0} \cup S,
         Len(device.applying) < MaxNest, NEW flawed
  PROVE  /\ Handled(Take(v), v, S) /\ Truthful(Take(v), flawed)
         /\ ~Rejects(v) => Handled(Done(v), v, S) /\ Truthful(Done(v), flawed)
<1>0. device \in Devices(S) /\ device.kept \in Settings(S)
  BY DEF Knows, Devices
<1>1. Rejects(v) => Handled([Noted(v) EXCEPT !.report.due = TRUE], v, S)
                    /\ Truthful([Noted(v) EXCEPT !.report.due = TRUE], flawed)
  <2> DEFINE n == Noted(v)
             e == [n EXCEPT !.report.due = TRUE]
  <2>1. /\ n \in Devices(S) /\ n.kept = device.kept /\ n.live = device.live
        /\ n.applying = device.applying /\ n.report.version = v
    BY <1>0, NotedIs
  <2> HIDE DEF n
  <2>2. /\ e \in Devices(S) /\ e.kept = n.kept /\ e.live = n.live /\ e.applying = n.applying
        /\ e.report.version = n.report.version
    BY <2>1, Due
  <2> HIDE DEF e
  <2>3. Rejects(v) => Handled(e, v, S) /\ Truthful(e, flawed)
    BY <2>1, <2>2 DEF Handled, Knows, Truthful, Rejects, Held
  <2> QED
    BY <2>3 DEF e, n
<1>2. Skips(v) => Handled(Noted(v), v, S) /\ Truthful(Noted(v), flawed)
  <2> DEFINE n == Noted(v)
  <2>1. /\ n \in Devices(S) /\ n.kept = device.kept /\ n.live = device.live
        /\ n.applying = device.applying /\ n.report.version = v
    BY <1>0, NotedIs
  <2> HIDE DEF n
  <2>2. Skips(v) => Handled(n, v, S) /\ Truthful(n, flawed)
    BY <2>1 DEF Handled, Knows, Truthful, Skips, Held
  <2> QED
    BY <2>2 DEF n
<1> SUFFICES ASSUME ~Rejects(v)
             PROVE  /\ Handled(Done(v), v, S) /\ Truthful(Done(v), flawed)
                    /\ Task(v) # "none" =>
                         /\ Handled([Stored(v) EXCEPT !.applying = <<Task(v)>> \o @], v, S)
                         /\ Truthful([Stored(v) EXCEPT !.applying = <<Task(v)>> \o @], flawed)
  BY <1>1, <1>2 DEF Take
<1> DEFINE d == Stored(v)
<1>3. v \in S /\ v # 0
  BY DEF Rejects
<1>4. /\ d \in Devices(S) /\ d.kept = Values(v) /\ d.live = Values(v)
      /\ d.applying = device.applying /\ d.report.version = v /\ Values(v)["cfgVer"] = v
  BY <1>0, <1>3, StoredIs, SettingsOf
<1>5. Done(v) = [d EXCEPT !.report.due = TRUE, !.report.applied = TRUE]
  BY DEF Done
<1> HIDE DEF d
<1>6. Handled(Done(v), v, S) /\ Truthful(Done(v), flawed)
  <2> DEFINE e == [d EXCEPT !.report.due = TRUE, !.report.applied = TRUE]
  <2>1. /\ e \in Devices(S) /\ e.kept = d.kept /\ e.live = d.live /\ e.applying = d.applying
        /\ e.report.version = d.report.version
    BY <1>4, Signed
  <2> HIDE DEF e
  <2>2. Handled(e, v, S) /\ Truthful(e, flawed)
    BY <1>3, <1>4, <2>1 DEF Handled, Knows, Truthful
  <2>3. Done(v) = e
    BY <1>5 DEF e
  <2> QED
    BY <2>2, <2>3
<1>7. ASSUME Task(v) # "none"
      PROVE  LET e == [d EXCEPT !.applying = <<Task(v)>> \o @] IN
             Handled(e, v, S) /\ Truthful(e, flawed)
  <2> DEFINE q == <<Task(v)>> \o device.applying
             e == [d EXCEPT !.applying = <<Task(v)>> \o @]
  <2>1. Task(v) \in {"fetch", "prune"}
    BY <1>7 DEF Task
  <2>2. q \in Seq({"fetch", "prune"}) /\ Len(q) <= MaxNest
    <3>1. device.applying \in Seq({"fetch", "prune"}) /\ <<Task(v)>> \in Seq({"fetch", "prune"})
          /\ Len(<<Task(v)>>) = 1
      BY <1>0, <2>1 DEF Devices
    <3>2. q \in Seq({"fetch", "prune"}) /\ Len(q) = 1 + Len(device.applying)
      BY <3>1, ConcatProperties
    <3> QED
      BY <3>1, <3>2, LenProperties, ConfigAssumption
  <2>3. e = [d EXCEPT !.applying = q]
    BY <1>4
  <2> HIDE DEF q
  <2>4. /\ e \in Devices(S) /\ e.kept = Values(v) /\ e.live = Values(v) /\ e.applying = q
        /\ e.report.version = v
    BY <1>4, <2>2, <2>3 DEF Devices
  <2> HIDE DEF e
  <2>5. Handled(e, v, S) /\ Truthful(e, flawed)
    BY <1>3, <1>4, <2>2, <2>4 DEF Handled, Knows, Truthful
  <2> QED
    BY <2>5 DEF e
<1> QED
  BY <1>6, <1>7 DEF d

Messages == Receive \/ ReceiveWithoutModem \/ StoreFails \/ StoreIsCut

\* A message, whether it is stored, refused, fails half-way or is cut by a restart.
LEMMA MessageIs ==
  ASSUME IInv, NEW S, S = SavedIn(server.configs), Messages
  PROVE  /\ Arriving \in {0} \cup S /\ broker.inbox # <<>>
         /\ broker' = [broker EXCEPT !.inbox = Tail(@)] /\ broker' \in Brokers(S)
         /\ server' = server /\ saving' = saving /\ reports' = reports /\ disturbed' = disturbed
         /\ Handled(device', Arriving, S) /\ Truthful(device', "store" \in flaws')
         /\ Rest'
<1> DEFINE v == Arriving
<1>1. /\ S \subseteq Versions /\ Knows(device, S) /\ broker \in Brokers(S) /\ Arrives
      /\ device \in Devices(S) /\ device.kept \in Settings(S)
  BY DEF IInv, SavedIn, Knows, Devices, Messages, Receive, ReceiveWithoutModem, StoreFails, StoreIsCut
<1>2. /\ broker' = [broker EXCEPT !.inbox = Tail(@)] /\ broker.inbox # <<>>
      /\ Len(device.applying) < MaxNest
  BY <1>1 DEF Arrives
<1>3. v \in {0} \cup S /\ broker' \in Brokers(S)
  <2>1. broker.inbox \in Seq({0} \cup S)
    BY <1>1 DEF Brokers
  <2>2. v \in {0} \cup S /\ Tail(broker.inbox) \in Seq({0} \cup S)
    BY <1>2, <2>1, HeadTailProperties DEF Arriving
  <2> QED
    BY <1>1, <1>2, <2>2 DEF Brokers
<1>4. server' = server /\ saving' = saving /\ reports' = reports /\ disturbed' = disturbed
  BY DEF Messages, Receive, ReceiveWithoutModem, StoreFails, StoreIsCut
<1>5. Rest'
  <2>1. mishaps' \in 0..MaxMishaps
    BY ConfigAssumption DEF IInv, Rest, Messages, Receive, ReceiveWithoutModem, StoreFails, StoreIsCut, Mishap
  <2>2. flaws' \subseteq Flaws
    <3>1. flaws \subseteq Flaws /\ Nested \subseteq Flaws
      BY DEF IInv, Rest, Nested, Flaws
    <3>2. CASE Receive
      BY <3>1, <3>2 DEF Receive
    <3>3. CASE ReceiveWithoutModem
      BY <3>1, <3>3 DEF ReceiveWithoutModem, Flaws
    <3>4. CASE StoreFails
      BY <3>1, <3>4 DEF StoreFails, Flaws
    <3>5. CASE StoreIsCut
      <4>1. PICK k \in 1..4 :
              flaws' = CASE k = 1 -> flaws [] k = 4 -> {"audio"} [] OTHER -> flaws \cup {"store"}
        BY <3>5 DEF StoreIsCut
      <4> QED
        BY <3>1, <4>1 DEF Flaws
    <3> QED
      BY <3>2, <3>3, <3>4, <3>5 DEF Messages
  <2> QED
    BY <1>4, <2>1, <2>2 DEF IInv, Rest
<1>6. CASE Receive
  <2>1. device' = Take(v)
    BY <1>6 DEF Receive
  <2>2. Handled(Take(v), v, S) /\ Truthful(Take(v), "store" \in flaws')
    <3> HIDE DEF v
    <3> QED
      BY <1>1, <1>2, <1>3, TakeHandles
  <2> HIDE DEF v
  <2> QED
    BY <1>2, <1>3, <1>4, <1>5, <2>1, <2>2 DEF v
<1>7. CASE ReceiveWithoutModem
  <2>1. device' = Done(v) /\ ~Rejects(v)
    BY <1>7 DEF ReceiveWithoutModem, Stores
  <2>2. Handled(Done(v), v, S) /\ Truthful(Done(v), "store" \in flaws')
    <3>1. v \in {0} \cup S /\ ~Rejects(v)
      BY <1>3, <2>1
    <3> HIDE DEF v
    <3> QED
      BY <1>1, <1>2, <3>1, TakeHandles
  <2> HIDE DEF v
  <2> QED
    BY <1>2, <1>3, <1>4, <1>5, <2>1, <2>2 DEF v
<1>8. (StoreFails \/ StoreIsCut) => v \in S /\ v # 0
  BY <1>3 DEF StoreFails, StoreIsCut, Stores, Rejects
<1>9. CASE StoreFails
  <2>1. PICK k \in 0..3 : device' = [Noted(v) EXCEPT !.kept = Kept(v, k), !.report.due = TRUE]
    BY <1>9 DEF StoreFails
  <2> DEFINE f == Kept(v, k)
             n == Noted(v)
             e == [n EXCEPT !.report.due = TRUE]
             d == [e EXCEPT !.kept = f]
  <2>2. f \in Settings(S) /\ f["cfgVer"] \in {v, device.kept["cfgVer"]}
    BY <1>1, <1>8, <1>9, SettingsOf
  <2>3. /\ n \in Devices(S) /\ n.kept = device.kept /\ n.live = device.live
        /\ n.applying = device.applying
    BY <1>1, <1>3, NotedIs
  <2> HIDE DEF n, f
  <2>4. /\ e \in Devices(S) /\ e.kept = n.kept /\ e.live = n.live /\ e.applying = n.applying
    BY <2>3, Due
  <2>5. device' = d
    BY <2>1, <2>3 DEF n, f, Devices
  <2> HIDE DEF e
  <2>6. /\ d \in Devices(S) /\ d.kept = f /\ d.live = device.live /\ d.applying = device.applying
    BY <2>2, <2>3, <2>4 DEF Devices
  <2> HIDE DEF d
  <2>7. Knows(d, S)
    BY <1>1, <1>8, <1>9, <2>2, <2>6 DEF Knows
  <2>8. Handled(d, v, S)
    BY <1>8, <1>9, <2>2, <2>6, <2>7 DEF Handled, Held
  <2>9. Truthful(d, "store" \in flaws')
    BY <1>9 DEF StoreFails, Truthful
  <2> HIDE DEF v
  <2> QED
    BY <1>2, <1>3, <1>4, <1>5, <2>5, <2>8, <2>9 DEF v
<1>10. CASE StoreIsCut
  <2>1. PICK k \in 1..4 : device' = Restarted(Kept(v, k))
    BY <1>10 DEF StoreIsCut
  <2> DEFINE f == Kept(v, k)
             d == Restarted(f)
  <2>2. f \in Settings(S) /\ f["cfgVer"] \in {v, device.kept["cfgVer"]}
    BY <1>1, <1>8, <1>10, SettingsOf
  <2> HIDE DEF f
  <2>3. /\ d \in Devices(S) /\ d.kept = f /\ d.live = f /\ d.applying = <<>>
        /\ d.report.version = 0
    BY <1>1, <2>2, RestartedIs
  <2>4. device' = d
    BY <2>1 DEF f
  <2> HIDE DEF d
  <2>5. Handled(d, v, S) /\ Truthful(d, "store" \in flaws')
    BY <1>8, <1>10, <2>2, <2>3, ConfigAssumption DEF Handled, Knows, Truthful
  <2> HIDE DEF v
  <2> QED
    BY <1>2, <1>3, <1>4, <1>5, <2>4, <2>5 DEF v
<1> QED
  BY <1>6, <1>7, <1>9, <1>10 DEF Messages

\* The device takes a saved version, or none.
LEMMA Receiving ==
  ASSUME IInv, Messages
  PROVE  IInv' /\ Allowed
<1> DEFINE S == SavedIn(server.configs)
           v == device'.live["cfgVer"]
<1>1. /\ Arriving \in {0} \cup S /\ broker' \in Brokers(S)
      /\ server' = server /\ saving' = saving /\ reports' = reports
      /\ Handled(device', Arriving, S) /\ Rest'
  BY MessageIs
<1>2. Knows(device', S) /\ Knows(device, S)
  BY <1>1 DEF Handled, IInv
<1>3. IInv'
  <2> HIDE DEF S
  <2>1. S = SavedIn(server'.configs)
    BY <1>1 DEF S
  <2> QED
    BY <1>1, <1>2, <2>1 DEF IInv, S
<1>4. Held' = v /\ Mapped' = Mapped
  BY <1>1 DEF Held, Mapped, Content
<1>5. v = Held \/ v \in S
  <2>1. device.kept["cfgVer"] \in {0} \cup S /\ device'.kept["cfgVer"] \in {0} \cup S
    BY <1>2 DEF Knows, Devices, Settings
  <2>2. device.kept["cfgVer"] = 0 => Held = 0
    BY <1>2 DEF Knows, Held
  <2>3. v = Held \/ v = device'.kept["cfgVer"]
    BY <1>1 DEF Handled
  <2>4. device'.kept["cfgVer"] = 0 => v = 0 /\ device.kept["cfgVer"] = 0
    BY <1>1, <1>2 DEF Handled, Knows
  <2> QED
    BY <2>1, <2>2, <2>3, <2>4
<1>6. CASE v \in S
  <2>1. v \in Versions /\ Mapped[v] # NoContent
    BY <1>6 DEF SavedIn, Mapped, Content
  <2>2. Register!Hold(v)
    BY <1>4, <2>1 DEF Register!Hold, Mapped
  <2> QED
    BY <1>3, <2>1, <2>2 DEF Allowed, Register!Next
<1>7. CASE v = Held
  BY <1>3, <1>4, <1>7 DEF Allowed
<1> QED
  BY <1>3, <1>5, <1>6, <1>7

-------------------------------------------------------------------------------
(* Reports, and the device that comes and goes. *)

\* What the server notes of a report is the status of a version, never what the
\* version is.
LEMMA Noting ==
  ASSUME server \in Servers, NEW v \in 0..MaxVersion, NEW applied \in BOOLEAN
  PROVE  /\ Reported(v, applied) \in Servers
         /\ \A w \in Versions : Reported(v, applied).configs[w].content = server.configs[w].content
<1> DEFINE Rows == [content : Contents \cup {NoContent}, status : Statuses]
           status == IF applied THEN "applied" ELSE "rejected"
           configs == [w \in Versions |-> IF w = v /\ Saved(v)
                         THEN [server.configs[w] EXCEPT !.status = status] ELSE server.configs[w]]
           reported == IF applied THEN v ELSE server.reported
<1>1. \A w \in Versions : server.configs[w] \in Rows
  BY DEF Servers
<1>2. \A w \in Versions : configs[w] \in Rows /\ configs[w].content = server.configs[w].content
  BY <1>1 DEF Statuses
<1>3. configs \in [Versions -> Rows]
  BY <1>2
<1>4. reported \in 0..MaxVersion
  BY DEF Servers
<1>5. CASE server.archived
  BY <1>5 DEF Reported
<1>6. CASE ~server.archived
  <2>1. Reported(v, applied) = [[server EXCEPT !.reported = reported] EXCEPT !.configs = configs]
    BY <1>6 DEF Reported, Servers
  <2> HIDE DEF configs, reported
  <2>2. Reported(v, applied) \in Servers /\ Reported(v, applied).configs = configs
    BY <1>3, <1>4, <2>1 DEF Servers
  <2> QED
    BY <1>2, <2>2
<1> QED
  BY <1>5, <1>6

\* What is under way to the server stays about saved versions.
LEMMA Reporting ==
  ASSUME IInv, Report \/ Redeliver \/ Note
  PROVE  IInv' /\ Allowed
<1> DEFINE S == SavedIn(server.configs)
<1>1. /\ saving' = saving /\ broker' = broker /\ Knows(device, S) /\ device \in Devices(S)
      /\ server \in Servers /\ broker \in Brokers(S) /\ reports \in Seq(Letters(S)) /\ S \subseteq Versions
  BY DEF IInv, Report, Redeliver, Note, Knows, SavedIn
<1>2. Rest'
  BY ConfigAssumption DEF IInv, Rest, Report, Redeliver, Note, Mishap
<1>3. Knows(device', S) /\ Held' = Held
  <2>1. CASE Report
    <3>1. device' = [device EXCEPT !.report = NoReport]
      BY <2>1 DEF Report
    <3>2. NoReport \in [due : BOOLEAN, version : {0} \cup S, applied : BOOLEAN]
      BY DEF NoReport
    <3> QED
      BY <1>1, <3>1, <3>2 DEF Knows, Devices, Held
  <2> QED
    BY <1>1, <2>1 DEF Report, Redeliver, Note, Held
<1>4. reports' \in Seq(Letters(S))
  <2>1. CASE Report
    <3> DEFINE r == [version |-> device.report.version, applied |-> device.report.applied,
                     held |-> Held, flawed |-> "store" \in flaws]
    <3>1. r \in Letters(S)
      BY <1>1 DEF Letters, Devices, Settings, Held
    <3>2. reports' = Append(reports, r)
      BY <2>1 DEF Report
    <3> HIDE DEF r
    <3> QED
      BY <1>1, <3>1, <3>2, AppendProperties
  <2>2. CASE Redeliver
    <3>1. Head(reports) \in Letters(S)
      BY <1>1, <2>2, HeadTailProperties DEF Redeliver
    <3> QED
      BY <1>1, <2>2, <3>1, AppendProperties DEF Redeliver
  <2>3. CASE Note
    BY <1>1, <2>3, HeadTailProperties DEF Note
  <2> QED
    BY <2>1, <2>2, <2>3
<1>5. server' \in Servers /\ \A w \in Versions : server'.configs[w].content = server.configs[w].content
  <2>1. CASE Note
    <3> DEFINE r == Head(reports)
    <3>1. r \in Letters(S)
      BY <1>1, <2>1, HeadTailProperties DEF Note
    <3>2. r.version \in 0..MaxVersion /\ r.applied \in BOOLEAN
      BY <1>1, <3>1, ConfigAssumption DEF Letters, Versions
    <3>3. server' = server \/ server' = Reported(r.version, r.applied)
      BY <2>1 DEF Note
    <3> HIDE DEF r
    <3> QED
      BY <1>1, <3>2, <3>3, Noting
  <2> QED
    BY <1>1, <2>1 DEF Report, Redeliver
<1>6. Stays(server'.configs)
  BY <1>3, <1>5 DEF Stays
<1>7. Allowed /\ SavedIn(server'.configs) = S
  BY <1>6, StaysAllowed
<1> QED
  BY <1>1, <1>2, <1>3, <1>4, <1>5, <1>7 DEF IInv

\* The handler ends: what the device holds and what its report is about stay.
LEMMA FinishIs ==
  ASSUME NEW S, Knows(device, S), FinishApply
  PROVE  /\ Knows(device', S) /\ device'.kept = device.kept /\ device'.live = device.live
         /\ device'.report.version = device.report.version
<1> DEFINE d == [device EXCEPT !.applying = Tail(@)]
           e == [d EXCEPT !.report.due = TRUE, !.report.applied = TRUE]
<1>1. device \in Devices(S) /\ device.applying \in Seq({"fetch", "prune"}) /\ device.applying # <<>>
  BY DEF Knows, Devices, FinishApply
<1>2. Tail(device.applying) \in Seq({"fetch", "prune"}) /\ Len(Tail(device.applying)) = Len(device.applying) - 1
      /\ Len(device.applying) \in Nat
  BY <1>1, HeadTailProperties, LenProperties
<1>3. /\ d \in Devices(S) /\ d.kept = device.kept /\ d.live = device.live
      /\ d.applying = Tail(device.applying) /\ d.report.version = device.report.version
  BY <1>1, <1>2 DEF Devices
<1>4. e = [device EXCEPT !.applying = Tail(@), !.report.applied = TRUE, !.report.due = TRUE]
  BY <1>1 DEF Devices
<1> HIDE DEF d
<1>5. /\ e \in Devices(S) /\ e.kept = d.kept /\ e.live = d.live /\ e.applying = d.applying
      /\ e.report.version = d.report.version
  BY <1>3, Signed
<1>6. device' = e \/ \E audio \in BOOLEAN : device' = [e EXCEPT !.audio = audio]
  BY <1>4 DEF FinishApply
<1> HIDE DEF e
<1>7. /\ device' \in Devices(S) /\ device'.kept = e.kept /\ device'.live = e.live
      /\ device'.applying = e.applying /\ device'.report.version = e.report.version
  BY <1>5, <1>6 DEF Devices
<1> QED
  BY <1>2, <1>3, <1>5, <1>7, ConfigAssumption DEF Knows

\* The device comes, goes and restarts: it keeps the version it holds, or the one in
\* the flash; what is delivered to it is what is retained.
LEMMA ComingAndGoing ==
  ASSUME IInv, FinishApply \/ Connect \/ Disconnect \/ Restart
  PROVE  IInv' /\ Allowed
<1> DEFINE S == SavedIn(server.configs)
<1>1. /\ server' = server /\ saving' = saving /\ reports' = reports /\ disturbed' = disturbed
      /\ Knows(device, S) /\ device \in Devices(S) /\ broker \in Brokers(S)
  BY DEF IInv, Knows, FinishApply, Connect, Disconnect, Restart
<1>2. Knows(device', S) /\ (Held' = Held \/ Held' = device.kept["cfgVer"])
  <2>1. CASE FinishApply
    BY <1>1, <2>1, FinishIs DEF Held
  <2>2. CASE Connect \/ Disconnect
    <3>1. \E c \in BOOLEAN : device' = [device EXCEPT !.connected = c]
      BY <2>2 DEF Connect, Disconnect
    <3> QED
      BY <1>1, <3>1 DEF Knows, Devices, Held
  <2>3. CASE Restart
    <3> DEFINE f == device.kept
               d == Restarted(f)
    <3>1. f \in Settings(S)
      BY <1>1 DEF Devices
    <3>2. /\ d \in Devices(S) /\ d.kept = f /\ d.live = f /\ d.applying = <<>>
      BY <1>1, <3>1, RestartedIs
    <3>3. device' = d
      BY <2>3 DEF Restart
    <3> HIDE DEF d
    <3> QED
      BY <3>2, <3>3, ConfigAssumption DEF Knows, Held
  <2> QED
    BY <2>1, <2>2, <2>3
<1>3. broker' \in Brokers(S)
  <2>1. <<>> \in Seq({0} \cup S) /\ <<broker.retained>> \in Seq({0} \cup S)
        /\ broker.inbox \in Seq({0} \cup S)
    BY <1>1 DEF Brokers
  <2>2. \E q \in Seq({0} \cup S) : broker' = [broker EXCEPT !.inbox = q]
    BY <1>1, <2>1 DEF FinishApply, Connect, Disconnect, Restart, Brokers
  <2> QED
    BY <1>1, <2>2 DEF Brokers
<1>4. Rest'
  <2>1. mishaps' \in 0..MaxMishaps
    BY ConfigAssumption DEF IInv, Rest, FinishApply, Connect, Disconnect, Restart, Mishap
  <2>2. flaws' \subseteq Flaws
    BY DEF IInv, Rest, Flaws, FinishApply, Connect, Disconnect, Restart
  <2> QED
    BY <1>1, <2>1, <2>2 DEF IInv, Rest
<1>5. IInv'
  <2> HIDE DEF S
  <2>1. S = SavedIn(server'.configs)
    BY <1>1 DEF S
  <2> QED
    BY <1>1, <1>2, <1>3, <1>4, <2>1 DEF IInv, S
<1>6. Mapped' = Mapped
  BY <1>1 DEF Mapped, Content
<1>7. Held' = Held \/ Held' \in S
  BY <1>1, <1>2 DEF Knows, Devices, Settings, Held
<1>8. CASE Held' \in S
  <2>1. Held' \in Versions /\ Mapped[Held'] # NoContent
    BY <1>8 DEF SavedIn, Mapped, Content
  <2>2. Register!Hold(Held')
    BY <1>6, <2>1 DEF Register!Hold, Mapped
  <2> QED
    BY <1>5, <2>1, <2>2 DEF Allowed, Register!Next
<1>9. CASE Held' = Held
  BY <1>5, <1>6, <1>9 DEF Allowed
<1> QED
  BY <1>5, <1>7, <1>8, <1>9

-------------------------------------------------------------------------------
\* Nothing is saved in the beginning, nothing on its way and nothing held.
LEMMA Beginning ==
  ASSUME Init
  PROVE  IInv /\ Register!Init
<1>1. server \in Servers
  BY ConfigAssumption DEF Init, Servers, Statuses, Files
<1>2. SavedIn(server.configs) = {} /\ Register!Init
  BY DEF Init, SavedIn, Register!Init, Content, Held, Values, Keys
<1>3. /\ DOMAIN saving = Savers /\ saving = [s \in Savers |-> saving[s]]
      /\ \A s \in Savers : Sound(saving[s], SavedIn(server.configs))
  BY ConfigAssumption DEF Init, Idle, Sound, Requests, Steps
<1>4. broker \in Brokers(SavedIn(server.configs))
  BY DEF Init, Brokers
<1>5. Knows(device, {}) /\ reports \in Seq(Letters({}))
  <2>1. NoReport \in [due : BOOLEAN, version : {0}, applied : BOOLEAN]
    BY DEF NoReport
  <2>2. Values(0) \in Settings({}) /\ Values(0)["cfgVer"] = 0
    BY ConfigAssumption DEF Values, Settings, Keys
  <2>3. <<>> \in Seq({"fetch", "prune"}) /\ Len(<<>>) = 0
    OBVIOUS
  <2> QED
    BY <2>1, <2>2, <2>3, ConfigAssumption DEF Init, Knows, Devices
<1>6. Rest
  <2>1. mishaps \in 0..MaxMishaps /\ flaws \subseteq Flaws
    BY ConfigAssumption DEF Init
  <2>2. disturbed \in BOOLEAN
    BY DEF Init
  <2> QED
    BY <2>1, <2>2 DEF Rest
<1>7. Knows(device, SavedIn(server.configs)) /\ reports \in Seq(Letters(SavedIn(server.configs)))
  BY <1>5, OthersGrow
<1> QED
  BY <1>1, <1>2, <1>3, <1>4, <1>6, <1>7 DEF IInv

\* Every step keeps the invariant, and is one of the register or none.
LEMMA EveryStep ==
  ASSUME IInv, [Next]_vars
  PROVE  IInv' /\ (Register!Next \/ (Mapped' = Mapped /\ Held' = Held))
<1>1. CASE \E s \in Savers : Save(s)
  <2>1. PICK s \in Savers : Save(s)
    BY <1>1
  <2>2. CASE Prepares(s)
    BY <2>2, Preparing DEF Allowed
  <2>3. CASE Commit(s)
    BY <2>3, Committing DEF Allowed
  <2>4. CASE PublishDesired(s) \/ PublishFails(s)
    BY <2>4, Publishing DEF Allowed
  <2> QED
    BY <2>1, <2>2, <2>3, <2>4 DEF Save, Prepares, Opens, Synthesised
<1>2. CASE LoseFile \/ Archive \/ Restore
  BY <1>2, Administering DEF Allowed
<1>3. CASE Messages
  BY <1>3, Receiving DEF Allowed
<1>4. CASE FinishApply \/ Connect \/ Disconnect \/ Restart
  BY <1>4, ComingAndGoing DEF Allowed
<1>5. CASE Report \/ Redeliver \/ Note
  BY <1>5, Reporting DEF Allowed
<1>6. CASE UNCHANGED vars
  BY <1>6 DEF vars, IInv, Rest, Mapped, Content, Held
<1> QED
  BY <1>1, <1>2, <1>3, <1>4, <1>5, <1>6 DEF Next, Messages

\* The invariant holds in every state.
LEMMA Invariance == Spec => []IInv
<1>1. Init => IInv
  BY Beginning
<1>2. IInv /\ [Next]_vars => IInv'
  BY EveryStep
<1> QED
  BY <1>1, <1>2, PTL DEF Spec

\* Every part of the state has its type for any number of requests, versions and
\* mishaps; messages name versions that were saved.
THEOREM TypeCorrect == Spec => []TypeOK
<1>1. IInv => TypeOK
  <2> SUFFICES ASSUME IInv PROVE TypeOK
    OBVIOUS
  <2>1. \A s \in Savers : saving[s] \in Requests
    BY DEF IInv, Sound
  <2>2. broker \in Brokers(Versions)
    BY BrokersGrow DEF IInv, SavedIn
  <2>3. {0} \cup Versions = 0..MaxVersion
    BY ConfigAssumption DEF Versions
  <2>4. broker.retained \in 0..MaxVersion /\ broker.inbox \in Seq(0..MaxVersion)
    BY <2>2, <2>3 DEF Brokers
  <2>5. saving \in [Savers -> Requests]
    BY <2>1 DEF IInv
  <2>6. Knows(device, Versions) /\ reports \in Seq(Letters(Versions))
    BY OthersGrow DEF IInv, SavedIn
  <2>7. /\ device \in [connected : BOOLEAN, kept : [Keys -> 0..MaxVersion],
             live : [Keys -> 0..MaxVersion], audio : BOOLEAN, applying : Seq({"fetch", "prune"}),
             report : [due : BOOLEAN, version : 0..MaxVersion, applied : BOOLEAN]]
        /\ Len(device.applying) <= MaxNest
    BY <2>3, <2>6 DEF Knows, Devices, Settings
  <2>8. reports \in Seq([version : 0..MaxVersion, applied : BOOLEAN, held : 0..MaxVersion,
                        flawed : BOOLEAN])
    BY <2>3, <2>6 DEF Letters
  <2> QED
    BY <2>4, <2>5, <2>7, <2>8
    DEF IInv, TypeOK, Servers, Statuses, Requests, Steps, Rest, Flaws
<1> QED
  BY <1>1, Invariance, PTL

\* The contract: whatever overlaps, is killed, lost or late, a saved version never
\* changes and the device only ever takes one that was saved.
THEOREM ContractKept == Spec => RefinesRegister
<1>1. Init => Register!Init
  BY Beginning
<1>2. IInv /\ [Next]_vars => [Register!Next]_<<Mapped, Held>>
  BY EveryStep
<1>3. [Register!Next]_<<Mapped, Held>> => [Register!Next]_<<[v \in Versions |-> Content(v)], Held>>
  BY DEF Mapped
<1> QED
  BY <1>1, <1>2, <1>3, Invariance, PTL DEF Spec, RefinesRegister, Register!Spec

-------------------------------------------------------------------------------
(* What a report is about. *)

Honest(r) == r.version = 0 \/ Refuses(r.version) \/ r.version = r.held \/ r.flawed

\* The report names the version the device holds, or one it refused, whatever
\* message was handled inside the handling of another, unless storing failed; and
\* every report under way did when it left.
Told ==
  /\ Truthful(device, "store" \in flaws)
  /\ \A i \in 1..Len(reports) : Honest(reports[i])

\* A saved version stays saved and keeps what it is.
LEMMA SavedStays ==
  ASSUME IInv, [Next]_vars, NEW v \in SavedIn(server.configs)
  PROVE  v \in SavedIn(server'.configs) /\ Content(v)' = Content(v) /\ (Refuses(v) => Refuses(v)')
<1>1. v \in Versions /\ Mapped[v] = Content(v) /\ Content(v) # NoContent /\ Mapped'[v] = Content(v)'
  BY DEF SavedIn, Mapped, Content
<1>2. Mapped'[v] = Mapped[v]
  <2>1. CASE \E w \in Versions, c \in Contents : Register!Save(w, c)
    <3>1. PICK w \in Versions, c \in Contents : Register!Save(w, c)
      BY <2>1
    <3>2. Mapped[w] = NoContent /\ Mapped' = [Mapped EXCEPT ![w] = c]
      BY <3>1 DEF Register!Save, Mapped
    <3> QED
      BY <1>1, <3>2 DEF Mapped
  <2>2. CASE Mapped' = Mapped
    BY <2>2
  <2>3. CASE \E w \in Versions : Register!Hold(w)
    BY <2>3 DEF Register!Hold, Mapped
  <2> QED
    BY <2>1, <2>2, <2>3, EveryStep DEF Register!Next
<1> QED
  BY <1>1, <1>2 DEF SavedIn, Content, Refuses, Saved

\* A device that is left alone stays as truthful as it was, and a report as honest.
LEMMA TruthStays ==
  ASSUME IInv, Told, [Next]_vars
  PROVE  /\ device' = device /\ ("store" \in flaws => "store" \in flaws')
              => Truthful(device, "store" \in flaws)'
         /\ \A r \in Letters(SavedIn(server.configs)) : Honest(r) => Honest(r)'
<1> DEFINE S == SavedIn(server.configs)
<1>1. \A v \in S : Refuses(v) => Refuses(v)'
  BY SavedStays
<1>2. device.report.version \in {0} \cup S
  BY DEF IInv, Knows, Devices
<1>3. \A r \in Letters(S) : r.version \in {0} \cup S
  BY DEF Letters
<1> HIDE DEF S
<1>4. \A r \in Letters(S) : Honest(r) => Honest(r)'
  BY <1>1, <1>3 DEF Honest
<1>5. ASSUME device' = device, "store" \in flaws => "store" \in flaws'
      PROVE  Truthful(device, "store" \in flaws)'
  BY <1>1, <1>2, <1>5 DEF Told, Truthful
<1> QED
  BY <1>4, <1>5 DEF S

LEMMA StepTells ==
  ASSUME IInv, Told, [Next]_vars
  PROVE  Told'
<1> DEFINE S == SavedIn(server.configs)
<1>1. reports \in Seq(Letters(S)) /\ Knows(device, S) /\ Len(reports) \in Nat
  BY LenProperties DEF IInv
<1>2. \A i \in 1..Len(reports) : reports[i] \in Letters(S) /\ Honest(reports[i])
  BY <1>1, ElementOfSeq DEF Told
<1>3. \A r \in Letters(S) : Honest(r) => Honest(r)'
  BY TruthStays
<1>4. CASE Messages
  <2>1. server' = server /\ reports' = reports /\ Truthful(device', "store" \in flaws')
    BY <1>4, MessageIs
  <2>2. \A w : Refuses(w)' = Refuses(w)
    BY <2>1 DEF Refuses, Saved, Content
  <2>3. Truthful(device, "store" \in flaws)'
    BY <2>1, <2>2 DEF Truthful
  <2> QED
    BY <1>2, <2>1, <2>2, <2>3 DEF Told, Honest
<1>5. CASE FinishApply \/ Connect \/ Disconnect \/ Restart
  <2>1. server' = server /\ reports' = reports /\ ("store" \in flaws => "store" \in flaws')
    BY <1>5 DEF FinishApply, Connect, Disconnect, Restart
  <2>2. \A w : Refuses(w)' = Refuses(w)
    BY <2>1 DEF Refuses, Saved, Content
  <2>3. \/ device'.report.version = device.report.version /\ device'.live = device.live
        \/ device'.report.version = 0
    <3>1. CASE FinishApply
      BY <1>1, <3>1, FinishIs
    <3>2. CASE Connect \/ Disconnect
      BY <1>1, <3>2 DEF Connect, Disconnect, Knows, Devices
    <3>3. CASE Restart
      <4>1. device' = Restarted(device.kept) /\ device \in Devices(S) /\ device.kept \in Settings(S)
        BY <1>1, <3>3 DEF Restart, Knows, Devices
      <4> QED
        BY <4>1, RestartedIs
    <3> QED
      BY <1>5, <3>1, <3>2, <3>3
  <2>4. Truthful(device, "store" \in flaws)'
    BY <2>1, <2>2, <2>3 DEF Told, Truthful
  <2> QED
    BY <1>2, <2>1, <2>2, <2>4 DEF Told, Honest
<1>6. CASE Report
  <2> DEFINE r == [version |-> device.report.version, applied |-> device.report.applied,
                   held |-> Held, flawed |-> "store" \in flaws]
  <2>1. server' = server /\ flaws' = flaws /\ reports' = Append(reports, r)
        /\ device' = [device EXCEPT !.report = NoReport]
    BY <1>6 DEF Report
  <2>2. \A w : Refuses(w)' = Refuses(w)
    BY <2>1 DEF Refuses, Saved, Content
  <2>3. Honest(r)
    BY DEF Told, Truthful, Honest, Held
  <2>4. Truthful(device, "store" \in flaws)'
    <3>1. device'.report.version = 0
      BY <1>1, <2>1 DEF Knows, Devices, NoReport
    <3> QED
      BY <3>1 DEF Truthful
  <2> HIDE DEF r
  <2>5. /\ Len(reports') = Len(reports) + 1 /\ reports'[Len(reports) + 1] = r
        /\ \A i \in 1..Len(reports) : reports'[i] = reports[i]
    BY <1>1, <2>1, AppendProperties
  <2>6. ASSUME NEW i \in 1..Len(reports')
        PROVE  i = Len(reports) + 1 \/ i \in 1..Len(reports)
    BY <1>1, <2>5
  <2>7. \A i \in 1..Len(reports') : Honest(reports'[i])
    BY <1>2, <2>3, <2>5, <2>6
  <2> QED
    BY <2>2, <2>4, <2>7 DEF Told, Honest
<1>7. CASE Redeliver
  <2> DEFINE r == Head(reports)
  <2>1. /\ server' = server /\ flaws' = flaws /\ device' = device /\ reports' = Append(reports, r)
        /\ reports # <<>>
    BY <1>7 DEF Redeliver
  <2>2. \A w : Refuses(w)' = Refuses(w)
    BY <2>1 DEF Refuses, Saved, Content
  <2>3. Honest(r)
    <3>1. r = reports[1] /\ 1 \in 1..Len(reports)
      BY <1>1, <2>1, HeadTailProperties, EmptySeq
    <3> QED
      BY <1>2, <3>1
  <2>4. Truthful(device, "store" \in flaws)'
    BY <2>1, <2>2 DEF Told, Truthful
  <2> HIDE DEF r
  <2>5. /\ Len(reports') = Len(reports) + 1 /\ reports'[Len(reports) + 1] = r
        /\ \A i \in 1..Len(reports) : reports'[i] = reports[i]
    <3>1. r \in Letters(S)
      BY <1>1, <2>1, HeadTailProperties DEF r
    <3> QED
      BY <1>1, <2>1, <3>1, AppendProperties
  <2>6. ASSUME NEW i \in 1..Len(reports')
        PROVE  i = Len(reports) + 1 \/ i \in 1..Len(reports)
    BY <1>1, <2>5
  <2>7. \A i \in 1..Len(reports') : Honest(reports'[i])
    BY <1>2, <2>3, <2>5, <2>6
  <2> QED
    BY <2>2, <2>4, <2>7 DEF Told, Honest
<1>8. CASE Note
  <2>1. /\ flaws' = flaws /\ device' = device /\ reports' = Tail(reports) /\ reports # <<>>
    BY <1>8 DEF Note
  <2>2. Truthful(device, "store" \in flaws)'
    BY <2>1, TruthStays
  <2>3. /\ Len(reports') = Len(reports) - 1
        /\ \A i \in 1..Len(reports') : reports'[i] = reports[i + 1] /\ i + 1 \in 1..Len(reports)
    BY <1>1, <2>1, HeadTailProperties, EmptySeq
  <2>4. \A i \in 1..Len(reports') : Honest(reports'[i]) /\ reports'[i] \in Letters(S)
    BY <1>2, <2>3
  <2> HIDE DEF S
  <2>5. ASSUME NEW i \in 1..Len(reports') PROVE Honest(reports[i])'
    <3>1. PICK r \in Letters(S) : r = reports'[i] /\ Honest(r)
      BY <2>4
    <3>2. Honest(r)'
      BY <1>3, <3>1
    <3> QED
      BY <3>1, <3>2 DEF Honest
  <2> QED
    BY <2>2, <2>5 DEF Told
<1>9. CASE device' = device /\ reports' = reports /\ flaws' = flaws
  <2>1. Truthful(device, "store" \in flaws)'
    BY <1>9, TruthStays
  <2>2. \A i \in 1..Len(reports') : Honest(reports[i])'
    BY <1>2, <1>3, <1>9
  <2> QED
    BY <2>1, <2>2 DEF Told
<1> QED
  BY <1>4, <1>5, <1>6, <1>7, <1>8, <1>9
  DEF Next, Save, OpenForm, FindAsset, StartSynthesis, EndSynthesis, InsertAsset, Commit,
      PublishDesired, PublishFails, KillSave, LoseFile, Archive, Restore, vars, Messages

LEMMA InitTold == Init => Told
<1> SUFFICES ASSUME Init PROVE Told
  OBVIOUS
<1>1. device.report.version = 0 /\ Len(reports) = 0
  BY DEF Init, NoReport
<1> QED
  BY <1>1 DEF Told, Truthful

LEMMA ToldAlways == Spec => []Told
<1>1. IInv /\ Told /\ [Next]_vars => Told'
  BY StepTells
<1> QED
  BY <1>1, InitTold, Invariance, PTL DEF Spec

\* The server only notes the version of the report that arrives.
LEMMA OnlyNoted ==
  ASSUME IInv, [Next]_vars, server'.reported # server.reported
  PROVE  Note /\ server'.reported = Head(reports).version
<1>1. server \in Servers
  BY DEF IInv
<1>2. CASE Note
  <2> DEFINE v == Head(reports).version
             applied == Head(reports).applied
             reported == IF applied THEN v ELSE server.reported
  <2>1. server' = Reported(v, applied)
    BY <1>2 DEF Note
  <2>2. Reported(v, applied).reported \in {server.reported, reported}
    BY <1>1 DEF Reported, Servers
  <2> QED
    BY <1>2, <2>1, <2>2
<1>3. CASE ~Note
  <2>1. \/ server' = server
        \/ \E f : server' = [server EXCEPT !.file = f]
        \/ \E a : server' = [server EXCEPT !.archived = a]
        \/ \E c : server' = [server EXCEPT !.configs = c]
        \/ \E c, d, a : server' = [server EXCEPT !.configs = c, !.desired = d, !.asset = a]
    <3>1. CASE \E s \in Savers : Save(s)
      <4>1. PICK s \in Savers : Save(s)
        BY <3>1
      <4>2. CASE StartSynthesis(s) \/ \E file \in Files, ok \in BOOLEAN : EndSynthesis(s, file, ok)
        BY <4>2 DEF StartSynthesis, EndSynthesis
      <4>3. CASE Commit(s)
        BY <4>3, <1>1 DEF Commit, Servers
      <4>4. CASE PublishFails(s)
        BY <4>4, <1>1 DEF PublishFails, Servers
      <4> QED
        BY <4>1, <4>2, <4>3, <4>4
        DEF Save, OpenForm, FindAsset, InsertAsset, PublishDesired, KillSave
    <3>2. CASE LoseFile \/ Archive \/ Restore
      BY <3>2 DEF LoseFile, Archive, Restore
    <3> QED
      BY <1>3, <3>1, <3>2
      DEF Next, Receive, ReceiveWithoutModem, StoreFails, StoreIsCut, FinishApply, Report, Redeliver,
          Connect, Disconnect, Restart, vars
  <2>2. server'.reported = server.reported
    BY <1>1, <2>1 DEF Servers
  <2> QED
    BY <2>2
<1> QED
  BY <1>2, <1>3

\* The version the server notes as applied is one the device held when the report
\* left, or refuses, unless it could not be stored: for every depth of messages handled
\* inside one another, however many reports are under way, late or twice, and whatever
\* restarts or is lost.
THEOREM ReportIsTrueHolds == Spec => ReportIsTrue
<1> DEFINE IsTrue(v) ==
             server'.reported = v /\ server.reported # v /\ ~Refuses(v)
               => Head(reports).held = v \/ Head(reports).flawed
<1>1. ASSUME IInv, Told, [Next]_vars, NEW v \in Versions
      PROVE  IsTrue(v)
  <2> SUFFICES ASSUME server'.reported = v, server.reported # v, ~Refuses(v)
               PROVE  Head(reports).held = v \/ Head(reports).flawed
    OBVIOUS
  <2>1. Note /\ v = Head(reports).version
    BY <1>1, OnlyNoted
  <2>2. Head(reports) = reports[1] /\ 1 \in 1..Len(reports)
    BY <1>1, <2>1, HeadTailProperties, EmptySeq, LenProperties DEF Note, IInv
  <2>3. Honest(Head(reports))
    BY <1>1, <2>2 DEF Told
  <2>4. v # 0
    BY DEF Versions
  <2> QED
    BY <2>1, <2>3, <2>4 DEF Honest
<1>2. IInv /\ Told /\ [Next]_vars => [\A v \in Versions : IsTrue(v)]_vars
  <2> HIDE DEF IsTrue
  <2> QED
    BY <1>1
<1> QED
  BY <1>2, ToldAlways, Invariance, PTL DEF Spec, ReportIsTrue

-------------------------------------------------------------------------------
(* While no save overlaps another and none is killed.  One request is at     *)
(* work, its version is newer than every saved one, and what is on its way   *)
(* to the device goes upwards from the version in its flash, which is never  *)
(* older than the one it holds.                                              *)

Flashed == device.kept["cfgVer"]

Only(sv, s) == \A t \in Savers \ {s} : sv[t] = Idle

Alone(sv) == \A s, t \in Savers : sv[s] # Idle /\ sv[t] # Idle => s = t

Newest(r, S) ==
  \A v \in S : /\ r.step \notin {"idle", "stored"} => v < r.version
               /\ r.step = "stored" => v <= r.version

Upwards(b, held) ==
  /\ \A i \in 1..Len(b.inbox) :
       b.inbox[i] # 0 => held <= b.inbox[i] /\ (b.retained # 0 => b.inbox[i] <= b.retained)
  /\ \A i, j \in 1..Len(b.inbox) :
       i < j /\ b.inbox[i] # 0 /\ b.inbox[j] # 0 => b.inbox[i] <= b.inbox[j]
  /\ b.retained # 0 => held <= b.retained

\* A file is only partial while a request writes it, and a request that has its audio
\* finds it whole.
HasAudio(r, file) ==
  r.step = "insert" \/ (r.step = "ready" /\ r.content \in Spoken) => file = "whole"

Calm ==
  /\ Alone(saving)
  /\ \A s \in Savers : Newest(saving[s], SavedIn(server.configs)) /\ HasAudio(saving[s], server.file)
  /\ server.file = "partial" => \E s \in Savers : Writing(s)
  /\ Upwards(broker, Flashed) /\ Held <= Flashed

LEMMA FlashKnows ==
  ASSUME IInv
  PROVE  /\ Flashed \in {0} \cup SavedIn(server.configs)
         /\ Held \in {0} \cup SavedIn(server.configs)
         /\ SavedIn(server.configs) \subseteq Versions
  BY DEF IInv, Knows, Devices, Settings, Flashed, Held, SavedIn

\* The greatest of some numbers up to a bound.
LEMMA MaxIsIn ==
  ASSUME NEW n \in Nat, NEW S \in SUBSET (0..n), S # {}
  PROVE  Max(S) \in S /\ \A x \in S : x <= Max(S)
<1> DEFINE T == {n - x : x \in S}
           R == {p \in Nat \X Nat : p[1] < p[2]}
<1>1. T \subseteq Nat /\ T # {}
  <2>1. \A x \in S : n - x \in Nat
    OBVIOUS
  <2>2. PICK x \in S : TRUE
    OBVIOUS
  <2>3. n - x \in T
    OBVIOUS
  <2> QED
    BY <2>1, <2>3
<1>2. IsWellFoundedOn(R, Nat)
  BY NatLessThanWellFounded DEF OpToRel
<1>3. PICK m \in T : \A t \in T : <<t, m>> \notin R
  <2> HIDE DEF R, T
  <2> QED
    BY <1>1, <1>2, WFMin, Zenon
<1>4. PICK g \in S : m = n - g
  OBVIOUS
<1>5. \A x \in S : g >= x
  <2>1. SUFFICES ASSUME NEW x \in S PROVE g >= x
    OBVIOUS
  <2>2. n - x \in T
    OBVIOUS
  <2>3. ~ (n - x < n - g)
    BY <1>1, <1>3, <1>4, <2>2
  <2> QED
    BY <2>3
<1>6. Max(S) \in S /\ \A x \in S : Max(S) >= x
  BY <1>5 DEF Max
<1> QED
  BY <1>6

\* The version a request gets is newer than all that is saved.
LEMMA NextIsNewer ==
  ASSUME NEW requested \in 0..MaxVersion, NEW v \in SavedIn(server.configs)
  PROVE  v < NextVersion(Latest, requested)
<1> DEFINE S == {0} \cup {w \in Versions : Content(w) # NoContent}
<1>1. S \in SUBSET (0..MaxVersion) /\ S # {} /\ MaxVersion \in Nat /\ v \in S
  BY ConfigAssumption DEF Versions, SavedIn, Content
<1>2. Latest \in 0..MaxVersion /\ v <= Latest /\ v \in 0..MaxVersion
  <2> HIDE DEF S
  <2>1. Max(S) \in S /\ \A x \in S : x <= Max(S)
    BY <1>1, MaxIsIn
  <2> QED
    BY <1>1, <2>1 DEF S, Latest
<1> QED
  BY <1>1, <1>2 DEF NextVersion

\* The messages, and the retained one, go upwards when a newer version is published.
LEMMA RetainUpwards ==
  ASSUME NEW S, S \subseteq Versions, broker \in Brokers(S), Flashed \in {0} \cup S,
         Upwards(broker, Flashed), NEW v \in {0} \cup S, v # 0 => \A w \in S : w <= v,
         Retain(v)
  PROVE  Upwards(broker', Flashed)
<1> DEFINE q == broker.inbox
<1>1. q \in Seq({0} \cup S) /\ Len(q) \in Nat /\ \A i \in 1..Len(q) : q[i] \in {0} \cup S
  <2>1. q \in Seq({0} \cup S)
    BY DEF Brokers
  <2> QED
    BY <2>1, LenProperties, ElementOfSeq
<1>2. broker'.retained = v /\ broker'.inbox \in {q, Append(q, v)}
  BY DEF Retain
<1>3. \A w \in S : w \in Int /\ w > 0
  BY ConfigAssumption DEF Versions
<1>4. v # 0 => Flashed <= v
  <2>1. v # 0 => v \in S /\ v \in Int /\ v > 0
    BY <1>3
  <2>2. CASE Flashed = 0
    BY <2>1, <2>2
  <2>3. CASE Flashed \in S
    BY <2>3
  <2> QED
    BY <2>2, <2>3
<1>5. /\ Len(Append(q, v)) = Len(q) + 1 /\ Append(q, v)[Len(q) + 1] = v
      /\ \A i \in 1..Len(q) : Append(q, v)[i] = q[i]
  BY <1>1, AppendProperties
<1>6. CASE broker'.inbox = q
  <2>1. \A i \in 1..Len(q) : q[i] # 0 => Flashed <= q[i] /\ (v # 0 => q[i] <= v)
    BY <1>1 DEF Upwards
  <2>2. \A i, j \in 1..Len(q) : i < j /\ q[i] # 0 /\ q[j] # 0 => q[i] <= q[j]
    BY DEF Upwards
  <2> HIDE DEF q
  <2> QED
    BY <1>2, <1>4, <1>6, <2>1, <2>2 DEF Upwards
<1>7. CASE broker'.inbox = Append(q, v)
  <2> DEFINE r == Append(q, v)
  <2> HIDE DEF r, q
  <2>1. ASSUME NEW i \in 1..Len(r)
        PROVE  i = Len(q) + 1 \/ (i \in 1..Len(q) /\ r[i] = q[i] /\ q[i] \in {0} \cup S)
    BY <1>1, <1>5 DEF r
  <2>2. \A i \in 1..Len(r) : r[i] # 0 => Flashed <= r[i] /\ (v # 0 => r[i] <= v)
    BY <1>1, <1>3, <1>4, <1>5, <2>1 DEF Upwards, r, q
  <2>3. \A i, j \in 1..Len(r) : i < j /\ r[i] # 0 /\ r[j] # 0 => r[i] <= r[j]
    <3> SUFFICES ASSUME NEW i \in 1..Len(r), NEW j \in 1..Len(r), i < j, r[i] # 0, r[j] # 0
                 PROVE  r[i] <= r[j]
      OBVIOUS
    <3>1. i \in 1..Len(q) /\ r[i] = q[i] /\ q[i] \in {0} \cup S
      BY <1>1, <1>5, <2>1 DEF r
    <3>2. CASE j = Len(q) + 1
      BY <1>5, <2>2, <3>1, <3>2 DEF r
    <3>3. CASE j \in 1..Len(q) /\ r[j] = q[j]
      BY <3>1, <3>3 DEF Upwards, q
    <3> QED
      BY <2>1, <3>2, <3>3
  <2> QED
    BY <1>2, <1>4, <1>7, <2>2, <2>3 DEF Upwards, r
<1> QED
  BY <1>2, <1>6, <1>7

LEMMA TailUpwards ==
  ASSUME NEW S, S \subseteq Versions, broker \in Brokers(S), broker.inbox # <<>>,
         Flashed \in {0} \cup S, Upwards(broker, Flashed),
         broker' = [broker EXCEPT !.inbox = Tail(@)],
         NEW held, held = Flashed \/ (Head(broker.inbox) # 0 /\ held = Head(broker.inbox))
  PROVE  Upwards(broker', held) /\ Flashed <= held
<1> DEFINE q == broker.inbox
           r == Tail(q)
<1>1. q \in Seq({0} \cup S) /\ Len(q) \in Nat /\ Len(q) >= 1
      /\ \A i \in 1..Len(q) : q[i] \in {0} \cup S
  <2>1. q \in Seq({0} \cup S)
    BY DEF Brokers
  <2>2. Len(q) # 0
    BY <2>1, EmptySeq
  <2> QED
    BY <2>1, <2>2, LenProperties, ElementOfSeq
<1>2. /\ Head(q) = q[1] /\ Len(r) = Len(q) - 1
      /\ \A i \in 1..Len(r) : r[i] = q[i + 1] /\ i + 1 \in 1..Len(q)
  BY <1>1, HeadTailProperties
<1>3. broker'.inbox = r /\ broker'.retained = broker.retained
  BY DEF Brokers
<1>4. \A w \in S : w \in Int /\ w > 0
  BY ConfigAssumption DEF Versions
<1>5. /\ \A i \in 1..Len(q) : q[i] # 0 => Flashed <= q[i]
                                       /\ (broker.retained # 0 => q[i] <= broker.retained)
      /\ \A i, j \in 1..Len(q) : i < j /\ q[i] # 0 /\ q[j] # 0 => q[i] <= q[j]
      /\ broker.retained # 0 => Flashed <= broker.retained
  BY DEF Upwards
<1>6. 1 \in 1..Len(q) /\ \A i \in 1..Len(r) : i \in Int /\ 1 < i + 1
  BY <1>1, <1>2
<1> HIDE DEF q, r
<1>7. /\ \A i \in 1..Len(r) : r[i] # 0 => held <= r[i]
      /\ broker.retained # 0 => held <= broker.retained
      /\ Flashed <= held
  <2>1. CASE held = Flashed
    <3>1. Flashed <= Flashed
      BY <1>4
    <3> QED
      BY <1>2, <1>5, <2>1, <3>1
  <2>2. CASE q[1] # 0 /\ held = q[1]
    BY <1>2, <1>5, <1>6, <2>2
  <2> QED
    BY <1>2, <2>1, <2>2 DEF q
<1>8. \A i, j \in 1..Len(r) : i < j /\ r[i] # 0 /\ r[j] # 0 => r[i] <= r[j]
  <2> SUFFICES ASSUME NEW i \in 1..Len(r), NEW j \in 1..Len(r), i < j, r[i] # 0, r[j] # 0
               PROVE  r[i] <= r[j]
    OBVIOUS
  <2>1. i + 1 < j + 1
    BY <1>6
  <2> QED
    BY <1>2, <1>5, <2>1
<1>9. \A i \in 1..Len(r) : r[i] # 0 => (broker.retained # 0 => r[i] <= broker.retained)
  BY <1>2, <1>5
<1> QED
  BY <1>3, <1>7, <1>8, <1>9 DEF Upwards

\* One request at work moves to r: the others stay idle.
LEMMA OneMoves ==
  ASSUME IInv, NEW s \in Savers, Only(saving, s), NEW r, saving' = [saving EXCEPT ![s] = r],
         Newest(r, SavedIn(server'.configs)), HasAudio(r, server'.file),
         server'.file = "partial" => r.step = "writing", Upwards(broker', Flashed'),
         Held' <= Flashed'
  PROVE  Calm'
<1>1. /\ saving'[s] = r /\ \A t \in Savers \ {s} : saving'[t] = Idle
  BY DEF IInv, Only
<1>2. \A S, file : Newest(Idle, S) /\ HasAudio(Idle, file)
  BY DEF Newest, HasAudio, Idle
<1>3. Alone(saving')
  BY <1>1 DEF Alone
<1>4. \A t \in Savers : Newest(saving'[t], SavedIn(server'.configs)) /\ HasAudio(saving'[t], server'.file)
  BY <1>1, <1>2
<1>5. server'.file = "partial" => \E t \in Savers : saving'[t].step = "writing"
  BY <1>1
<1> QED
  BY <1>3, <1>4, <1>5 DEF Calm, Writing

LEMMA AloneOnly ==
  ASSUME Calm, NEW s \in Savers, saving[s] # Idle
  PROVE  Only(saving, s)
  BY DEF Calm, Alone, Only

LEMMA IdleStep == Idle.step = "idle" /\ \A S, file : Newest(Idle, S) /\ HasAudio(Idle, file)
  BY DEF Idle, Newest, HasAudio

\* A request before its commit.
LEMMA PreparingCalm ==
  ASSUME IInv, Calm, NEW s \in Savers, Prepares(s), ~disturbed'
  PROVE  Calm'
<1> DEFINE S == SavedIn(server.configs)
<1>1. saving[s] \in Requests /\ server \in Servers
  BY DEF IInv, Sound
<1>2. broker' = broker /\ device' = device /\ Upwards(broker', Flashed') /\ Held' <= Flashed'
  BY DEF Prepares, Opens, Synthesised, OpenForm, FindAsset, StartSynthesis, EndSynthesis,
         InsertAsset, KillSave, Calm, Flashed, Held
<1>3. Newest(saving[s], S) /\ HasAudio(saving[s], server.file)
  BY DEF Calm
<1>4. Only(saving, s) /\ saving[s].step # "writing" => server.file # "partial"
  BY IdleStep DEF Only, Calm, Writing
<1>5. CASE Opens(s)
  <2>1. PICK c \in Contents, requested \in 0..MaxVersion : OpenForm(s, c, requested)
    BY <1>5 DEF Opens
  <2> DEFINE version == NextVersion(Latest, requested)
             r == [step |-> FirstStep(c), content |-> c, version |-> version, insert |-> FALSE]
  <2>2. \A o \in Savers : saving[o] = Idle
    BY <2>1 DEF OpenForm
  <2>3. saving' = [saving EXCEPT ![s] = r] /\ server' = server
    BY <2>1 DEF OpenForm
  <2>4. Newest(r, S)
    <3>1. \A v \in S : v < version
      BY NextIsNewer
    <3> HIDE DEF version
    <3> QED
      BY <3>1 DEF Newest, FirstStep
  <2>5. HasAudio(r, server.file)
    BY DEF HasAudio, FirstStep
  <2>6. server.file # "partial"
    BY <2>2, <1>4, IdleStep DEF Only
  <2>7. Only(saving, s)
    BY <2>2 DEF Only
  <2> HIDE DEF r
  <2> QED
    BY <1>2, <2>3, <2>4, <2>5, <2>6, <2>7, OneMoves
<1>6. CASE FindAsset(s)
  <2> DEFINE r == [saving[s] EXCEPT !.step = "ready"]
  <2>1. /\ saving[s].step = "lookup" /\ server.file # "none" /\ server' = server
        /\ saving' = [saving EXCEPT ![s] = r]
    BY <1>6 DEF FindAsset, IInv
  <2>2. Only(saving, s)
    BY <2>1, AloneOnly, IdleStep
  <2>3. server.file = "whole"
    BY <1>1, <1>4, <2>1, <2>2 DEF Servers, Files
  <2>4. Newest(r, S)
    BY <1>1, <1>3, <2>1 DEF Newest, Requests
  <2> HIDE DEF r
  <2> QED
    BY <1>2, <2>1, <2>2, <2>3, <2>4, OneMoves DEF HasAudio
<1>7. CASE StartSynthesis(s)
  <2> DEFINE r == [[saving[s] EXCEPT !.step = "writing"] EXCEPT !.insert = ~server.asset]
  <2>1. /\ saving[s].step = "lookup" /\ server' = [server EXCEPT !.file = "partial"]
        /\ saving' = [saving EXCEPT ![s] = r]
    BY <1>7 DEF StartSynthesis, IInv
  <2>2. Only(saving, s)
    BY <2>1, AloneOnly, IdleStep
  <2>3. server'.configs = server.configs
    BY <1>1, <2>1 DEF Servers
  <2>4. Newest(r, S) /\ r.step = "writing"
    BY <1>1, <1>3, <2>1 DEF Newest, Requests
  <2> HIDE DEF r
  <2> QED
    BY <1>2, <2>1, <2>2, <2>3, <2>4, OneMoves DEF HasAudio
<1>8. CASE Synthesised(s)
  <2>1. PICK file \in Files, ok \in BOOLEAN : EndSynthesis(s, file, ok)
    BY <1>8 DEF Synthesised
  <2> DEFINE next == [saving[s] EXCEPT !.step = "insert"]
             r == IF ok THEN next ELSE Idle
  <2>2. /\ saving[s].step = "writing" /\ server' = [server EXCEPT !.file = file]
        /\ saving' = [saving EXCEPT ![s] = r]
    BY <2>1 DEF EndSynthesis, Writing, IInv
  <2>3. Only(saving, s)
    BY <2>2, AloneOnly, IdleStep
  <2>4. \A o \in Savers \ {s} : ~Writing(o)
    BY <2>3, IdleStep DEF Only, Writing
  <2>5. file = IF ok THEN "whole" ELSE "none"
    BY <2>1, <2>4 DEF EndSynthesis
  <2>6. server'.configs = server.configs /\ server'.file = file
    BY <1>1, <2>2 DEF Servers
  <2>7. Newest(next, S)
    BY <1>1, <1>3, <2>2 DEF Newest, Requests
  <2> HIDE DEF next
  <2>8. Newest(r, S) /\ HasAudio(r, file)
    BY <2>5, <2>7, IdleStep DEF HasAudio
  <2>9. server'.file # "partial"
    BY <2>5, <2>6
  <2>10. Newest(r, SavedIn(server'.configs)) /\ HasAudio(r, server'.file)
    BY <2>6, <2>8
  <2> HIDE DEF r
  <2>11. saving' = [saving EXCEPT ![s] = r]
    BY <2>2
  <2> QED
    BY <1>2, <2>3, <2>9, <2>10, <2>11, OneMoves
<1>9. CASE InsertAsset(s)
  <2> DEFINE next == [saving[s] EXCEPT !.step = "ready"]
  <2>1. saving[s].step = "insert" /\ server' = server
    BY <1>9 DEF InsertAsset
  <2>2. PICK r \in {Idle, next} : saving' = [saving EXCEPT ![s] = r]
    BY <1>9 DEF InsertAsset
  <2>3. Only(saving, s)
    BY <2>1, AloneOnly, IdleStep
  <2>4. server.file = "whole"
    BY <1>3, <2>1 DEF HasAudio
  <2>5. Newest(next, S)
    BY <1>1, <1>3, <2>1 DEF Newest, Requests
  <2>6. Newest(r, S)
    BY <2>2, <2>5, IdleStep
  <2> QED
    BY <1>2, <2>1, <2>2, <2>3, <2>4, <2>6, OneMoves DEF HasAudio
<1>10. ~KillSave(s)
  BY DEF KillSave
<1> QED
  BY <1>5, <1>6, <1>7, <1>8, <1>9, <1>10 DEF Prepares

\* The version that is committed is newer than all others.
LEMMA CommittingCalm ==
  ASSUME IInv, Calm, NEW s \in Savers, Commit(s)
  PROVE  Calm'
<1> DEFINE new == saving[s]
           S == SavedIn(server.configs)
           next == [new EXCEPT !.step = "stored"]
<1>1. /\ new \in Requests /\ new.step = "ready" /\ new.content \in Contents /\ new.version \in Versions
      /\ server \in Servers /\ Newest(new, S) /\ HasAudio(new, server.file)
  BY DEF IInv, Sound, Commit, Calm
<1>2. broker' = broker /\ device' = device /\ Upwards(broker', Flashed') /\ Held' <= Flashed'
  BY DEF Commit, Calm, Flashed, Held
<1>3. Only(saving, s)
  BY <1>1, AloneOnly, IdleStep
<1>4. server.file # "partial"
  <2>1. ~ \E t \in Savers : Writing(t)
    BY <1>1, <1>3, IdleStep DEF Only, Writing
  <2> QED
    BY <2>1 DEF Calm
<1>5. new.version \notin S
  <2>1. ~(new.version < new.version)
    BY <1>1 DEF Versions
  <2> QED
    BY <1>1, <2>1 DEF Newest
<1>6. ~Saved(new.version)
  BY <1>5 DEF Saved, SavedIn, Content
<1> DEFINE row == [content |-> new.content, status |-> "desired"]
           configs == [server.configs EXCEPT ![new.version] = row]
           asset == server.asset \/ new.insert
<1>7. /\ saving' = [saving EXCEPT ![s] = next]
      /\ server' = [server EXCEPT !.configs = configs, !.desired = new.version, !.asset = asset]
  BY <1>6 DEF Commit, IInv
<1>8. server'.file = server.file /\ server'.configs = configs
  <2> HIDE DEF configs, asset
  <2> QED
    BY <1>1, <1>7 DEF Servers
<1>9. SavedIn(server'.configs) \subseteq S \cup {new.version}
  <2>1. \A v \in Versions : v # new.version => configs[v] = server.configs[v]
    BY <1>1 DEF Servers
  <2> QED
    BY <1>8, <2>1 DEF SavedIn
<1>10. next.step = "stored" /\ next.version = new.version
  BY <1>1 DEF Requests
<1>11. \A v \in SavedIn(server'.configs) : v <= new.version
  <2>1. \A v \in S : v < new.version /\ v \in Int
    BY <1>1 DEF Newest, SavedIn, Versions
  <2>2. new.version <= new.version /\ new.version \in Int
    BY <1>1 DEF Versions
  <2> QED
    BY <1>9, <2>1, <2>2
<1>12. Newest(next, SavedIn(server'.configs)) /\ HasAudio(next, server'.file)
  <2> HIDE DEF next
  <2> QED
    BY <1>10, <1>11 DEF Newest, HasAudio
<1> HIDE DEF next, configs
<1> QED
  BY <1>2, <1>3, <1>4, <1>7, <1>8, <1>12, OneMoves

\* What is published is the newest saved version.
LEMMA PublishingCalm ==
  ASSUME IInv, Calm, NEW s \in Savers, PublishDesired(s) \/ PublishFails(s)
  PROVE  Calm'
<1> DEFINE S == SavedIn(server.configs)
           v == saving[s].version
<1>1. /\ saving[s].step = "stored" /\ v \in S /\ Newest(saving[s], S)
      /\ saving' = [saving EXCEPT ![s] = Idle] /\ device' = device
      /\ Retain(v) \/ broker' = broker
  BY DEF PublishDesired, PublishFails, IInv, Sound, Calm
<1>2. Only(saving, s)
  BY <1>1, AloneOnly, IdleStep
<1>3. server.file # "partial"
  <2>1. ~ \E t \in Savers : Writing(t)
    BY <1>1, <1>2, IdleStep DEF Only, Writing
  <2> QED
    BY <2>1 DEF Calm
<1>4. server'.file = server.file
  BY DEF PublishDesired, PublishFails, IInv, Servers
<1>5. Upwards(broker', Flashed') /\ Held' <= Flashed'
  <2>1. \A w \in S : w <= v
    BY <1>1 DEF Newest
  <2>2. Flashed' = Flashed /\ Held' = Held /\ Upwards(broker, Flashed) /\ Held <= Flashed
    BY <1>1 DEF Flashed, Held, Calm
  <2>3. CASE Retain(v)
    <3>1. Upwards(broker', Flashed)
      BY <1>1, <2>1, <2>3, RetainUpwards, FlashKnows DEF IInv, Calm
    <3> QED
      BY <2>2, <3>1
  <2> QED
    BY <1>1, <2>2, <2>3
<1> QED
  BY <1>1, <1>2, <1>3, <1>4, <1>5, IdleStep, OneMoves

\* No request moves, and no saved version is new.
LEMMA NoneMoves ==
  ASSUME Calm, saving' = saving, SavedIn(server'.configs) = SavedIn(server.configs),
         server'.file = server.file, Upwards(broker', Flashed'), Held' <= Flashed'
  PROVE  Calm'
  BY DEF Calm, Writing

LEMMA AdministeringCalm ==
  ASSUME IInv, Calm, LoseFile \/ Archive \/ Restore, ~disturbed'
  PROVE  Calm'
<1>1. server \in Servers
  BY DEF IInv
<1>2. CASE LoseFile
  <2>1. /\ server'.file = "none" /\ server'.configs = server.configs
        /\ saving' = saving /\ broker' = broker /\ device' = device
    BY <1>1, <1>2 DEF LoseFile, Servers
  <2>2. \A s \in Savers : saving[s] = Idle
    BY <1>2 DEF LoseFile
  <2> QED
    BY <2>1, <2>2, IdleStep DEF Calm, Alone, Flashed, Held
<1>3. CASE Archive
  <2>1. /\ server'.file = server.file /\ server'.configs = server.configs
        /\ saving' = saving /\ device' = device
    BY <1>1, <1>3 DEF Archive, Servers
  <2>2. Upwards(broker', Flashed) /\ Held <= Flashed
    <3>1. CASE Retain(0)
      BY <3>1, RetainUpwards, FlashKnows DEF IInv, Calm
    <3> QED
      BY <1>3, <3>1 DEF Archive, Calm
  <2>3. Upwards(broker', Flashed') /\ Held' <= Flashed'
    BY <2>1, <2>2 DEF Flashed, Held
  <2> QED
    BY <2>1, <2>3, NoneMoves
<1>4. CASE Restore
  <2>1. /\ server'.file = server.file /\ server'.configs = server.configs
        /\ saving' = saving /\ device' = device /\ broker' = broker
    BY <1>1, <1>4 DEF Restore, Servers
  <2>2. Upwards(broker', Flashed') /\ Held' <= Flashed'
    BY <2>1 DEF Calm, Flashed, Held
  <2> QED
    BY <2>1, <2>2, NoneMoves
<1> QED
  BY <1>2, <1>3, <1>4

LEMMA ReceivingCalm ==
  ASSUME IInv, Calm, Messages
  PROVE  Calm' /\ Held <= Held'
<1> DEFINE S == SavedIn(server.configs)
<1>1. /\ server' = server /\ saving' = saving /\ Handled(device', Arriving, S)
      /\ broker' = [broker EXCEPT !.inbox = Tail(@)] /\ broker.inbox # <<>>
  BY MessageIs
<1>2. /\ Flashed' = Flashed \/ (Arriving # 0 /\ Flashed' = Arriving)
      /\ Held' = Held \/ Held' = Flashed'
  BY <1>1 DEF Handled, Flashed, Held
<1>3. broker \in Brokers(S) /\ Flashed \in {0} \cup S /\ S \subseteq Versions /\ Upwards(broker, Flashed)
      /\ Held <= Flashed
  BY FlashKnows DEF IInv, Calm
<1>4. Upwards(broker', Flashed') /\ Flashed <= Flashed'
  <2>1. PICK f : f = Flashed' /\ (f = Flashed \/ (Head(broker.inbox) # 0 /\ f = Head(broker.inbox)))
    BY <1>2 DEF Arriving
  <2> HIDE DEF S
  <2>2. Upwards(broker', f) /\ Flashed <= f
    BY <1>1, <1>3, <2>1, TailUpwards
  <2> QED
    BY <2>1, <2>2
<1>5. Held' <= Flashed' /\ Held <= Held'
  <2>1. Held \in Int /\ Flashed \in Int
    BY FlashKnows, ConfigAssumption DEF Versions
  <2>2. Flashed' \in Int
    <3> HIDE DEF S
    <3>1. device' \in Devices(S)
      BY <1>1 DEF Handled, Knows
    <3>2. Flashed' \in 0..MaxVersion
      BY <3>1, ConfigAssumption DEF Devices, Settings, Keys, Flashed
    <3> QED
      BY <3>2
  <2> QED
    BY <1>2, <1>3, <1>4, <2>1, <2>2
<1> QED
  BY <1>1, <1>4, <1>5, NoneMoves

\* The reports leave the requests and the messages to the device alone.
LEMMA ReportingCalm ==
  ASSUME IInv, Calm, Report \/ Redeliver \/ Note
  PROVE  Calm' /\ Held' = Held
<1> DEFINE S == SavedIn(server.configs)
<1>1. /\ device \in Devices(S) /\ server \in Servers /\ reports \in Seq(Letters(S)) /\ S \subseteq Versions
      /\ saving' = saving /\ broker' = broker
  BY DEF IInv, Knows, SavedIn, Report, Redeliver, Note
<1>2. Held' = Held /\ Flashed' = Flashed
  <2>1. device' = device \/ device' = [device EXCEPT !.report = NoReport]
    BY DEF Report, Redeliver, Note
  <2> QED
    BY <1>1, <2>1 DEF Held, Flashed, Devices
<1>3. server'.file = server.file /\ SavedIn(server'.configs) = S
  <2>1. CASE Note
    <3> DEFINE v == Head(reports).version
               applied == Head(reports).applied
    <3>1. server' = server \/ server' = Reported(v, applied)
      BY <2>1 DEF Note
    <3>2. v \in 0..MaxVersion /\ applied \in BOOLEAN
      <4>1. Head(reports) \in Letters(S)
        BY <1>1, <2>1, HeadTailProperties DEF Note
      <4> QED
        BY <1>1, <4>1, ConfigAssumption DEF Letters, Versions
    <3>3. \A w \in Versions : Reported(v, applied).configs[w].content = server.configs[w].content
      BY <1>1, <3>2, Noting
    <3>4. Reported(v, applied).file = server.file
      BY <1>1 DEF Reported, Servers
    <3> HIDE DEF v, applied
    <3>5. SavedIn(Reported(v, applied).configs) = S
      BY <3>3 DEF SavedIn
    <3> QED
      BY <3>1, <3>4, <3>5
  <2> QED
    BY <2>1 DEF Report, Redeliver
<1>4. Upwards(broker', Flashed') /\ Held' <= Flashed'
  BY <1>1, <1>2 DEF Calm
<1> QED
  BY <1>1, <1>2, <1>3, <1>4, NoneMoves

LEMMA ComingAndGoingCalm ==
  ASSUME IInv, Calm, FinishApply \/ Connect \/ Disconnect \/ Restart
  PROVE  Calm' /\ Held <= Held'
<1> DEFINE S == SavedIn(server.configs)
<1>1. /\ server' = server /\ saving' = saving /\ Knows(device, S) /\ device \in Devices(S)
      /\ broker \in Brokers(S)
  BY DEF IInv, Knows, FinishApply, Connect, Disconnect, Restart
<1>2. Flashed' = Flashed /\ (Held' = Held \/ Held' = Flashed')
  <2>1. CASE FinishApply
    BY <1>1, <2>1, FinishIs DEF Held, Flashed
  <2>2. CASE Connect \/ Disconnect
    <3>1. \E c \in BOOLEAN : device' = [device EXCEPT !.connected = c]
      BY <2>2 DEF Connect, Disconnect
    <3> QED
      BY <1>1, <3>1 DEF Devices, Held, Flashed
  <2>3. CASE Restart
    <3>1. device' = Restarted(device.kept) /\ device.kept \in Settings(S)
      BY <1>1, <2>3 DEF Restart, Devices
    <3> QED
      BY <1>1, <3>1, RestartedIs DEF Held, Flashed
  <2> QED
    BY <2>1, <2>2, <2>3
<1>3. Held' <= Flashed' /\ Held <= Held'
  <2>1. Held \in Int /\ Flashed \in Int /\ Held <= Flashed
    BY FlashKnows, ConfigAssumption DEF Versions, Calm
  <2> QED
    BY <1>2, <2>1
<1>4. Upwards(broker', Flashed')
  <2>1. CASE broker' = broker
    BY <1>2, <2>1 DEF Calm
  <2>2. CASE broker' = [broker EXCEPT !.inbox = <<>>]
    <3>1. broker'.inbox = <<>> /\ broker'.retained = broker.retained /\ Len(broker'.inbox) = 0
      BY <1>1, <2>2 DEF Brokers
    <3> QED
      BY <1>2, <3>1 DEF Calm, Upwards
  <2>3. CASE broker' = [broker EXCEPT !.inbox = <<broker.retained>>] /\ broker.retained # 0
    <3>1. broker'.inbox = <<broker.retained>> /\ broker'.retained = broker.retained
      BY <1>1, <2>3 DEF Brokers
    <3>2. Len(broker'.inbox) = 1 /\ broker'.inbox[1] = broker.retained
      BY <3>1
    <3>3. broker.retained <= broker.retained /\ Flashed <= broker.retained
      BY <1>1, <2>3, ConfigAssumption DEF Calm, Upwards, Brokers, SavedIn, Versions
    <3>4. \A k \in 1..1 : k = 1
      OBVIOUS
    <3>5. ~(1 < 1)
      OBVIOUS
    <3> QED
      BY <1>2, <3>1, <3>2, <3>3, <3>4, <3>5 DEF Upwards
  <2> QED
    BY <2>1, <2>2, <2>3 DEF FinishApply, Connect, Disconnect, Restart
<1> QED
  BY <1>1, <1>3, <1>4, NoneMoves

LEMMA StepCalm ==
  ASSUME IInv, Calm, [Next]_vars
  PROVE  (~disturbed' => Calm') /\ Held <= Held'
<1>1. Held <= Held
  BY FlashKnows, ConfigAssumption DEF Versions
<1>2. CASE \E s \in Savers : Save(s)
  <2>1. PICK s \in Savers : Save(s)
    BY <1>2
  <2>2. Held' = Held
    BY <2>1 DEF Save, OpenForm, FindAsset, StartSynthesis, EndSynthesis, InsertAsset, Commit,
                PublishDesired, PublishFails, KillSave, Held
  <2>3. ~disturbed' => Calm'
    BY <2>1, PreparingCalm, CommittingCalm, PublishingCalm DEF Save, Prepares, Opens, Synthesised
  <2> QED
    BY <1>1, <2>2, <2>3
<1>3. CASE LoseFile \/ Archive \/ Restore
  <2>1. Held' = Held
    BY <1>3 DEF LoseFile, Archive, Restore, Held
  <2> QED
    BY <1>1, <1>3, <2>1, AdministeringCalm
<1>4. CASE Messages
  BY <1>4, ReceivingCalm
<1>5. CASE FinishApply \/ Connect \/ Disconnect \/ Restart
  BY <1>5, ComingAndGoingCalm
<1>6. CASE Report \/ Redeliver \/ Note
  BY <1>1, <1>6, ReportingCalm
<1>7. CASE UNCHANGED vars
  <2>1. Upwards(broker', Flashed') /\ Held' <= Flashed' /\ Held' = Held
    BY <1>7 DEF vars, Calm, Flashed, Held
  <2> QED
    BY <1>1, <1>7, <2>1, NoneMoves DEF vars
<1> QED
  BY <1>2, <1>3, <1>4, <1>5, <1>6, <1>7 DEF Next, Messages

\* Once requests have overlapped, or one was killed, that stays on record.
LEMMA DisturbedStays ==
  ASSUME [Next]_vars, disturbed
  PROVE  disturbed'
<1>1. CASE \E s \in Savers : Save(s)
  BY <1>1 DEF Save, OpenForm, FindAsset, StartSynthesis, EndSynthesis, InsertAsset, Commit,
              PublishDesired, PublishFails, KillSave
<1>2. CASE ~(\E s \in Savers : Save(s))
  BY <1>2 DEF Next, LoseFile, Archive, Restore, Receive, ReceiveWithoutModem, StoreFails, StoreIsCut,
              FinishApply, Report, Redeliver, Note, Connect, Disconnect, Restart, vars
<1> QED
  BY <1>1, <1>2

LEMMA CalmAlways == Spec => [](disturbed \/ Calm)
<1>1. Init => Calm
  <2> SUFFICES ASSUME Init PROVE Calm
    OBVIOUS
  <2>1. \A s \in Savers : saving[s] = Idle
    BY DEF Init
  <2>2. Len(broker.inbox) = 0 /\ broker.retained = 0 /\ server.file = "none"
    BY DEF Init
  <2>3. Upwards(broker, Flashed) /\ Held <= Flashed
    BY <2>2 DEF Init, Upwards, Held, Flashed, Values, Keys
  <2> QED
    BY <2>1, <2>2, <2>3, IdleStep DEF Calm, Alone
<1>2. IInv /\ (disturbed \/ Calm) /\ [Next]_vars => (disturbed \/ Calm)'
  BY StepCalm, DisturbedStays
<1> QED
  BY <1>1, <1>2, Invariance, PTL DEF Spec

\* The device goes back to an older version only after two saves overlapped or one was
\* killed: no restart, deletion, lost publication or typed version does it, for any
\* number of requests, versions and mishaps.
THEOREM NoStepBackHolds == Spec => NoStepBack
<1>1. IInv /\ (disturbed \/ Calm) /\ [Next]_vars
        => [Held' < Held => disturbed]_vars
  <2> SUFFICES ASSUME IInv, Calm, [Next]_vars PROVE ~(Held' < Held)
    OBVIOUS
  <2>1. Held <= Held'
    BY StepCalm
  <2>2. Held \in Int /\ Held' \in Int
    BY EveryStep, ConfigAssumption DEF IInv, Knows, Devices, Settings, Held, SavedIn, Versions
  <2> QED
    BY <2>1, <2>2
<1> QED
  BY <1>1, CalmAlways, Invariance, PTL DEF Spec, NoStepBack

\* What speaks is committed with its audio whole on the disk, unless requests
\* overlapped or one was killed, also after the volume was wiped.
THEOREM PreparedIsWholeHolds == Spec => PreparedIsWhole
<1> DEFINE Prepared(s) ==
             saving[s].step = "ready" /\ saving'[s].step = "stored" /\ saving[s].content \in Spoken
               => disturbed \/ server.file = "whole"
<1>1. ASSUME IInv, disturbed \/ Calm, [Next]_vars, NEW s \in Savers
      PROVE  Prepared(s)
  <2> SUFFICES ASSUME saving[s].step = "ready", saving[s].content \in Spoken, ~disturbed
               PROVE  server.file = "whole"
    OBVIOUS
  <2> QED
    BY <1>1 DEF Calm, HasAudio
<1>2. IInv /\ (disturbed \/ Calm) /\ [Next]_vars => [\A s \in Savers : Prepared(s)]_vars
  <2> HIDE DEF Prepared
  <2> QED
    BY <1>1
<1> QED
  BY <1>2, CalmAlways, Invariance, PTL DEF Spec, PreparedIsWhole
===============================================================================
