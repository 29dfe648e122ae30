------------------------ MODULE ProgramStoreProofs ------------------------
(***************************************************************************)
(* Proofs about the program store, for any number of deployments, crashes  *)
(* and reboots: what an acknowledged deployment leaves on disk survives,   *)
(* and the bytecode is never older than the metadata says, both up to the  *)
(* power failures that come before the system has written the files back.  *)
(***************************************************************************)
EXTENDS ProgramStore, TLAPS

(* A file holds a deployment that was begun, nothing, or a torn write.     *)
FilesInv ==
  /\ last \in 0 .. MaxDeploys
  /\ DOMAIN disk = Files
  /\ \A f \in Files : disk[f] \in 0 .. last \cup {Torn}
  /\ DOMAIN platter = Loaded
  /\ \A f \in Loaded : platter[f] \in 0 .. last \cup {Torn}
  /\ writing \in Files \cup {"commit", "no"}
  /\ acked.deploy \in 0 .. last
  /\ acked \in [deploy : Nat, intact : BOOLEAN]

(* How far the bundle being stored has got, unless a write was refused:    *)
(* metadata that can be read is not ahead of the bytecode, as long as no   *)
(* power failure came before the two were written back; behind the         *)
(* bytecode's write the file is new, behind the metadata's both are; and   *)
(* an acknowledged deployment is on disk until the next one begins.        *)
OrderInv ==
  ~refused =>
    /\ lost \/ disk["meta"] \in {Missing, Torn} \/ disk["meta"] <= disk["bytecode"]
    /\ writing \in {"meta", "commit"} => disk["bytecode"] = last
    /\ writing = "commit" => disk["meta"] = last
    /\ acked.intact => writing = "no"
    /\ acked.intact /\ acked.deploy # 0 =>
         disk["bytecode"] = acked.deploy /\ disk["meta"] = acked.deploy

StoreInv == FilesInv /\ OrderInv /\ CodeNotBehindMeta

(* The store is empty when the agent first starts (ProgramStore::new).     *)
LEMMA StoreInit == Init => StoreInv
  BY StoreAssumption
  DEF Init, StoreInv, FilesInv, OrderInv, CodeNotBehindMeta, NoProgram, Missing, Torn,
      Files, Loaded

(* Steps that touch neither files nor store leave the invariant alone.     *)
LEMMA StoreUntouched ==
  ASSUME StoreInv, UNCHANGED <<disk, platter, mem, last, writing, acked, refused, lost>>
  PROVE  StoreInv'
  BY DEF StoreInv, FilesInv, OrderInv, CodeNotBehindMeta, NoProgram, Missing, Torn

LEMMA StoreNext == StoreInv /\ [Next]_vars => StoreInv'
<1> SUFFICES ASSUME StoreInv, [Next]_vars
             PROVE  StoreInv'
  OBVIOUS
<1> USE StoreAssumption DEF StoreInv, FilesInv, OrderInv, Missing, Torn, Files, Loaded
<1>1. CASE StoreBundle
  <2>1. acked'.deploy = acked.deploy /\ ~acked'.intact
    BY <1>1 DEF StoreBundle
  <2>2. acked' \in [deploy : Nat, intact : BOOLEAN]
    BY <1>1 DEF StoreBundle
  <2>3. FilesInv'
    BY <1>1, <2>1, <2>2 DEF StoreBundle
  <2>4. OrderInv'
    BY <1>1, <2>1 DEF StoreBundle
  <2>5. CodeNotBehindMeta'
    BY <1>1 DEF StoreBundle, CodeNotBehindMeta, NoProgram
  <2> QED
    BY <2>3, <2>4, <2>5
<1>2. ASSUME NEW f \in Files, Write(f)
      PROVE  StoreInv'
  <2>1. Content(f) \in 0 .. last \cup {Torn}
    BY DEF Content
  <2>2. f \in {"bytecode", "meta"} => Content(f) = last
    BY DEF Content
  <2>3. FilesInv'
    BY <1>2, <2>1 DEF Write, NextFile
  <2>4. OrderInv'
    BY <1>2, <2>2 DEF Write, NextFile
  <2>5. CodeNotBehindMeta'
    BY <1>2 DEF Write, CodeNotBehindMeta, NoProgram
  <2> QED
    BY <2>3, <2>4, <2>5
<1>3. ASSUME NEW f \in Files, WriteFails(f)
      PROVE  StoreInv'
  <2>1. refused'
    BY <1>3 DEF WriteFails
  <2> QED
    BY <1>3, <2>1 DEF WriteFails, NextFile, CodeNotBehindMeta
<1>4. CASE Commit
  <2>1. acked'.deploy = last /\ mem'.code = last /\ mem'.meta = last
    BY <1>4 DEF Commit
  <2>2. CodeNotBehindMeta'
    BY <2>1 DEF CodeNotBehindMeta
  <2> QED
    BY <1>4, <2>1, <2>2 DEF Commit
<1>5. CASE RemoveCurrent
  <2>1. acked'.deploy = 0 /\ acked'.intact = acked.intact
    BY <1>5 DEF RemoveCurrent
  <2> QED
    BY <1>5, <2>1 DEF RemoveCurrent, CodeNotBehindMeta, NoProgram
<1>6. CASE Crash
  <2>1. FilesInv'
    BY <1>6 DEF Crash, AgentGone
  <2>2. OrderInv'
    BY <1>6 DEF Crash, AgentGone
  <2>3. CodeNotBehindMeta'
    BY <1>6 DEF Crash, AgentGone, CodeNotBehindMeta
  <2> QED
    BY <2>1, <2>2, <2>3
<1>7. CASE Boot
  <2>1. mem' # NoProgram /\ ~refused' /\ ~lost' => mem'.meta <= mem'.code
    BY <1>7 DEF Boot, LoadPersisted
  <2> QED
    BY <1>7, <2>1 DEF Boot, CodeNotBehindMeta, NoProgram
<1>8. CASE \/ Start \/ AutoStartProgram \/ AutoStartSkipped
           \/ StartMeta \/ StartDevices \/ Stop \/ UNCHANGED vars
  BY <1>8, StoreUntouched
  DEF Start, AutoStartProgram, StartLoad, AutoStartSkipped, StartMeta, StartDevices, Stop, vars
<1>9. ASSUME NEW f \in Loaded, WriteBack(f)
      PROVE  StoreInv'
  <2>1. CodeNotBehindMeta'
    BY <1>9 DEF WriteBack, CodeNotBehindMeta, NoProgram
  <2> QED
    BY <1>9, <2>1 DEF WriteBack
<1>10. CASE PowerLoss
  <2> DEFINE safe == \A f \in Loaded : platter[f] = disk[f]
  <2>1. PICK s \in Leftover("source"), p \in Leftover("profiles"),
             b \in Leftover("bytecode"), m \in Leftover("meta") :
          /\ disk' = [source |-> s, profiles |-> p, bytecode |-> b, meta |-> m]
          /\ platter' = [bytecode |-> b, meta |-> m]
    BY <1>10 DEF PowerLoss
  <2>2. \A f \in Files : Leftover(f) \subseteq 0 .. last \cup {Torn}
    BY DEF Leftover
  <2>3. acked'.deploy = acked.deploy /\ (acked'.intact <=> acked.intact /\ safe)
    BY <1>10 DEF PowerLoss
  <2>4. lost' <=> lost \/ ~safe
    BY <1>10 DEF PowerLoss
  <2>5. last' = last /\ writing' = "no" /\ mem' = NoProgram /\ (refused' <=> refused)
    BY <1>10 DEF PowerLoss, AgentGone
  <2>6. disk'["meta"] = m /\ disk'["bytecode"] = b
    BY <2>1
  <2>7. safe => /\ b = disk["bytecode"] \/ (writing = "bytecode" /\ b = Torn)
                /\ m = disk["meta"] \/ (writing = "meta" /\ m = Torn)
    BY <2>1 DEF Leftover
  <2>8. FilesInv'
    <3>1. acked' \in [deploy : Nat, intact : BOOLEAN]
      BY <1>10 DEF PowerLoss
    <3>2. \A f \in Files : disk'[f] \in 0 .. last \cup {Torn}
      BY <2>1, <2>2
    <3>3. \A f \in Loaded : platter'[f] \in 0 .. last \cup {Torn}
      BY <2>1, <2>2
    <3>4. DOMAIN disk' = Files /\ DOMAIN platter' = Loaded
      BY <2>1
    <3> QED
      BY <2>3, <2>5, <3>1, <3>2, <3>3, <3>4
  <2>9. OrderInv'
    BY <2>3, <2>4, <2>5, <2>6, <2>7
  <2>10. CodeNotBehindMeta'
    BY <2>5 DEF CodeNotBehindMeta
  <2> QED
    BY <2>8, <2>9, <2>10
<1> QED
  BY <1>1, <1>2, <1>3, <1>4, <1>5, <1>6, <1>7, <1>8, <1>9, <1>10 DEF Next

LEMMA StoreCorrect == Spec => []StoreInv
  BY StoreInit, StoreNext, PTL DEF Spec

(* After any sequence of deployments cut short anywhere the bytecode that  *)
(* runs is not older than the deployment the agent reports, as long as the *)
(* disk takes what is written and no power failure comes before bytecode   *)
(* and metadata are written back, which nothing in store_bundle waits for  *)
(* (store_bundle, load_persisted).                                         *)
THEOREM CodeNotBehindMetaHolds == Spec => []CodeNotBehindMeta
  BY StoreCorrect, PTL DEF StoreInv

(* A reboot after crashes of the process brings back the deployment that   *)
(* was acknowledged last, and one after a power failure does if the system *)
(* had written its two files back by then (store_bundle writes before it   *)
(* answers but syncs nothing; load_persisted).                             *)
THEOREM AckedSurvivesCrashHolds == Spec => AckedSurvivesCrash
<1>1. StoreInv /\ [Next]_vars =>
        [Boot /\ acked.deploy # 0 /\ acked.intact /\ ~refused
           => mem'.code = acked.deploy /\ mem'.meta = acked.deploy]_vars
  BY StoreAssumption
  DEF StoreInv, FilesInv, OrderInv, Boot, LoadPersisted, Missing, Torn, Files
<1> QED
  BY <1>1, StoreCorrect, PTL DEF Spec, AckedSurvivesCrash

\* TypeOK in two parts: the flags, and everything else, which includes that a
\* bundle is being stored only after a deployment began
Flags == up \in BOOLEAN /\ boot \in BOOLEAN /\ refused \in BOOLEAN /\ lost \in BOOLEAN
Data ==
  /\ disk \in [Files -> 0 .. Torn]
  /\ mem \in [code : 0 .. Torn, meta : 0 .. MaxDeploys, source : BOOLEAN]
  /\ last \in 0 .. MaxDeploys
  /\ kind \in [Deploys -> Kinds \cup {NotDeployed}]
  /\ writing \in Files \cup {"commit", "no"}
  /\ writing # "no" => last # 0
  /\ starter \in [by : {"nobody", "api", "auto"}, at : {"idle", "meta", "devices"},
                  code : 0 .. MaxDeploys, meta : 0 .. MaxDeploys]
  /\ engine \in [by : {"nobody", "api", "auto"}, code : 0 .. MaxDeploys,
                 meta : 0 .. MaxDeploys, profiles : 0 .. Torn,
                 devices : {"none", "simulated", "upp"}]
  /\ acked \in [deploy : 0 .. MaxDeploys, intact : BOOLEAN]
Medium == platter \in [Loaded -> 0 .. Torn]

(* Every action sets a flag to a constant, to auto_start or not at all.    *)
LEMMA FlagsNext == Flags /\ [Next]_vars => Flags'
<1> SUFFICES ASSUME Flags, [Next]_vars PROVE Flags'
  OBVIOUS
<1> USE StoreAssumption DEF Flags
<1>1. CASE StoreBundle \/ Commit \/ RemoveCurrent
  BY <1>1, Zenon DEF StoreBundle, Commit, RemoveCurrent
<1>2. CASE \E f \in Files : Write(f) \/ WriteFails(f)
  BY <1>2, Zenon DEF Write, WriteFails
<1>3. CASE Crash \/ Boot
  BY <1>3, Zenon DEF Crash, AgentGone, Boot
<1>4. CASE Start \/ AutoStartProgram \/ AutoStartSkipped
  BY <1>4, Zenon DEF Start, AutoStartProgram, AutoStartSkipped, StartLoad
<1>5. CASE StartMeta \/ StartDevices \/ Stop
  BY <1>5, Zenon DEF StartMeta, StartDevices, Stop
<1>6. CASE UNCHANGED vars
  BY <1>6, Zenon DEF vars
<1>7. CASE \E f \in Loaded : WriteBack(f)
  BY <1>7, Zenon DEF WriteBack
<1>8. CASE PowerLoss
  <2>1. lost' = (lost \/ ~(\A f \in Loaded : platter[f] = disk[f]))
    BY <1>8, Zenon DEF PowerLoss
  <2>2. lost' \in BOOLEAN
    BY <2>1, Zenon
  <2> QED
    BY <1>8, <2>2, Zenon DEF PowerLoss, AgentGone
<1> QED
  BY <1>1, <1>2, <1>3, <1>4, <1>5, <1>6, <1>7, <1>8 DEF Next

(* A number names a bundle, deployed or not, that carries what bundles do. *)
LEMMA KindOf ==
  ASSUME Data, NEW d \in Deploys
  PROVE  /\ kind[d].sources \in BOOLEAN
         /\ kind[d].protocol \in {"none", "simulated", "upp", "other"}
<1>1. CASE kind[d] \in Kinds
  <2>1. kind[d].sources \in BOOLEAN
    BY <1>1 DEF Kinds
  <2>2. kind[d].protocol \in Protocols
    BY <1>1 DEF Kinds
  <2> QED
    BY <2>1, <2>2, StoreAssumption
<1>2. CASE kind[d] = NotDeployed
  <2>1. kind[d].sources = FALSE /\ kind[d].protocol = "none"
    BY <1>2 DEF NotDeployed
  <2> QED
    BY <2>1
<1> QED
  BY <1>1, <1>2 DEF Data

(* What is read from disk is checked before it is used (load_persisted     *)
(* parses the metadata, load_module deserializes the bytecode), so code    *)
(* and metadata in use belong to deployments.                              *)
LEMMA DataNext == Data /\ Medium /\ [Next]_vars => Data'
<1> SUFFICES ASSUME Data, Medium, [Next]_vars PROVE Data'
  OBVIOUS
<1> USE StoreAssumption DEF Data, Missing, Torn, Files, Loaded, Deploys
<1>1. CASE StoreBundle
  <2>1. PICK k \in Kinds : kind' = [kind EXCEPT ![last + 1] = k]
    BY <1>1 DEF StoreBundle
  <2>2. kind' \in [Deploys -> Kinds \cup {NotDeployed}]
    BY <2>1
  <2>3. last' \in 0 .. MaxDeploys /\ last' # 0 /\ writing' = "source"
    <3>1. last < MaxDeploys /\ last' = last + 1 /\ writing' = "source"
      BY <1>1 DEF StoreBundle
    <3> QED
      BY <3>1
  <2>4. acked' \in [deploy : 0 .. MaxDeploys, intact : BOOLEAN]
    BY <1>1 DEF StoreBundle
  <2>5. UNCHANGED <<disk, platter, mem, starter, engine>>
    BY <1>1 DEF StoreBundle
  <2> QED
    BY <2>2, <2>3, <2>4, <2>5
<1>2. ASSUME NEW f \in Files, Write(f) PROVE Data'
  <2>1. Content(f) \in 0 .. Torn
    BY DEF Content
  <2>2. NextFile(f) \in Files \cup {"commit", "no"}
    BY DEF NextFile
  <2>3. disk' \in [Files -> 0 .. Torn] /\ writing' = NextFile(f)
    BY <1>2, <2>1 DEF Write
  <2>4. last' = last /\ last # 0
    BY <1>2 DEF Write
  <2>5. UNCHANGED <<platter, mem, kind, starter, engine, acked>>
    BY <1>2 DEF Write
  <2> QED
    BY <2>2, <2>3, <2>4, <2>5
<1>3. ASSUME NEW f \in Files, WriteFails(f) PROVE Data'
  <2>1. NextFile(f) \in Files \cup {"commit", "no"}
    BY DEF NextFile
  <2>2. disk' \in [Files -> 0 .. Torn] /\ writing' \in {"no", NextFile(f)}
    <3>1. PICK c \in {disk[f], Torn} : disk' = [disk EXCEPT ![f] = c]
      BY <1>3 DEF WriteFails
    <3>2. c \in 0 .. Torn
      BY <3>1
    <3>3. disk' \in [Files -> 0 .. Torn]
      BY <3>1, <3>2
    <3>4. writing' = IF f = "source" THEN "no" ELSE NextFile(f)
      BY <1>3 DEF WriteFails
    <3> QED
      BY <3>3, <3>4
  <2>3. last' = last /\ last # 0
    BY <1>3 DEF WriteFails
  <2>4. UNCHANGED <<platter, mem, kind, starter, engine, acked>>
    BY <1>3 DEF WriteFails
  <2>5. writing' \in Files \cup {"commit", "no"}
    BY <2>1, <2>2
  <2> QED
    BY <2>2, <2>3, <2>4, <2>5
<1>4. CASE Commit
  <2>1. last \in Deploys
    BY <1>4 DEF Commit
  <2>2. kind[last].sources \in BOOLEAN
    BY <2>1, KindOf
  <2>3. mem' = [code |-> last, meta |-> last, source |-> kind[last].sources]
    BY <1>4 DEF Commit
  <2>4. mem' \in [code : 0 .. Torn, meta : 0 .. MaxDeploys, source : BOOLEAN]
    BY <2>1, <2>2, <2>3
  <2> QED
    BY <1>4, <2>4 DEF Commit
<1>5. CASE RemoveCurrent
  <2>1. mem' \in [code : 0 .. Torn, meta : 0 .. MaxDeploys, source : BOOLEAN]
    <3>1. mem' = [code |-> 0, meta |-> 0, source |-> FALSE]
      BY <1>5 DEF RemoveCurrent, NoProgram
    <3> QED
      BY <3>1
  <2>2. acked' \in [deploy : 0 .. MaxDeploys, intact : BOOLEAN]
    <3>1. acked' = [acked EXCEPT !.deploy = 0]
      BY <1>5 DEF RemoveCurrent
    <3>2. 0 \in 0 .. MaxDeploys
      OBVIOUS
    <3>3. acked \in [deploy : 0 .. MaxDeploys, intact : BOOLEAN]
      OBVIOUS
    <3> QED
      BY <3>1, <3>2, <3>3
  <2>3. UNCHANGED <<disk, platter, last, kind, writing, starter, engine>>
    BY <1>5 DEF RemoveCurrent
  <2> QED
    BY <2>1, <2>2, <2>3
<1>6. CASE Crash
  BY <1>6 DEF Crash, AgentGone, NoProgram, NoStart, NoEngine
<1>7. CASE Boot
  <2>1. CASE disk["bytecode"] = Missing \/ disk["meta"] \in {Missing, Torn}
    BY <1>7, <2>1 DEF Boot, LoadPersisted, NoProgram
  <2>2. CASE ~(disk["bytecode"] = Missing \/ disk["meta"] \in {Missing, Torn})
    <3>1. disk["meta"] \in 0 .. MaxDeploys /\ disk["bytecode"] \in 0 .. Torn
      BY <2>2
    <3>2. (disk["source"] # Missing) \in BOOLEAN
      OBVIOUS
    <3>3. mem' = [code |-> disk["bytecode"], meta |-> disk["meta"],
                  source |-> disk["source"] # Missing]
      BY <1>7, <2>2 DEF Boot, LoadPersisted
    <3>4. mem' \in [code : 0 .. Torn, meta : 0 .. MaxDeploys, source : BOOLEAN]
      BY <3>1, <3>2, <3>3
    <3> QED
      BY <1>7, <3>4 DEF Boot
  <2> QED
    BY <2>1, <2>2
<1>8. CASE Start \/ AutoStartProgram
  <2>1. PICK who \in {"api", "auto"} : StartLoad(who)
    BY <1>8 DEF Start, AutoStartProgram
  <2>2. starter' \in [by : {"nobody", "api", "auto"}, at : {"idle", "meta", "devices"},
                      code : 0 .. MaxDeploys, meta : 0 .. MaxDeploys]
    BY <2>1 DEF StartLoad
  <2>3. UNCHANGED <<disk, platter, mem, last, kind, writing, engine, acked>>
    BY <2>1 DEF StartLoad
  <2> QED
    BY <2>2, <2>3
<1>9. CASE AutoStartSkipped
  BY <1>9 DEF AutoStartSkipped
<1>10. CASE StartMeta
  <2>1. CASE mem = NoProgram
    BY <1>10, <2>1 DEF StartMeta, NoStart
  <2>2. CASE mem # NoProgram
    <3>1. starter' = [starter EXCEPT !.at = "devices", !.meta = mem.meta]
      BY <1>10, <2>2 DEF StartMeta
    <3>2. mem.meta \in 0 .. MaxDeploys
      OBVIOUS
    <3>3. starter' \in [by : {"nobody", "api", "auto"}, at : {"idle", "meta", "devices"},
                        code : 0 .. MaxDeploys, meta : 0 .. MaxDeploys]
      BY <3>1, <3>2
    <3> QED
      BY <1>10, <3>3 DEF StartMeta
  <2> QED
    BY <2>1, <2>2
<1>11. CASE StartDevices
  <2>1. Devices(starter.by, disk["profiles"]) \in {"none", "simulated", "upp"}
    <3> DEFINE p == disk["profiles"]
    <3>1. CASE p \in {Missing, Torn}
      BY <3>1 DEF Devices
    <3>2. CASE p \notin {Missing, Torn}
      <4>1. p \in Deploys
        BY <3>2
      <4>2. kind[p].protocol \in {"none", "simulated", "upp", "other"}
        BY <4>1, KindOf
      <4>3. CASE starter.by = "auto" \/ kind[p].protocol = "other"
        BY <3>2, <4>3 DEF Devices
      <4>4. CASE ~(starter.by = "auto" \/ kind[p].protocol = "other")
        <5>1. Devices(starter.by, p) = kind[p].protocol
          BY <3>2, <4>4 DEF Devices
        <5> QED
          BY <4>2, <4>4, <5>1
      <4> QED
        BY <4>3, <4>4
    <3> QED
      BY <3>1, <3>2
  <2> QED
    BY <1>11, <2>1 DEF StartDevices, NoStart, NoEngine
<1>12. CASE Stop
  BY <1>12 DEF Stop, NoEngine
<1>13. CASE UNCHANGED vars
  BY <1>13 DEF vars
<1>14. ASSUME NEW f \in Loaded, WriteBack(f) PROVE Data'
  BY <1>14 DEF WriteBack
<1>15. CASE PowerLoss
  <2>1. PICK s \in Leftover("source"), p \in Leftover("profiles"),
             b \in Leftover("bytecode"), m \in Leftover("meta") :
          /\ disk' = [source |-> s, profiles |-> p, bytecode |-> b, meta |-> m]
          /\ platter' = [bytecode |-> b, meta |-> m]
    BY <1>15 DEF PowerLoss
  <2>2. \A f \in Files : Leftover(f) \subseteq 0 .. Torn
    <3>1. \A f \in Files : disk[f] \in 0 .. Torn
      OBVIOUS
    <3>2. \A f \in Loaded : platter[f] \in 0 .. Torn
      BY DEF Medium
    <3> QED
      BY <3>1, <3>2 DEF Leftover
  <2>3. disk' \in [Files -> 0 .. Torn]
    BY <2>1, <2>2
  <2>4. acked' \in [deploy : 0 .. MaxDeploys, intact : BOOLEAN]
    BY <1>15 DEF PowerLoss
  <2>5. /\ mem' = NoProgram /\ writing' = "no" /\ starter' = NoStart
        /\ engine' = NoEngine /\ UNCHANGED <<last, kind>>
    BY <1>15 DEF PowerLoss, AgentGone
  <2>6. /\ mem' \in [code : 0 .. Torn, meta : 0 .. MaxDeploys, source : BOOLEAN]
        /\ starter' \in [by : {"nobody", "api", "auto"}, at : {"idle", "meta", "devices"},
                         code : 0 .. MaxDeploys, meta : 0 .. MaxDeploys]
        /\ engine' \in [by : {"nobody", "api", "auto"}, code : 0 .. MaxDeploys,
                        meta : 0 .. MaxDeploys, profiles : 0 .. Torn,
                        devices : {"none", "simulated", "upp"}]
    BY <2>5 DEF NoProgram, NoStart, NoEngine
  <2> QED
    BY <2>3, <2>4, <2>5, <2>6
<1> QED
  BY <1>1, <1>2, <1>3, <1>4, <1>5, <1>6, <1>7, <1>8, <1>9, <1>10, <1>11, <1>12, <1>13,
     <1>14, <1>15 DEF Next

(* What is written back to the medium was in a file.                       *)
LEMMA MediumNext == Data /\ Medium /\ [Next]_vars => Medium'
<1> SUFFICES ASSUME Data, Medium, [Next]_vars PROVE Medium'
  OBVIOUS
<1> USE StoreAssumption DEF Medium, Missing, Torn, Files, Loaded
<1>1. disk \in [Files -> 0 .. Torn]
  BY DEF Data
<1>2. ASSUME NEW f \in Loaded, WriteBack(f) PROVE Medium'
  BY <1>1, <1>2 DEF WriteBack
<1>3. CASE PowerLoss
  <2>1. PICK b \in Leftover("bytecode"), m \in Leftover("meta") :
          platter' = [bytecode |-> b, meta |-> m]
    BY <1>3 DEF PowerLoss
  <2>2. \A f \in Loaded : Leftover(f) \subseteq 0 .. Torn
    BY <1>1 DEF Leftover
  <2> QED
    BY <2>1, <2>2
<1>4. CASE UNCHANGED platter
  BY <1>4
<1> QED
  BY <1>2, <1>3, <1>4
  DEF Next, vars, StoreBundle, Commit, RemoveCurrent, Write, WriteFails, Crash, Boot, Start,
      AutoStartProgram, StartLoad, AutoStartSkipped, StartMeta, StartDevices, Stop

(* Store, files, starts and the engine have their types in every reachable *)
(* state; above all, metadata in use was written whole, and code that is   *)
(* started was (load_persisted, load_module).                              *)
THEOREM StoreTypeCorrect == Spec => []TypeOK
<1>1. Init => Flags
  BY StoreAssumption, Zenon DEF Init, Flags
<1>2. Init => Data
  BY StoreAssumption
  DEF Init, Data, Files, Loaded, Missing, Torn, Deploys, NoProgram, NotDeployed,
      NoStart, NoEngine
<1>3. Init => Medium
  BY StoreAssumption DEF Init, Medium, Loaded, Missing, Torn
<1>4. Flags /\ Data /\ Medium => TypeOK
  BY DEF Flags, Data, Medium, TypeOK
<1> QED
  BY <1>1, <1>2, <1>3, <1>4, FlagsNext, DataNext, MediumNext, PTL DEF Spec

=============================================================================
