---------------------------- MODULE ProgramStore ----------------------------
(***************************************************************************)
(* The deployed program across crashes and reboots                         *)
(* (crates/st-target-agent/src/program_store.rs): what ProgramStore holds  *)
(* in memory, the files it writes one after the other, the load at boot,   *)
(* and the two ways a program is started from it: the API's start handler  *)
(* (api/program.rs) and the auto-start at boot (main.rs).                  *)
(*                                                                         *)
(* Deployments are numbered; a file holds the number of the deployment     *)
(* that wrote it.  A bundle is abstracted to whether it carries sources    *)
(* (development) or not (release), and to the protocol of its device       *)
(* profiles.  The project YAML (cycle time) and bundle validation, which   *)
(* fails before anything is changed, are left out.                         *)
(***************************************************************************)
EXTENDS Naturals

CONSTANTS MaxDeploys,  \* bound on the number of deployments
          Protocols,   \* protocols of device profiles; "none" for no profile
          AutoStart    \* runtime.auto_start of the agent's configuration

ASSUME StoreAssumption ==
  /\ MaxDeploys \in Nat
  /\ Protocols \subseteq {"none", "simulated", "upp", "other"}
  /\ AutoStart \in BOOLEAN

VARIABLES
  disk,    \* what current_source, current_profiles, .bytecode and .meta.json
           \* contain for whoever reads them
  platter, \* what of the bytecode and the metadata was written back to the
           \* medium and is left if the power fails now
  mem,     \* ProgramStore.current
  last,    \* number of the last deployment
  kind,    \* what each deployed bundle carries
  writing, \* the file store_bundle writes next, "commit", or "no"
  up,      \* the agent process is alive
  boot,    \* the auto-start task has not yet looked at the store
  starter, \* the start under way: who, how far, what was read
  engine,  \* what the runtime was started with
  acked,   \* history: last deployment acknowledged and not removed (or 0), and
           \* whether since then no other began and no power failure came
           \* before its two files were written back
  refused, \* history: the disk refused a write
  lost     \* history: a power failure came before code or metadata was written
           \* back, and no deployment was acknowledged since

vars == <<disk, platter, mem, last, kind, writing, up, boot, starter, engine,
          acked, refused, lost>>

Missing == 0
Torn == MaxDeploys + 1            \* a file whose write was cut short
Files == {"source", "profiles", "bytecode", "meta"}
Loaded == {"bytecode", "meta"}    \* the files a reboot loads the program from
Deploys == 1 .. MaxDeploys
Kinds == [sources : BOOLEAN, protocol : Protocols]
NotDeployed == [sources |-> FALSE, protocol |-> "none"]
NoProgram == [code |-> Missing, meta |-> Missing, source |-> FALSE]
NoStart == [by |-> "nobody", at |-> "idle", code |-> Missing, meta |-> Missing]
NoEngine == [by |-> "nobody", code |-> Missing, meta |-> Missing,
             profiles |-> Missing, devices |-> "none"]

TypeOK ==
  /\ disk \in [Files -> 0 .. Torn]
  /\ platter \in [Loaded -> 0 .. Torn]
  /\ mem \in [code : 0 .. Torn, meta : 0 .. MaxDeploys, source : BOOLEAN]
  /\ last \in 0 .. MaxDeploys
  /\ kind \in [Deploys -> Kinds \cup {NotDeployed}]
  /\ writing \in Files \cup {"commit", "no"}
  /\ up \in BOOLEAN /\ boot \in BOOLEAN
  /\ starter \in [by : {"nobody", "api", "auto"}, at : {"idle", "meta", "devices"},
                  code : 0 .. MaxDeploys, meta : 0 .. MaxDeploys]
  /\ engine \in [by : {"nobody", "api", "auto"}, code : 0 .. MaxDeploys,
                 meta : 0 .. MaxDeploys, profiles : 0 .. Torn,
                 devices : {"none", "simulated", "upp"}]
  /\ acked \in [deploy : 0 .. MaxDeploys, intact : BOOLEAN]
  /\ refused \in BOOLEAN /\ lost \in BOOLEAN

Init ==
  /\ disk = [f \in Files |-> Missing]
  /\ platter = [f \in Loaded |-> Missing]
  /\ mem = NoProgram
  /\ last = 0
  /\ kind = [d \in Deploys |-> NotDeployed]
  /\ writing = "no"
  /\ up = TRUE /\ boot = AutoStart
  /\ starter = NoStart
  /\ engine = NoEngine
  /\ acked = [deploy |-> 0, intact |-> TRUE]
  /\ refused = FALSE /\ lost = FALSE

-----------------------------------------------------------------------------
(* store_bundle.  The write lock is held throughout, so no other request   *)
(* enters the store; files are read without the lock, and a crash may come *)
(* between any two writes.  No file is ever synced: what fs::write leaves  *)
(* is in the system's cache, and is written back later, in any order.      *)

Locked == writing # "no"

StoreBundle ==
  /\ up /\ ~Locked
  /\ last < MaxDeploys
  /\ last' = last + 1
  /\ \E k \in Kinds : kind' = [kind EXCEPT ![last + 1] = k]
  /\ writing' = "source"
  /\ acked' = [acked EXCEPT !.intact = FALSE]
  /\ UNCHANGED <<disk, platter, mem, up, boot, starter, engine, refused, lost>>

\* mutant of NextFile: the metadata is written before the bytecode
NextFileMetaFirst(f) ==
  CASE f = "source"   -> "profiles"
    [] f = "profiles" -> "meta"
    [] f = "meta"     -> "bytecode"
    [] f = "bytecode" -> "commit"

\* mutant of NextFile: the metadata is not persisted
NextFileWithoutMeta(f) ==
  CASE f = "source"   -> "profiles"
    [] f = "profiles" -> "bytecode"
    [] f = "bytecode" -> "commit"

\* order of the writes
NextFile(f) ==
  CASE f = "source"   -> "profiles"
    [] f = "profiles" -> "bytecode"
    [] f = "bytecode" -> "meta"
    [] f = "meta"     -> "commit"

\* what a completed write leaves in the file; a bundle without sources
\* leaves the old source directory, one without profiles removes theirs
Content(f) ==
  CASE f = "source"   -> IF kind[last].sources THEN last ELSE disk[f]
    [] f = "profiles" -> IF kind[last].protocol = "none" THEN Missing ELSE last
    [] OTHER -> last

Write(f) ==
  /\ writing = f
  /\ disk' = [disk EXCEPT ![f] = Content(f)]
  /\ writing' = NextFile(f)
  /\ UNCHANGED <<platter, mem, last, kind, up, boot, starter, engine, acked, refused, lost>>

\* a full disk: the write fails, and the file is as it was or truncated.
\* Only a failure to write the sources makes store_bundle return an error.
WriteFails(f) ==
  /\ writing = f
  /\ f = "source" => kind[last].sources
  /\ \E c \in {disk[f], Torn} : disk' = [disk EXCEPT ![f] = c]
  /\ writing' = IF f = "source" THEN "no" ELSE NextFile(f)
  /\ refused' = TRUE
  /\ UNCHANGED <<platter, mem, last, kind, up, boot, starter, engine, acked, lost>>

Commit ==
  /\ writing = "commit"
  /\ mem' = [code |-> last, meta |-> last, source |-> kind[last].sources]
  /\ acked' = [deploy |-> last, intact |-> TRUE]
  /\ lost' = FALSE
  /\ writing' = "no"
  /\ UNCHANGED <<disk, platter, last, kind, up, boot, starter, engine, refused>>

RemoveCurrent ==
  /\ up /\ ~Locked
  /\ mem # NoProgram
  /\ mem' = NoProgram
  /\ acked' = [acked EXCEPT !.deploy = 0]
  /\ UNCHANGED <<disk, platter, last, kind, writing, up, boot, starter, engine, refused, lost>>

\* the agent is gone, and with it all it held in memory
AgentGone ==
  /\ up' = FALSE
  /\ boot' = FALSE
  /\ mem' = NoProgram
  /\ writing' = "no"
  /\ starter' = NoStart
  /\ engine' = NoEngine

\* the process goes down, perhaps in the middle of a write; what it has
\* written stays in the system's cache
Crash ==
  /\ up
  /\ \/ UNCHANGED disk
     \/ writing \in Files /\ disk' = [disk EXCEPT ![writing] = Torn]
  /\ AgentGone
  /\ UNCHANGED <<platter, last, kind, acked, refused, lost>>

\* the system writes a file back
WriteBack(f) ==
  /\ platter[f] # disk[f]
  /\ platter' = [platter EXCEPT ![f] = disk[f]]
  /\ UNCHANGED <<disk, mem, last, kind, writing, up, boot, starter, engine,
                 acked, refused, lost>>

\* what a power failure may leave of a file: if it was not written back, or
\* is being written, the old contents, the new, or part of them.  What of the
\* two directories is written back is not tracked: either may lose files.
Leftover(f) ==
  IF f \in Loaded
  THEN {platter[f], disk[f]} \cup
       IF platter[f] # disk[f] \/ writing = f THEN {Torn} ELSE {}
  ELSE {disk[f], Torn}

\* the machine goes down; no file's contents depend on another's
PowerLoss ==
  /\ \E s \in Leftover("source"), p \in Leftover("profiles"),
        b \in Leftover("bytecode"), m \in Leftover("meta") :
       /\ disk' = [source |-> s, profiles |-> p, bytecode |-> b, meta |-> m]
       /\ platter' = [bytecode |-> b, meta |-> m]
  /\ LET safe == \A f \in Loaded : platter[f] = disk[f] IN
     /\ acked' = [acked EXCEPT !.intact = @ /\ safe]
     /\ lost' = (lost \/ ~safe)
  /\ AgentGone
  /\ UNCHANGED <<last, kind, refused>>

\* load_persisted: both files must be readable and the metadata must parse;
\* whatever source directory exists is taken to be the program's
LoadPersisted ==
  IF disk["bytecode"] = Missing \/ disk["meta"] \in {Missing, Torn}
  THEN NoProgram
  ELSE [code |-> disk["bytecode"], meta |-> disk["meta"],
        source |-> disk["source"] # Missing]

Boot ==
  /\ ~up
  /\ up' = TRUE
  /\ boot' = AutoStart
  /\ mem' = LoadPersisted
  /\ UNCHANGED <<disk, platter, last, kind, writing, starter, engine, acked, refused, lost>>

-----------------------------------------------------------------------------
(* Starting a program: the API's start and auto_start_program take the     *)
(* same steps but build the devices differently.                           *)

\* start: load_module under the lock; a torn bytecode does not deserialize
StartLoad(who) ==
  /\ up /\ ~Locked
  /\ starter = NoStart
  /\ mem.code \in Deploys
  /\ starter' = [by |-> who, at |-> "meta", code |-> mem.code, meta |-> Missing]
  /\ UNCHANGED <<disk, platter, mem, last, kind, writing, up, engine, acked, refused, lost>>

Start == StartLoad("api") /\ UNCHANGED boot

\* 500 ms after boot, once
AutoStartProgram ==
  /\ boot
  /\ StartLoad("auto")
  /\ boot' = FALSE

AutoStartSkipped ==
  /\ boot /\ ~Locked
  /\ mem.code \notin Deploys
  /\ boot' = FALSE
  /\ UNCHANGED <<disk, platter, mem, last, kind, writing, up, starter, engine,
                 acked, refused, lost>>

\* current_program under the lock, taken a second time
StartMeta ==
  /\ starter.at = "meta"
  /\ ~Locked
  /\ starter' = IF mem = NoProgram THEN NoStart
                ELSE [starter EXCEPT !.at = "devices", !.meta = mem.meta]
  /\ UNCHANGED <<disk, platter, mem, last, kind, writing, up, boot, engine,
                 acked, refused, lost>>

\* build_native_fb_registry (API) dispatches on the profile's protocol,
\* build_registry (auto-start) simulates every device
Devices(who, p) ==
  CASE p \in {Missing, Torn} -> "none"
    [] who = "auto" -> "simulated"
    [] kind[p].protocol = "other" -> "none"
    [] OTHER -> kind[p].protocol

\* the profiles are read without the lock; then RuntimeManager::start
StartDevices ==
  /\ starter.at = "devices"
  /\ engine' =
       IF engine # NoEngine THEN engine
       ELSE [by |-> starter.by, code |-> starter.code, meta |-> starter.meta,
             profiles |-> disk["profiles"],
             devices |-> Devices(starter.by, disk["profiles"])]
  /\ starter' = NoStart
  /\ UNCHANGED <<disk, platter, mem, last, kind, writing, up, boot, acked, refused, lost>>

Stop ==
  /\ engine # NoEngine
  /\ engine' = NoEngine
  /\ UNCHANGED <<disk, platter, mem, last, kind, writing, up, boot, starter,
                 acked, refused, lost>>

Next ==
  \/ StoreBundle \/ Commit \/ RemoveCurrent
  \/ \E f \in Files : Write(f) \/ WriteFails(f)
  \/ \E f \in Loaded : WriteBack(f)
  \/ Crash \/ PowerLoss \/ Boot
  \/ Start \/ AutoStartProgram \/ AutoStartSkipped \/ StartMeta \/ StartDevices \/ Stop

Spec == Init /\ [][Next]_vars

-----------------------------------------------------------------------------
(* Properties *)

(* An acknowledged deployment is what a reboot brings back, however often  *)
(* the process crashes, until the next deployment begins: store_bundle     *)
(* answers only after both files are written ("Persist bytecode and        *)
(* metadata to disk for reboot survival").  Nothing is synced, so when the *)
(* machine loses its power this holds from the moment the system has       *)
(* written both files back; before that the deployment may be gone         *)
(* although it was acknowledged.                                           *)
AckedSurvivesCrash ==
  [][Boot /\ acked.deploy # 0 /\ acked.intact /\ ~refused
       => mem'.code = acked.deploy /\ mem'.meta = acked.deploy]_vars

(* A crash between the two writes may leave new bytecode under the old     *)
(* metadata, but never the reverse: an agent that reports a deployment     *)
(* after a reboot, however many deployments were cut short, does not run   *)
(* bytecode older than it reports, unless the disk itself refused a write. *)
(* The order of the writes is an order for processes only: a power failure *)
(* that comes before bytecode and metadata are both written back may keep  *)
(* the metadata and lose the bytecode, until the next deployment is done.  *)
CodeNotBehindMeta ==
  (mem # NoProgram /\ ~refused /\ ~lost) => mem.meta <= mem.code

=============================================================================
