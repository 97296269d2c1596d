-------------------------------- MODULE Qbt ---------------------------------
(***************************************************************************)
(* The qBittorrent application (qbt/qbt.go, qbt/configure.go, api/qbt.go): *)
(* its configuration lives in qBittorrent.conf, in the systemd unit, in    *)
(* the row qbt_config and in the service that runs; Configure brings them  *)
(* together in several steps, any of which may fail, while other requests  *)
(* are served and volumes come and go.  Both files are written in place:   *)
(* os.WriteFile empties them first.                                        *)
(*                                                                         *)
(* apt, the service manager, the service and the volumes (see Volumes) are *)
(* external.  The three directories of a configuration are one volume; the *)
(* request that brought a configuration stands for all its data.  The      *)
(* browser of directories (Browse, Mkdir) changes none of this.            *)
(***************************************************************************)
EXTENDS FiniteSets

CONSTANTS
  Requests,    \* the requests; each is served once
  VolumeNames,
  None,
  Empty,       \* the content of a file that was opened to be written
  Torn         \* a part of a content, or a mixture of two

ASSUME QbtAssumption ==
  /\ None \notin Requests \cup VolumeNames
  /\ {Empty, Torn} \cap (Requests \cup {None}) = {}

VARIABLES
  volumes,  \* the mounted volumes
  conf,     \* qBittorrent.conf: a configuration, Empty, Torn or None
  unit,     \* the unit: the configuration whose port it has, Empty, Torn or None
  enabled,  \* TRUE: the unit starts at boot
  service,  \* the content of qBittorrent.conf the service runs with, or None
  row,      \* the configuration in qbt_config, None while configured = 0
  pc,       \* per request: where it is, or its answer
  job,      \* per request: its operation and the volume of its directories
  last,     \* history: the last request to configure that touched a file
  mishap    \* history: two requests overlapped, or the service could not be stopped

systemVars == <<volumes, conf, unit, enabled, service, row>>
vars == <<systemVars, pc, job, last, mishap>>

Jobs == [op: {"configure"}, volume: VolumeNames] \cup [op: {"start", "stop"}, volume: {None}]
NoJob == [op |-> "none", volume |-> None]
Steps == {"validate", "install", "dirs", "halt", "openConf", "conf", "openUnit", "unit",
          "launch", "row", "start", "stop"}
Answers == {"ok", "error", "killed"}
Active == {r \in Requests : pc[r] \in Steps}

At(r, step) == pc[r] = step
Goto(r, step) == pc' = [pc EXCEPT ![r] = step] /\ UNCHANGED <<job, last, mishap>>
\* A step fails without effect and its error ends the request.
Fail(r) == Goto(r, "error") /\ UNCHANGED systemVars

-----------------------------------------------------------------------------
FirstStep == [configure |-> "validate", start |-> "start", stop |-> "stop"]

Begin(r, j) ==
  /\ pc[r] = "new"
  /\ mishap' = (mishap \/ Active # {})
  /\ job' = [job EXCEPT ![r] = j]
  /\ pc' = [pc EXCEPT ![r] = FirstStep[j.op]]
  /\ UNCHANGED <<systemVars, last>>

\* resolveInVolumes: the directories are in a mounted volume.
InVolumes(r) == job[r].volume \in volumes

Validate(r) ==
  /\ At(r, "validate")
  /\ Goto(r, IF InVolumes(r) THEN "install" ELSE "error")
  /\ UNCHANGED systemVars

\* EnsureInstalled and EnsureUserGroup.
EnsureInstalled(r) ==
  /\ At(r, "install")
  /\ (Goto(r, "dirs") /\ UNCHANGED systemVars) \/ Fail(r)

\* applyDir: mkdir -p of the three directories, mounted or not.
ApplyDirs(r) ==
  /\ At(r, "dirs")
  /\ (Goto(r, "halt") /\ UNCHANGED systemVars) \/ Fail(r)

\* Mutant: the service is not stopped before its file is written.
HaltSkipped(r) ==
  /\ At(r, "halt")
  /\ Goto(r, "openConf")
  /\ UNCHANGED systemVars

\* systemctl stop, errors ignored.
Halt(r) ==
  /\ At(r, "halt")
  /\ \/ unit # None /\ service' = None /\ UNCHANGED mishap
     \/ UNCHANGED service /\ mishap' = (mishap \/ service # None)
  /\ pc' = [pc EXCEPT ![r] = "openConf"]
  /\ UNCHANGED <<volumes, conf, unit, enabled, row, job, last>>

\* os.WriteFile opens with O_TRUNC, and then writes from the start.  What another
\* request wrote in between may show behind what is written.
Written(content, r) == IF content = Empty THEN {r} ELSE {r, Torn}

OpenConfig(r) ==
  /\ At(r, "openConf")
  /\ \/ /\ conf' = Empty
        /\ last' = r
        /\ pc' = [pc EXCEPT ![r] = "conf"]
        /\ UNCHANGED <<volumes, unit, enabled, service, row, job, mishap>>
     \/ Fail(r)

WriteConfig(r) ==
  /\ At(r, "conf")
  /\ \/ conf' \in Written(conf, r) /\ Goto(r, "openUnit")
     \/ conf' \in {conf, Torn} /\ Goto(r, "error")
  /\ UNCHANGED <<volumes, unit, enabled, service, row>>

OpenUnit(r) ==
  /\ At(r, "openUnit")
  /\ \/ unit' = Empty /\ Goto(r, "unit") /\ UNCHANGED <<volumes, conf, enabled, service, row>>
     \/ Fail(r)

\* Mutant: the row is written before the service is launched.
InstallUnitAndSave(r) ==
  /\ At(r, "unit")
  /\ unit' = r
  /\ row' = r
  /\ Goto(r, "launch")
  /\ UNCHANGED <<volumes, conf, enabled, service>>

InstallUnit(r) ==
  /\ At(r, "unit")
  /\ \/ unit' \in Written(unit, r) /\ Goto(r, "launch")
     \/ unit' \in {unit, Torn} /\ Goto(r, "error")
  /\ UNCHANGED <<volumes, conf, enabled, service, row>>

\* systemctl enable --now: a service that runs goes on with what it read.
EnableNow ==
  /\ unit # None
  /\ enabled' = TRUE
  /\ service' = IF service = None THEN conf ELSE service
  /\ UNCHANGED <<volumes, conf, unit, row>>
\* It fails: the unit may have been enabled and the service not be up.
EnableFails ==
  /\ enabled' \in {enabled, enabled \/ unit # None}
  /\ UNCHANGED <<volumes, conf, unit, service, row>>

Launch(r) ==
  /\ At(r, "launch")
  /\ (EnableNow /\ Goto(r, "row")) \/ (EnableFails /\ Goto(r, "error"))

\* UPDATE qbt_config SET configured=1, ...
SaveRow(r) ==
  /\ At(r, "row")
  /\ \/ row' = r /\ Goto(r, "ok") /\ UNCHANGED <<volumes, conf, unit, enabled, service>>
     \/ Fail(r)

\* The requests start and stop do not ask whether the application is configured.

Start(r) ==
  /\ At(r, "start")
  /\ (EnableNow /\ Goto(r, "ok")) \/ (EnableFails /\ Goto(r, "error"))

Stop(r) ==
  /\ At(r, "stop")
  /\ \/ /\ unit # None
        /\ service' = None
        /\ Goto(r, "ok")
        /\ UNCHANGED <<volumes, conf, unit, enabled, row>>
     \/ Goto(r, "error") /\ UNCHANGED systemVars

-----------------------------------------------------------------------------
(* Around the application                                                  *)

\* A volume is mounted, or unmounted: its mutations do not call Reconcile.
Remount(S) ==
  /\ S # volumes
  /\ volumes' = S
  /\ UNCHANGED <<conf, unit, enabled, service, row, pc, job, last, mishap>>

Kill == pc' = [r \in Requests |-> IF r \in Active THEN "killed" ELSE pc[r]]

\* nasd dies and is started again.
Crash ==
  /\ Active # {}
  /\ Kill
  /\ UNCHANGED <<systemVars, job, last, mishap>>

\* The machine restarts; the volumes that are found are mounted.  A unit that is
\* not whole may not start.
Reboot ==
  /\ \E S \in SUBSET volumes : volumes' = S
  /\ service' \in IF ~enabled THEN {None} ELSE IF unit \in Requests THEN {conf} ELSE {conf, None}
  /\ Kill
  /\ UNCHANGED <<conf, unit, enabled, row, job, last, mishap>>

Continue(r) ==
  \/ Validate(r) \/ EnsureInstalled(r) \/ ApplyDirs(r) \/ Halt(r) \/ OpenConfig(r)
  \/ WriteConfig(r) \/ OpenUnit(r) \/ InstallUnit(r) \/ Launch(r) \/ SaveRow(r)
  \/ Start(r) \/ Stop(r)

Init ==
  /\ volumes = {}
  /\ conf = None
  /\ unit = None
  /\ enabled = FALSE
  /\ service = None
  /\ row = None
  /\ pc = [r \in Requests |-> "new"]
  /\ job = [r \in Requests |-> NoJob]
  /\ last = None
  /\ mishap = FALSE

Next ==
  \/ \E r \in Requests : (\E j \in Jobs : Begin(r, j)) \/ Continue(r)
  \/ \E S \in SUBSET VolumeNames : Remount(S)
  \/ Crash \/ Reboot

Spec == Init /\ [][Next]_vars
\* A handler runs to its end.
FairSpec == Spec /\ \A r \in Requests : WF_vars(Continue(r))

-----------------------------------------------------------------------------
(* Properties                                                              *)

Contents == Requests \cup {None, Empty, Torn}

TypeOK ==
  /\ volumes \subseteq VolumeNames
  /\ conf \in Contents
  /\ unit \in Contents
  /\ enabled \in BOOLEAN
  /\ service \in Contents
  /\ row \in Requests \cup {None}
  /\ pc \in [Requests -> {"new"} \cup Steps \cup Answers]
  /\ job \in [Requests -> Jobs \cup {NoJob}]
  /\ last \in Requests \cup {None}
  /\ mishap \in BOOLEAN

\* configure.go:333-334: Configure can be repeated until it succeeds: when the last
\* request that touched the files was answered with 200, the file, the unit, the
\* row and the service agree, whatever failed, crashed or restarted before it or
\* was refused since - unless requests overlapped or the old service could not
\* be stopped, which is ignored.
ConfiguredIsInForce ==
  (Active = {} /\ ~mishap /\ last # None /\ pc[last] = "ok") =>
    /\ conf = last /\ unit = last /\ row = last
    /\ service \in {last, None}

\* api/qbt.go configure: a row that says configured comes with a file and a unit
\* that is enabled, so that the service the interface offers can start.  They are
\* not whole only while they are being written, or when the last request that
\* wrote them failed or was killed (the row then still says configured, from the
\* request before), or requests overlapped.
ConfiguredCanStart ==
  row # None =>
    /\ conf # None /\ unit # None /\ enabled
    /\ \/ {conf, unit} \subseteq Requests
       \/ mishap \/ pc[last] \in {"conf", "openUnit", "unit", "error", "killed"}

\* qbt.go:72-74: when there are no volumes any more, the service is stopped.
GatedByVolumes ==
  (volumes = {} /\ service # None) ~> (volumes # {} \/ service = None)
=============================================================================
