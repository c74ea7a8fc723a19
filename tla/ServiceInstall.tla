--------------------------- MODULE ServiceInstall ---------------------------
(***************************************************************************)
(* The systemd unit of the immediate run command service, and the commands *)
(* that install it (enable with installAsService), turn it off (disable),  *)
(* move it to another version (update) and remove it (uninstall). A        *)
(* command is a sequence of calls, of systemctl and on the unit file, each *)
(* of which may fail or be the last one before the process dies. enable    *)
(* runs in the background (run-command-shim), beside the others.           *)
(*                                                                         *)
(* The guest agent and systemd are external. Ghost variables (overlap,     *)
(* halfway, swallowed, replaced) record what happened and guard nothing.   *)
(***************************************************************************)
EXTENDS Integers, Sequences

CONSTANTS
  Versions,   \* versions of the extension
  Settings,   \* pairs: is the run command that asks for the service called
              \*   runCommandService; does AZURE_GUEST_AGENT_EXTENSION_PATH name
              \*   the old version's directory in an update
  MaxFaults   \* bound: calls that fail, deaths of processes, reboots

ASSUME ServiceInstallAssumption ==
  /\ Versions \subseteq Nat \ {0} /\ Settings \subseteq BOOLEAN \X BOOLEAN
  /\ MaxFaults \in Nat

None == 0        \* no unit file; no service runs
Torn == -1       \* the unit file is empty, which systemd takes for masked
Commands == {"enable", "disable", "update", "uninstall"}
Processes == {"background", "foreground"}

VARIABLES
  unit,                    \* the version whose directory the unit file names
  enabled,                 \* the unit is wanted by multi-user.target
  active,                  \* the version whose service runs
  dataDir,                 \* DataDir exists
  named, oldPath,          \* one of Settings
  stage, cur, target,      \* of the agent: what it did last; its version, the next
  command, version, todo,  \* per process: its command, VERSION, the calls to make
  done,       \* the command that succeeded last, if none has begun since
  faults,
  overlap,    \* ghost: two commands were at work at the same time
  halfway,    \* ghost: a command stopped between enable and start, stop and disable
  swallowed,  \* ghost: commands in which a failure was taken for a success
  replaced    \* ghost: Register removed the file of a unit that was enabled or ran

systemd == <<unit, enabled, active>>
agent == <<named, oldPath, stage, cur, target>>
process == <<command, version>>
ghosts == <<overlap, halfway, swallowed, replaced>>
vars == <<systemd, dataDir, agent, process, todo, done, faults, ghosts>>

Init ==
  /\ unit = None /\ enabled = FALSE /\ active = None
  /\ dataDir = TRUE
  /\ named \in BOOLEAN /\ oldPath \in BOOLEAN /\ <<named, oldPath>> \in Settings
  /\ stage = "installed" /\ cur \in Versions /\ target = cur
  /\ command = [p \in Processes |-> "enable"]
  /\ version = [p \in Processes |-> cur]
  /\ todo = [p \in Processes |-> <<>>]
  /\ done = "none" /\ faults = 0
  /\ overlap = FALSE /\ halfway = FALSE /\ swallowed = {} /\ replaced = FALSE

Idle(p) == todo[p] = <<>>
At(p, call) == ~Idle(p) /\ Head(todo[p]) = call
Made(p) == todo' = [todo EXCEPT ![p] = Tail(@)]
Plan(p, calls) == todo' = [todo EXCEPT ![p] = calls]

-----------------------------------------------------------------------------
(* The agent. It does not wait for enable, and starts again a command that  *)
(* failed. It updates from a version that is disabled, to any other one,    *)
(* until that succeeds; then it uninstalls the old version and installs the *)
(* new.                                                                     *)
Begin(p, c, v) ==
  /\ Idle(p)
  /\ command' = [command EXCEPT ![p] = c] /\ version' = [version EXCEPT ![p] = v]
  /\ Plan(p, <<"check">>)
  /\ done' = "none"
  /\ overlap' = (overlap \/ \E q \in Processes : ~Idle(q))
  /\ UNCHANGED <<systemd, dataDir, named, oldPath, cur, faults, halfway, swallowed, replaced>>

BeginEnable ==
  /\ stage \in {"installed", "disabled"} /\ target = cur /\ Idle("foreground")
  /\ Begin("background", "enable", cur)
  /\ stage' = "installed" /\ UNCHANGED target

BeginDisable ==
  /\ stage = "installed"
  /\ Begin("foreground", "disable", cur)
  /\ UNCHANGED <<stage, target>>

BeginUpdate(v) ==
  /\ stage = "disabled" /\ v # cur /\ target \in {cur, v}
  /\ Begin("foreground", "update", v)
  /\ target' = v /\ UNCHANGED stage

BeginUninstall ==
  /\ stage = IF target = cur THEN "disabled" ELSE "updated"
  /\ Begin("foreground", "uninstall", cur)
  /\ UNCHANGED <<stage, target>>

(* install: the data directory.                                             *)
Install(v) ==
  /\ \/ stage = "uninstalled" /\ v = target
     \/ stage = "removed"
  /\ stage' = "installed" /\ cur' = v /\ target' = v
  /\ dataDir' = TRUE
  /\ UNCHANGED <<systemd, named, oldPath, process, todo, done, faults, ghosts>>

Finish(p) ==
  /\ At(p, "end") /\ Made(p)
  /\ done' = command[p]
  /\ stage' = CASE command[p] = "enable" -> stage
                [] command[p] = "disable" -> "disabled"
                [] command[p] = "update" -> "updated"
                [] command[p] = "uninstall" ->
                     IF stage = "updated" THEN "uninstalled" ELSE "removed"
  /\ UNCHANGED <<systemd, dataDir, named, oldPath, cur, target, process, faults, ghosts>>

-----------------------------------------------------------------------------
(* The first calls of a command look at the unit and settle the others.     *)
(* IsInstalled:                                                             *)
Decide(p, call, calls) ==
  /\ At(p, call) /\ Plan(p, calls)
  /\ UNCHANGED <<systemd, dataDir, agent, process, done, faults, ghosts>>

CheckEnable(p) ==
  /\ command[p] = "enable"
  /\ Decide(p, "check", IF unit = None THEN <<"register">> ELSE <<"is-enabled">>)

(* disable looks at the service only under the name runCommandService.      *)
CheckDisable(p) ==
  /\ command[p] = "disable"
  /\ Decide(p, "check", IF named /\ unit # None THEN <<"is-enabled">> ELSE <<"end">>)

CheckUpdate(p) ==
  /\ command[p] = "update"
  /\ Decide(p, "check", IF unit = None THEN <<"end">> ELSE <<"register">>)

CheckUninstall(p) ==
  /\ command[p] = "uninstall"
  /\ Decide(p, "check", IF unit = None THEN <<"data", "end">> ELSE <<"version">>)

RegisterCalls ==
  <<"chmod", "remove", "create", "write", "daemon-reload", "enable", "start", "end">>

(* Mutant: a unit that has the version already is an error.                 *)
RegisterTwice(p) ==
  /\ unit # Torn
  /\ Decide(p, "register", IF unit = version[p] THEN <<>> ELSE RegisterCalls)

(* Register: the unit that already has the version is not looked at again.  *)
Register(p) ==
  /\ unit # Torn
  /\ Decide(p, "register", IF unit = version[p] THEN <<"end">> ELSE RegisterCalls)

(* Mutants: the service is disabled and not stopped; enabled, not started.  *)
OnlyDisabled(p) ==
  /\ unit \in Versions
  /\ Decide(p, "is-enabled",
       IF command[p] = "enable"
         THEN IF enabled THEN <<"end">> ELSE <<"enable", "start", "end">>
         ELSE IF enabled THEN <<"disable", "end">> ELSE <<"end">>)
OnlyEnabled(p) ==
  /\ unit \in Versions
  /\ Decide(p, "is-enabled",
       IF command[p] = "enable"
         THEN IF enabled THEN <<"end">> ELSE <<"enable", "end">>
         ELSE IF enabled THEN <<"stop", "disable", "end">> ELSE <<"end">>)

(* IsUnitEnabled: neither "enabled" nor "disabled" is an error.             *)
IsEnabled(p) ==
  /\ unit \in Versions
  /\ Decide(p, "is-enabled",
       IF command[p] = "enable"
         THEN IF enabled THEN <<"end">> ELSE <<"enable", "start", "end">>
         ELSE IF enabled THEN <<"stop", "disable", "end">> ELSE <<"end">>)

(* Mutants: any version deregisters the service; its file is left.          *)
AnyVersion(p) ==
  /\ unit \in Versions
  /\ Decide(p, "version", <<"stop", "disable", "remove", "data", "end">>)
NotRemoved(p) ==
  /\ unit \in Versions
  /\ Decide(p, "version",
       IF unit = version[p] THEN <<"stop", "disable", "data", "end">>
                            ELSE <<"data", "end">>)

(* DeRegister: a service of another version stays as it is.                 *)
DeRegister(p) ==
  /\ unit \in Versions
  /\ Decide(p, "version",
       IF unit = version[p] THEN <<"stop", "disable", "remove", "data", "end">>
                            ELSE <<"data", "end">>)

-----------------------------------------------------------------------------
(* The calls. systemctl enable also reloads the manager, so that a service  *)
(* is started from the file as it is; one that runs is not started again.   *)
Call(p, call) == At(p, call) /\ Made(p) /\ UNCHANGED <<agent, process, done, faults>>

Prepare(p) ==
  /\ Call(p, "chmod") \/ Call(p, "daemon-reload")
  /\ UNCHANGED <<systemd, dataDir, ghosts>>

RemoveUnit(p) ==
  /\ Call(p, "remove")
  /\ command[p] = "uninstall" => unit # None
  /\ unit' = None
  /\ replaced' = (replaced \/ (command[p] # "uninstall" /\ (enabled \/ active # None)))
  /\ UNCHANGED <<enabled, active, dataDir, overlap, halfway, swallowed>>

CreateUnit(p) ==
  /\ Call(p, "create")
  /\ unit' = Torn
  /\ UNCHANGED <<enabled, active, dataDir, ghosts>>

(* Mutant: the unit of the version that is installed is written again.      *)
WriteInstalled(p) ==
  /\ Call(p, "write")
  /\ unit' = cur
  /\ UNCHANGED <<enabled, active, dataDir, ghosts>>

(* The unit names the directory of AZURE_GUEST_AGENT_EXTENSION_PATH.        *)
Directory(p) == IF command[p] = "update" /\ oldPath THEN cur ELSE version[p]

WriteUnit(p) ==
  /\ Call(p, "write")
  /\ unit' = Directory(p)
  /\ UNCHANGED <<enabled, active, dataDir, ghosts>>

EnableUnit(p) ==
  /\ Call(p, "enable") /\ unit \in Versions
  /\ enabled' = TRUE
  /\ UNCHANGED <<unit, active, dataDir, ghosts>>

(* Mutant: the unit is started whatever its file holds.                     *)
StartAny(p) ==
  /\ Call(p, "start")
  /\ active' = (IF active = None THEN unit ELSE active)
  /\ halfway' = FALSE
  /\ UNCHANGED <<unit, enabled, dataDir, overlap, swallowed, replaced>>

StartUnit(p) ==
  /\ Call(p, "start") /\ unit \in Versions
  /\ active' = (IF active = None THEN unit ELSE active)
  /\ halfway' = FALSE
  /\ UNCHANGED <<unit, enabled, dataDir, overlap, swallowed, replaced>>

StopUnit(p) ==
  /\ Call(p, "stop")
  /\ active' = None
  /\ UNCHANGED <<unit, enabled, dataDir, ghosts>>

DisableUnit(p) ==
  /\ Call(p, "disable") /\ unit # None
  /\ enabled' = FALSE /\ halfway' = FALSE
  /\ UNCHANGED <<unit, active, dataDir, overlap, swallowed, replaced>>

RemoveData(p) ==
  /\ Call(p, "data")
  /\ dataDir' = FALSE
  /\ UNCHANGED <<systemd, ghosts>>

-----------------------------------------------------------------------------
(* A call fails, by a fault or because of the unit file. The command ends   *)
(* there; of uninstall only the service's part, without an error: nil is    *)
(* wrapped. enable goes on to register what it could not look for.          *)
Impossible(p) ==
  \/ At(p, "register") /\ unit = Torn
  \/ (At(p, "is-enabled") \/ At(p, "version")) /\ unit \notin Versions
  \/ (At(p, "enable") \/ At(p, "start")) /\ unit \notin Versions
  \/ At(p, "disable") /\ unit = None
  \/ At(p, "remove") /\ command[p] = "uninstall" /\ unit = None

DeRegistering(p) ==
  command[p] = "uninstall" /\ \E c \in {"version", "stop", "disable", "remove"} : At(p, c)

CannotLook(p) == command[p] = "enable" /\ At(p, "check")

Fail(p) ==
  /\ ~Idle(p) /\ ~At(p, "end")
  /\ \/ Impossible(p) /\ UNCHANGED faults
     \/ faults < MaxFaults /\ faults' = faults + 1
  /\ Plan(p, IF DeRegistering(p) THEN <<"data", "end">>
             ELSE IF CannotLook(p) THEN <<"register">> ELSE <<>>)
  /\ swallowed' = IF DeRegistering(p) \/ CannotLook(p)
                    THEN swallowed \cup {command[p]} ELSE swallowed
  /\ halfway' = (halfway \/ At(p, "start") \/ At(p, "disable"))
  /\ UNCHANGED <<systemd, dataDir, agent, process, done, overlap, replaced>>

(* A process dies.                                                          *)
Die(p) ==
  /\ ~Idle(p) /\ faults < MaxFaults /\ faults' = faults + 1
  /\ Plan(p, <<>>)
  /\ halfway' = (halfway \/ At(p, "start") \/ At(p, "disable"))
  /\ UNCHANGED <<systemd, dataDir, agent, process, done, overlap, swallowed, replaced>>

(* The machine restarts, and starts what is enabled.                        *)
Reboot ==
  /\ faults < MaxFaults /\ faults' = faults + 1
  /\ todo' = [p \in Processes |-> <<>>]
  /\ active' = IF enabled /\ unit \in Versions THEN unit ELSE None
  /\ halfway' = FALSE
  /\ UNCHANGED <<unit, enabled, dataDir, agent, process, done, overlap, swallowed, replaced>>

Step(p) ==
  \/ Finish(p)
  \/ CheckEnable(p) \/ CheckDisable(p) \/ CheckUpdate(p) \/ CheckUninstall(p)
  \/ Register(p) \/ IsEnabled(p) \/ DeRegister(p)
  \/ Prepare(p) \/ RemoveUnit(p) \/ CreateUnit(p) \/ WriteUnit(p) \/ EnableUnit(p)
  \/ StartUnit(p) \/ StopUnit(p) \/ DisableUnit(p) \/ RemoveData(p)
  \/ Fail(p) \/ Die(p)

Next ==
  \/ BeginEnable \/ BeginDisable \/ BeginUninstall
  \/ \E v \in Versions : BeginUpdate(v) \/ Install(v)
  \/ \E p \in Processes : Step(p)
  \/ Reboot

Spec == Init /\ [][Next]_vars

(* Processes are scheduled; the agent tries again an update that failed     *)
(* ("WALA will try us again on the next goal state", cmds.go:100).          *)
Fairness ==
  /\ \A p \in Processes : WF_vars(Step(p))
  /\ \A v \in Versions : WF_vars(target = v /\ BeginUpdate(v))

FairSpec == Spec /\ Fairness

-----------------------------------------------------------------------------
Calls == {"check", "register", "is-enabled", "version", "chmod", "remove", "create",
          "write", "daemon-reload", "enable", "start", "stop", "disable", "data", "end"}

(* Every variable has its type.                                             *)
TypeOK ==
  /\ unit \in Versions \cup {None, Torn} /\ active \in Versions \cup {None}
  /\ enabled \in BOOLEAN /\ dataDir \in BOOLEAN
  /\ named \in BOOLEAN /\ oldPath \in BOOLEAN
  /\ stage \in {"installed", "disabled", "updated", "uninstalled", "removed"}
  /\ cur \in Versions /\ target \in Versions
  /\ command \in [Processes -> Commands] /\ version \in [Processes -> Versions]
  /\ todo \in [Processes -> Seq(Calls)]
  /\ done \in Commands \cup {"none"} /\ faults \in Nat
  /\ overlap \in BOOLEAN /\ halfway \in BOOLEAN /\ swallowed \subseteq Commands
  /\ replaced \in BOOLEAN

(* The uninstall of a version never stops, disables or removes the service  *)
(* of another one, whatever failed before it, and also when commands        *)
(* overlap, unless the enable in the background is (or was the last one) of *)
(* another version: that could write its unit after the check               *)
(* (servicehandler.go:107-141).                                             *)
UninstallSpares ==
  [][command["foreground"] = "uninstall" /\ ~Idle("foreground")
       /\ UNCHANGED <<faults, todo["background"]>>
       /\ (~overlap \/ version["background"] = version["foreground"])
       /\ unit \in Versions \ {version["foreground"]}
       => UNCHANGED systemd]_vars

(* Register replaces the unit of a service that runs, or is enabled, and    *)
(* does not start it again (replaced): so in every update of a service that *)
(* disable left on, because its run command is not runCommandService        *)
(* (cmds.go:120), when a failed uninstall left one and enable could not     *)
(* look for it, and when an update that named the old directory is tried    *)
(* again. What the properties below say of the service excludes that, and   *)
(* commands at work at the same time (overlap).                             *)

(* When enable with installAsService has succeeded the unit is that of its  *)
(* version and will be started with the machine, and the service runs: if   *)
(* Register replaced no service and no commands overlapped; if no uninstall *)
(* failed and left the unit behind, and no enable failed to look for it     *)
(* (swallowed, immediatecmds.go:87-102); and but for the service when a     *)
(* command left the unit enabled and the service off (halfway): to enable   *)
(* an enabled unit is to do nothing (serviceinstall.go:61-65).              *)
EnableLasts ==
  done = "enable" /\ ~overlap /\ swallowed = {} /\ ~replaced =>
    unit = cur /\ enabled /\ (active = cur \/ halfway)

(* After disable under the name runCommandService nothing runs and nothing  *)
(* will be started with the machine, although the service is only stopped   *)
(* when its unit is found and enabled (immediatecmds.go:43-73): if Register *)
(* replaced no service before and no commands overlapped. Under another     *)
(* name disable does not look at the service.                               *)
DisableStops ==
  done = "disable" /\ named /\ ~overlap /\ ~replaced => active = None /\ ~enabled

(* After the update no service of the old version runs, and no unit of it   *)
(* is left (immediatecmds.go:17-39, serviceinstall.go:48-66): if Register   *)
(* replaced no service, no commands overlapped and the environment does not *)
(* name the old version's directory (serviceinstall.go:233), which is then  *)
(* written into the unit again. A service that was on under another name    *)
(* than runCommandService is replaced, and goes on in the old version.      *)
UpdateTakesOver ==
  done = "update" /\ ~oldPath /\ ~overlap /\ ~replaced =>
    active \in {None, target} /\ unit \in {None, target}

(* When the agent has removed the extension nothing of the service is left: *)
(* no unit, and nothing that runs or is wanted without a unit file by which *)
(* a later command would find it, whatever the name of the run command: if  *)
(* Register replaced no service, no commands overlapped, and no uninstall   *)
(* failed and reported success (immediatecmds.go:87-92).                    *)
NothingLeft ==
  stage = "removed" /\ ~overlap /\ ~replaced /\ "uninstall" \notin swallowed =>
    unit = None /\ ~enabled /\ active = None

(* An update that the agent tries again gets done, whatever calls failed    *)
(* before; only a unit file that was cut off while it was written, which no *)
(* command repairs, is in its way for good (serviceinstall.go:48-66).       *)
UpdateDone ==
  stage = "disabled" /\ target # cur ~> stage # "disabled" \/ unit = Torn
=============================================================================
