------------------------ MODULE ServiceInstallProofs ------------------------
(***************************************************************************)
(* The properties of ServiceInstall, for any versions, any number of       *)
(* faults, whichever name the run command has and whichever directory the  *)
(* environment names in an update.                                         *)
(*                                                                         *)
(* Roles says which calls each command can still have to make, Agent which *)
(* command can be at work at which stage of the agent. On these rest three *)
(* statements about the unit, each for fewer histories than the one before *)
(* (Unit, Left, EnabledRight), and Spared, of the uninstall alone: whether *)
(* a service that was on has been replaced, and which failures were taken  *)
(* for a success, decide how much the unit file, what systemd has enabled  *)
(* and what it runs still have to do with each other.                      *)
(***************************************************************************)
EXTENDS ServiceInstall, TLAPS

-----------------------------------------------------------------------------
(* The call that a process is at.                                           *)
Here(p) == IF todo[p] = <<>> THEN "none" ELSE Head(todo[p])

(* What a command may have to do, for any state of the unit.                *)
Registering ==
  {<<"chmod", "remove", "create", "write", "daemon-reload", "enable", "start", "end">>,
   <<"remove", "create", "write", "daemon-reload", "enable", "start", "end">>,
   <<"create", "write", "daemon-reload", "enable", "start", "end">>,
   <<"write", "daemon-reload", "enable", "start", "end">>,
   <<"daemon-reload", "enable", "start", "end">>,
   <<"enable", "start", "end">>, <<"start", "end">>}
Common == {<<>>, <<"check">>, <<"end">>}
Enabling == Common \cup Registering \cup {<<"register">>, <<"is-enabled">>}
Disabling == Common \cup {<<"is-enabled">>, <<"stop", "disable", "end">>, <<"disable", "end">>}
Updating == Common \cup Registering \cup {<<"register">>}
Uninstalling ==
  Common \cup {<<"version">>, <<"stop", "disable", "remove", "data", "end">>,
               <<"disable", "remove", "data", "end">>, <<"remove", "data", "end">>,
               <<"data", "end">>}

Planned(p) ==
  /\ command[p] = "enable" => todo[p] \in Enabling
  /\ command[p] = "disable" => todo[p] \in Disabling
  /\ command[p] = "update" => todo[p] \in Updating
  /\ command[p] = "uninstall" => todo[p] \in Uninstalling

Roles ==
  /\ command["background"] = "enable"
  /\ command["foreground"] = "enable" => Idle("foreground")
  /\ \A p \in Processes : Planned(p)

(* The agent's commands, and what each is for. Without an overlap one is at *)
(* work at a time.                                                          *)
Agent ==
  /\ ~overlap => Idle("background") \/ Idle("foreground")
  /\ stage = "installed" => target = cur
  /\ ~overlap /\ ~Idle("background") => stage = "installed" /\ version["background"] = cur
  /\ ~Idle("foreground") =>
       /\ command["foreground"] = "disable" => stage = "installed"
       /\ command["foreground"] = "update" =>
            stage = "disabled" /\ version["foreground"] = target /\ target # cur
       /\ command["foreground"] = "uninstall" =>
            /\ \/ stage = "disabled" /\ target = cur
               \/ stage = "updated" /\ target # cur
            /\ version["foreground"] = cur
  /\ done # "none" /\ ~overlap => Idle("background") /\ Idle("foreground")
  /\ ~overlap =>
       /\ done = "enable" => stage = "installed"
       /\ done = "disable" => stage = "disabled"
       /\ done = "update" => stage = "updated"

Plain == ~overlap /\ ~replaced

Before(p) ==
  \/ Here(p) \in {"create", "write", "daemon-reload", "enable"}
  \/ Here(p) = "remove" /\ command[p] = "uninstall"

(* The unit while one command is at work, and no service was replaced: ...  *)
Runs == active # None => enabled /\ active = unit
Wanted == enabled => unit \in Versions
HalfDone ==
  enabled => active # None \/ halfway \/ \E p \in Processes : Here(p) \in {"start", "disable"}
NotYet == \A p \in Processes : Before(p) => ~enabled
Between ==
  \A p \in Processes :
    /\ Here(p) = "start" => enabled
    /\ Here(p) = "disable" => active = None
    /\ Here(p) = "daemon-reload" => unit = Directory(p)
    /\ command[p] = "update" /\ Here(p) \in {"enable", "start"} => unit = Directory(p)
    /\ command[p] = "update" /\ Here(p) = "end" => unit \in {None, version[p], Directory(p)}
    /\ command[p] = "disable" /\ named /\ Here(p) = "end" => ~enabled
LookedFor == Here("background") = "register" /\ "enable" \notin swallowed => unit = None
Stages ==
  /\ stage = "updated" => unit \in {None, target} \/ (oldPath /\ unit = cur)
  /\ done = "disable" /\ named => ~enabled
Unit == Runs /\ Wanted /\ HalfDone /\ NotYet /\ Between /\ LookedFor /\ Stages

(* ... if no uninstall failed in silence, ...                               *)
Left ==
  /\ unit \in {None, Torn, cur, target}
  /\ stage = "uninstalled" => unit \in {None, target}
  /\ stage = "removed" => unit = None
  /\ command["foreground"] = "uninstall" /\ Here("foreground") \in {"data", "end"}
       => unit \in {None, target} \ {cur}

(* ... and if no failure at all was taken for a success.                    *)
EnabledRight ==
  /\ Here("background") \in {"enable", "start", "end"} => unit = cur
  /\ Here("background") = "end" => enabled
  /\ done = "enable" => unit = cur /\ enabled

Spared ==
  command["foreground"] = "uninstall" /\ Here("foreground") \in {"stop", "disable", "remove"}
    /\ (~overlap \/ version["background"] = version["foreground"])
    => unit \in {None, Torn, version["foreground"]}

IInv ==
  /\ TypeOK /\ Roles /\ Agent /\ Spared
  /\ Plain => Unit
  /\ Plain /\ "uninstall" \notin swallowed => Left
  /\ Plain /\ swallowed = {} => EnabledRight

-----------------------------------------------------------------------------
(* The calls of the commands.                                               *)

(* What comes after each call of Register.                                  *)
LEMMA RegisteringTails ==
  ASSUME NEW s \in Registering
  PROVE  /\ s # <<>> /\ s \in Seq(Calls)
         /\ Head(s) \in {"chmod", "remove", "create", "write", "daemon-reload", "enable", "start"}
         /\ Tail(s) \in Registering \cup {<<"end">>}
         /\ Head(s) = "chmod" => Tail(s) # <<>> /\ Head(Tail(s)) = "remove"
         /\ Head(s) = "remove" => Tail(s) # <<>> /\ Head(Tail(s)) = "create"
         /\ Head(s) = "create" => Tail(s) # <<>> /\ Head(Tail(s)) = "write"
         /\ Head(s) = "write" => Tail(s) # <<>> /\ Head(Tail(s)) = "daemon-reload"
         /\ Head(s) = "daemon-reload" => Tail(s) # <<>> /\ Head(Tail(s)) = "enable"
         /\ Head(s) = "enable" => Tail(s) # <<>> /\ Head(Tail(s)) = "start"
         /\ Head(s) = "start" => Tail(s) # <<>> /\ Head(Tail(s)) = "end"
<1> DEFINE Right(x) ==
             /\ x # <<>> /\ x \in Seq(Calls)
             /\ Head(x) \in {"chmod", "remove", "create", "write", "daemon-reload", "enable", "start"}
             /\ Tail(x) \in Registering \cup {<<"end">>}
             /\ Head(x) = "chmod" => Tail(x) # <<>> /\ Head(Tail(x)) = "remove"
             /\ Head(x) = "remove" => Tail(x) # <<>> /\ Head(Tail(x)) = "create"
             /\ Head(x) = "create" => Tail(x) # <<>> /\ Head(Tail(x)) = "write"
             /\ Head(x) = "write" => Tail(x) # <<>> /\ Head(Tail(x)) = "daemon-reload"
             /\ Head(x) = "daemon-reload" => Tail(x) # <<>> /\ Head(Tail(x)) = "enable"
             /\ Head(x) = "enable" => Tail(x) # <<>> /\ Head(Tail(x)) = "start"
             /\ Head(x) = "start" => Tail(x) # <<>> /\ Head(Tail(x)) = "end"
           r1 == <<"chmod", "remove", "create", "write", "daemon-reload", "enable", "start", "end">>
           r2 == <<"remove", "create", "write", "daemon-reload", "enable", "start", "end">>
           r3 == <<"create", "write", "daemon-reload", "enable", "start", "end">>
           r4 == <<"write", "daemon-reload", "enable", "start", "end">>
           r5 == <<"daemon-reload", "enable", "start", "end">>
           r6 == <<"enable", "start", "end">>
           r7 == <<"start", "end">>
<1>1. Right(r1)
  <2>1. Tail(r1) = r2
    OBVIOUS
  <2>2. r2 \in Registering \cup {<<"end">>}
    BY DEF Registering
  <2>3. r1 \in Seq(Calls)
    BY DEF Calls
  <2>4. QED  BY <2>1, <2>2, <2>3
<1>2. Right(r2)
  <2>1. Tail(r2) = r3
    OBVIOUS
  <2>2. r3 \in Registering \cup {<<"end">>}
    BY DEF Registering
  <2>3. r2 \in Seq(Calls)
    BY DEF Calls
  <2>4. QED  BY <2>1, <2>2, <2>3
<1>3. Right(r3)
  <2>1. Tail(r3) = r4
    OBVIOUS
  <2>2. r4 \in Registering \cup {<<"end">>}
    BY DEF Registering
  <2>3. r3 \in Seq(Calls)
    BY DEF Calls
  <2>4. QED  BY <2>1, <2>2, <2>3
<1>4. Right(r4)
  <2>1. Tail(r4) = r5
    OBVIOUS
  <2>2. r5 \in Registering \cup {<<"end">>}
    BY DEF Registering
  <2>3. r4 \in Seq(Calls)
    BY DEF Calls
  <2>4. QED  BY <2>1, <2>2, <2>3
<1>5. Right(r5)
  <2>1. Tail(r5) = r6
    OBVIOUS
  <2>2. r6 \in Registering \cup {<<"end">>}
    BY DEF Registering
  <2>3. r5 \in Seq(Calls)
    BY DEF Calls
  <2>4. QED  BY <2>1, <2>2, <2>3
<1>6. Right(r6)
  <2>1. Tail(r6) = r7
    OBVIOUS
  <2>2. r7 \in Registering \cup {<<"end">>}
    BY DEF Registering
  <2>3. r6 \in Seq(Calls)
    BY DEF Calls
  <2>4. QED  BY <2>1, <2>2, <2>3
<1>7. Right(r7)
  <2>1. Tail(r7) = <<"end">>
    OBVIOUS
  <2>2. <<"end">> \in Registering \cup {<<"end">>}
    BY DEF Registering
  <2>3. r7 \in Seq(Calls)
    BY DEF Calls
  <2>4. QED  BY <2>1, <2>2, <2>3
<1>8. QED
  <2> HIDE DEF Right
  <2>1. Right(s)
    BY <1>1, <1>2, <1>3, <1>4, <1>5, <1>6, <1>7 DEF Registering
  <2>2. QED  BY <2>1 DEF Right

(* What comes after each call of disable.                                   *)
LEMMA DisablingTails ==
  ASSUME NEW s \in {<<"stop", "disable", "end">>, <<"disable", "end">>}
  PROVE  /\ s # <<>> /\ s \in Seq(Calls)
         /\ Head(s) \in {"stop", "disable"}
         /\ Tail(s) \in {<<"disable", "end">>, <<"end">>}
         /\ Head(s) = "stop" => Tail(s) # <<>> /\ Head(Tail(s)) = "disable"
         /\ Head(s) = "disable" => Tail(s) # <<>> /\ Head(Tail(s)) = "end"
<1> DEFINE Right(x) ==
             /\ x # <<>> /\ x \in Seq(Calls)
             /\ Head(x) \in {"stop", "disable"}
             /\ Tail(x) \in {<<"disable", "end">>, <<"end">>}
             /\ Head(x) = "stop" => Tail(x) # <<>> /\ Head(Tail(x)) = "disable"
             /\ Head(x) = "disable" => Tail(x) # <<>> /\ Head(Tail(x)) = "end"
           d1 == <<"stop", "disable", "end">>
           d2 == <<"disable", "end">>
<1>1. Right(d1)
  <2>1. Tail(d1) = d2
    OBVIOUS
  <2>2. d2 \in {<<"disable", "end">>, <<"end">>}
    BY DEF Calls
  <2>3. d1 \in Seq(Calls)
    BY DEF Calls
  <2>4. QED  BY <2>1, <2>2, <2>3
<1>2. Right(d2)
  <2>1. Tail(d2) = <<"end">>
    OBVIOUS
  <2>2. <<"end">> \in {<<"disable", "end">>, <<"end">>}
    BY DEF Calls
  <2>3. d2 \in Seq(Calls)
    BY DEF Calls
  <2>4. QED  BY <2>1, <2>2, <2>3
<1>3. QED
  <2> HIDE DEF Right
  <2>1. Right(s)
    BY <1>1, <1>2 DEF Calls
  <2>2. QED  BY <2>1 DEF Right

(* What comes after each call of uninstall.                                 *)
LEMMA UninstallingTails ==
  ASSUME NEW s \in Uninstalling \ {<<>>, <<"check">>, <<"end">>, <<"version">>}
  PROVE  /\ s # <<>> /\ s \in Seq(Calls)
         /\ Head(s) \in {"stop", "disable", "remove", "data"}
         /\ Tail(s) \in Uninstalling
         /\ Head(s) = "stop" => Tail(s) # <<>> /\ Head(Tail(s)) = "disable"
         /\ Head(s) = "disable" => Tail(s) # <<>> /\ Head(Tail(s)) = "remove"
         /\ Head(s) = "remove" => Tail(s) # <<>> /\ Head(Tail(s)) = "data"
         /\ Head(s) = "data" => Tail(s) # <<>> /\ Head(Tail(s)) = "end"
<1> DEFINE Right(x) ==
             /\ x # <<>> /\ x \in Seq(Calls)
             /\ Head(x) \in {"stop", "disable", "remove", "data"}
             /\ Tail(x) \in Uninstalling
             /\ Head(x) = "stop" => Tail(x) # <<>> /\ Head(Tail(x)) = "disable"
             /\ Head(x) = "disable" => Tail(x) # <<>> /\ Head(Tail(x)) = "remove"
             /\ Head(x) = "remove" => Tail(x) # <<>> /\ Head(Tail(x)) = "data"
             /\ Head(x) = "data" => Tail(x) # <<>> /\ Head(Tail(x)) = "end"
           u1 == <<"stop", "disable", "remove", "data", "end">>
           u2 == <<"disable", "remove", "data", "end">>
           u3 == <<"remove", "data", "end">>
           u4 == <<"data", "end">>
<1>1. Right(u1)
  <2>1. Tail(u1) = u2
    OBVIOUS
  <2>2. u2 \in Uninstalling
    BY DEF Uninstalling, Common
  <2>3. u1 \in Seq(Calls)
    BY DEF Calls
  <2>4. QED  BY <2>1, <2>2, <2>3
<1>2. Right(u2)
  <2>1. Tail(u2) = u3
    OBVIOUS
  <2>2. u3 \in Uninstalling
    BY DEF Uninstalling, Common
  <2>3. u2 \in Seq(Calls)
    BY DEF Calls
  <2>4. QED  BY <2>1, <2>2, <2>3
<1>3. Right(u3)
  <2>1. Tail(u3) = u4
    OBVIOUS
  <2>2. u4 \in Uninstalling
    BY DEF Uninstalling, Common
  <2>3. u3 \in Seq(Calls)
    BY DEF Calls
  <2>4. QED  BY <2>1, <2>2, <2>3
<1>4. Right(u4)
  <2>1. Tail(u4) = <<"end">>
    OBVIOUS
  <2>2. <<"end">> \in Uninstalling
    BY DEF Uninstalling, Common
  <2>3. u4 \in Seq(Calls)
    BY DEF Calls
  <2>4. QED  BY <2>1, <2>2, <2>3
<1>5. QED
  <2> HIDE DEF Right
  <2>1. Right(s)
    BY <1>1, <1>2, <1>3, <1>4 DEF Uninstalling, Common
  <2>2. QED  BY <2>1 DEF Right

(* A plan of one call.                                                      *)
LEMMA LastCalls ==
  ASSUME NEW c \in Calls
  PROVE  <<c>> # <<>> /\ <<c>> \in Seq(Calls) /\ Head(<<c>>) = c /\ Tail(<<c>>) = <<>>
OBVIOUS

(* Every plan is a sequence of calls.                                       *)
LEMMA PlansTyped ==
  ASSUME NEW s \in Enabling \cup Disabling \cup Updating \cup Uninstalling
  PROVE  /\ s \in Seq(Calls)
         /\ s # <<>> => Head(s) \in Calls
<1>1. s \in Common \cup Registering \cup {<<"register">>, <<"is-enabled">>, <<"version">>}
        \cup {<<"stop", "disable", "end">>, <<"disable", "end">>}
        \cup (Uninstalling \ {<<>>, <<"check">>, <<"end">>, <<"version">>})
  BY DEF Enabling, Disabling, Updating, Common
<1>2. CASE s \in Common \cup {<<"register">>, <<"is-enabled">>, <<"version">>}
  <2>1. {"check", "end", "register", "is-enabled", "version"} \subseteq Calls
    BY DEF Calls
  <2>2. CASE s = <<>>
    BY <2>2
  <2>3. ASSUME NEW c \in Calls, s = <<c>>
        PROVE  s \in Seq(Calls) /\ (s # <<>> => Head(s) \in Calls)
    BY <2>3, LastCalls
  <2>4. QED  BY <1>2, <2>1, <2>2, <2>3 DEF Common
<1>3. CASE s \in Registering
  BY <1>3, RegisteringTails DEF Calls
<1>4. CASE s \in {<<"stop", "disable", "end">>, <<"disable", "end">>}
  BY <1>4, DisablingTails DEF Calls
<1>5. CASE s \in Uninstalling \ {<<>>, <<"check">>, <<"end">>, <<"version">>}
  BY <1>5, UninstallingTails DEF Calls
<1>6. QED  BY <1>1, <1>2, <1>3, <1>4, <1>5

(* Where the processes are, in terms of Here.                               *)
LEMMA HereFacts ==
  ASSUME TypeOK, Roles, NEW p \in Processes
  PROVE  /\ todo[p] \in Seq(Calls)
         /\ Here(p) \in Calls \cup {"none"}
         /\ Idle(p) <=> Here(p) = "none"
         /\ \A c \in Calls : At(p, c) <=> Here(p) = c
<1>1. todo[p] \in Enabling \cup Disabling \cup Updating \cup Uninstalling
  BY DEF Roles, Planned, Commands, TypeOK
<1>2. todo[p] \in Seq(Calls) /\ (todo[p] # <<>> => Head(todo[p]) \in Calls)
  BY <1>1, PlansTyped
<1>3. "none" \notin Calls
  BY DEF Calls
<1>4. QED  BY <1>2, <1>3 DEF Here, Idle, At

(* The call of p that follows c: what the plans have in common.             *)
Follows(p, c) ==
  /\ c = "chmod" => Here(p) = "remove"
  /\ c = "remove" /\ command[p] # "uninstall" => Here(p) = "create"
  /\ c = "remove" /\ command[p] = "uninstall" => Here(p) = "data"
  /\ c = "create" => Here(p) = "write"
  /\ c = "write" => Here(p) = "daemon-reload"
  /\ c = "daemon-reload" => Here(p) = "enable"
  /\ c = "enable" => Here(p) = "start"
  /\ c = "start" => Here(p) = "end"
  /\ c = "stop" => Here(p) = "disable"
  /\ c = "disable" /\ command[p] # "uninstall" => Here(p) = "end"
  /\ c = "disable" /\ command[p] = "uninstall" => Here(p) = "remove"
  /\ c = "data" => Here(p) = "end"
  /\ c = "end" => Here(p) = "none"

(* The calls that are made, and not only decide what is to be done.         *)
Makes == Calls \ {"check", "register", "is-enabled", "version"}

(* After the call c of a plan of one command comes the rest of a plan.      *)
LEMMA RestOfPlan ==
  ASSUME TypeOK, Roles, NEW p \in Processes, NEW c \in Makes,
         At(p, c), todo'[p] = Tail(todo[p]), UNCHANGED command
  PROVE  Planned(p)' /\ Follows(p, c)' /\ todo'[p] # todo[p]
<1> DEFINE s == todo[p]
<1>1. todo'[p] = Tail(s) /\ s # <<>> /\ Head(s) = c
  BY DEF At, Idle
<1>2. s \notin {<<>>, <<"check">>, <<"register">>, <<"is-enabled">>, <<"version">>}
  BY <1>1 DEF Makes
<1>3. CASE s = <<"end">>
  <2>1. Tail(s) = <<>> /\ c = "end"
    BY <1>1, <1>3
  <2>2. Planned(p)'
    BY <1>1, <2>1 DEF Planned, Enabling, Disabling, Updating, Uninstalling, Common
  <2>3. Here(p)' = "none"
    BY <1>1, <2>1 DEF Here
  <2>4. QED  BY <1>1, <2>1, <2>2, <2>3 DEF Follows
<1>4. CASE s \in Registering /\ command[p] \in {"enable", "update"}
  <2>1. /\ Tail(s) \in Registering \cup {<<"end">>} /\ Tail(s) # <<>>
        /\ c \in {"chmod", "remove", "create", "write", "daemon-reload", "enable", "start"}
    BY <1>1, <1>4, RegisteringTails
  <2>2. Planned(p)'
    BY <1>1, <1>4, <2>1 DEF Planned, Enabling, Updating, Common
  <2>3. Here(p)' = Head(Tail(s))
    BY <1>1, <2>1 DEF Here
  <2>4. Follows(p, c)'
    BY <1>1, <1>4, <2>1, <2>3, RegisteringTails DEF Follows
  <2>5. Here(p)' # c
    BY <2>1, <2>4, <1>4 DEF Follows
  <2>6. QED  BY <1>1, <2>2, <2>4, <2>5 DEF Here
<1>5. CASE s \in {<<"stop", "disable", "end">>, <<"disable", "end">>} /\ command[p] = "disable"
  <2>1. /\ Tail(s) \in {<<"disable", "end">>, <<"end">>} /\ Tail(s) # <<>>
        /\ c \in {"stop", "disable"}
    BY <1>1, <1>5, DisablingTails
  <2>2. Planned(p)'
    BY <1>1, <1>5, <2>1 DEF Planned, Disabling, Common
  <2>3. Here(p)' = Head(Tail(s))
    BY <1>1, <2>1 DEF Here
  <2>4. Follows(p, c)'
    BY <1>1, <1>5, <2>1, <2>3, DisablingTails DEF Follows
  <2>5. Here(p)' # c
    BY <1>5, <2>1, <2>4 DEF Follows
  <2>6. QED  BY <1>1, <2>2, <2>4, <2>5 DEF Here
<1>6. CASE /\ s \in Uninstalling \ {<<>>, <<"check">>, <<"end">>, <<"version">>}
           /\ command[p] = "uninstall"
  <2>1. Tail(s) \in Uninstalling /\ Tail(s) # <<>> /\ c \in {"stop", "disable", "remove", "data"}
    BY <1>1, <1>6, UninstallingTails
  <2>2. Planned(p)'
    BY <1>1, <1>6, <2>1 DEF Planned
  <2>3. Here(p)' = Head(Tail(s))
    BY <1>1, <2>1 DEF Here
  <2>4. Follows(p, c)'
    BY <1>1, <1>6, <2>1, <2>3, UninstallingTails DEF Follows
  <2>5. Here(p)' # c
    BY <1>6, <2>1, <2>4 DEF Follows
  <2>6. QED  BY <1>1, <2>2, <2>4, <2>5 DEF Here
<1>7. QED
  <2>1. command[p] \in Commands
    BY DEF TypeOK
  <2>2. s \in Common \cup {<<"register">>, <<"is-enabled">>, <<"version">>}
          => s = <<"end">>
    BY <1>2 DEF Common
  <2>3. CASE command[p] = "uninstall"
    BY <1>2, <1>3, <1>6, <2>3 DEF Roles, Planned
  <2>4. CASE command[p] = "disable"
    BY <1>3, <1>5, <2>2, <2>4 DEF Roles, Planned, Disabling
  <2>5. CASE command[p] = "enable"
    BY <1>3, <1>4, <2>2, <2>5 DEF Roles, Planned, Enabling
  <2>6. CASE command[p] = "update"
    BY <1>3, <1>4, <2>2, <2>6 DEF Roles, Planned, Updating
  <2>7. QED  BY <2>1, <2>3, <2>4, <2>5, <2>6 DEF Commands

-----------------------------------------------------------------------------
(* The steps, by what they do to the calls.                                 *)

(* The other processes are where they were.                                 *)
Elsewhere(p) == \A q \in Processes : q # p => todo'[q] = todo[q]

(* A process whose calls are as they were is where it was.                  *)
LEMMA ElsewhereHere ==
  ASSUME NEW p \in Processes, Elsewhere(p), UNCHANGED command
  PROVE  \A q \in Processes : q # p => Here(q)' = Here(q) /\ Idle(q)' = Idle(q)
                                       /\ Planned(q)' = Planned(q)
BY DEF Elsewhere, Here, Idle, Planned

(* A step that begins nothing and finishes nothing keeps the agent's part.  *)
LEMMA AgentKept ==
  ASSUME Agent, UNCHANGED <<agent, process, done, overlap>>,
         \A p \in Processes : Idle(p) => Idle(p)'
  PROVE  Agent'
<1>1. UNCHANGED <<stage, cur, target, command, version, done, overlap>>
  BY DEF agent, process
<1>2. /\ Idle("background") => Idle("background")'
      /\ Idle("foreground") => Idle("foreground")'
  BY DEF Processes
<1>3. QED  BY <1>1, <1>2 DEF Agent

(* One call is made.                                                        *)
LEMMA CallMade ==
  ASSUME TypeOK, Roles, Agent, NEW p \in Processes, NEW c \in Makes, Call(p, c),
         UNCHANGED overlap
  PROVE  /\ Roles' /\ Agent' /\ todo' \in [Processes -> Seq(Calls)]
         /\ Here(p) = c /\ Follows(p, c)'
         /\ \A q \in Processes : q # p => Here(q)' = Here(q)
         /\ todo'[p] # todo[p] /\ Elsewhere(p)
         /\ UNCHANGED <<agent, process, done, faults>>
<1>1. At(p, c) /\ Made(p) /\ UNCHANGED <<agent, process, done, faults>>
  BY DEF Call
<1>2. todo'[p] = Tail(todo[p]) /\ Elsewhere(p) /\ DOMAIN todo' = Processes
  BY <1>1 DEF Made, Elsewhere, TypeOK
<1>3. UNCHANGED command
  BY <1>1 DEF process
<1>4. Planned(p)' /\ Follows(p, c)' /\ todo'[p] # todo[p]
  BY <1>1, <1>2, <1>3, RestOfPlan
<1>5. \A q \in Processes : q # p => Here(q)' = Here(q) /\ Idle(q)' = Idle(q)
                                    /\ Planned(q)' = Planned(q)
  BY <1>2, <1>3, ElsewhereHere
<1>6. ~Idle(p) /\ Here(p) = c
  BY <1>1 DEF At, Here, Idle
<1>7. Roles'
  BY <1>3, <1>4, <1>5, <1>6 DEF Roles, Processes
<1>8. \A q \in Processes : todo'[q] \in Seq(Calls)
  BY <1>3, <1>7, PlansTyped DEF Roles, Planned, TypeOK, Commands
<1>9. todo' \in [Processes -> Seq(Calls)]
  BY <1>1, <1>8 DEF Made, TypeOK
<1>10. \A q \in Processes : Idle(q) => Idle(q)'
  BY <1>5, <1>6
<1>11. Agent'
  BY <1>1, <1>10, AgentKept
<1>12. QED  BY <1>1, <1>2, <1>4, <1>5, <1>6, <1>7, <1>9, <1>11

(* The calls of p are settled anew.                                         *)
LEMMA CallsSettled ==
  ASSUME TypeOK, Roles, Agent, NEW p \in Processes, NEW calls, Plan(p, calls), ~Idle(p),
         UNCHANGED <<agent, process, done, overlap>>,
         /\ command[p] = "enable" => calls \in Enabling
         /\ command[p] = "disable" => calls \in Disabling
         /\ command[p] = "update" => calls \in Updating
         /\ command[p] = "uninstall" => calls \in Uninstalling
  PROVE  /\ Roles' /\ Agent' /\ todo' \in [Processes -> Seq(Calls)]
         /\ \A q \in Processes : q # p => Here(q)' = Here(q)
         /\ todo'[p] = calls /\ Elsewhere(p)
         /\ calls = <<>> => Here(p)' = "none"
         /\ calls # <<>> => Here(p)' = Head(calls)
<1>1. todo'[p] = calls /\ Elsewhere(p)
  BY DEF Plan, Elsewhere, TypeOK
<1>2. UNCHANGED command
  BY DEF process
<1>3. Planned(p)'
  BY <1>1, <1>2 DEF Planned
<1>4. \A q \in Processes : q # p => Here(q)' = Here(q) /\ Idle(q)' = Idle(q)
                                    /\ Planned(q)' = Planned(q)
  BY <1>1, <1>2, ElsewhereHere
<1>5. Roles'
  BY <1>2, <1>3, <1>4 DEF Roles, Processes
<1>6. \A q \in Processes : todo'[q] \in Seq(Calls)
  BY <1>2, <1>5, PlansTyped DEF Roles, Planned, TypeOK, Commands
<1>7. todo' \in [Processes -> Seq(Calls)]
  BY <1>6 DEF Plan, TypeOK
<1>8. Agent'
  BY <1>4, AgentKept
<1>9. QED  BY <1>1, <1>4, <1>5, <1>7, <1>8 DEF Here

(* Which command makes a call.                                              *)
Belongs(c, call) ==
  /\ call \in {"register", "chmod", "create", "write", "daemon-reload", "enable", "start"}
       => c \in {"enable", "update"}
  /\ call = "is-enabled" => c \in {"enable", "disable"}
  /\ call \in {"stop", "disable"} => c \in {"disable", "uninstall"}
  /\ call = "remove" => c # "disable"
  /\ call \in {"version", "data"} => c = "uninstall"

(* A process is at a call of its command.                                   *)
LEMMA CallsBelong ==
  ASSUME TypeOK, Roles, NEW p \in Processes
  PROVE  Belongs(command[p], Here(p))
<1> DEFINE s == todo[p]
<1>1. s = <<>> => Here(p) = "none"
  BY DEF Here
<1>2. s # <<>> => Here(p) = Head(s)
  BY DEF Here
<1>3. \A c \in Calls : s = <<c>> => Here(p) = c
  BY <1>2, LastCalls
<1>4. s \in Common => Here(p) \in {"none", "check", "end"}
  BY <1>1, <1>3 DEF Common, Calls
<1>5. s \in Registering => Here(p) \in {"chmod", "remove", "create", "write",
                                         "daemon-reload", "enable", "start"}
  BY <1>2, RegisteringTails
<1>6. CASE command[p] = "enable"
  <2>1. s \in Enabling
    BY <1>6 DEF Roles, Planned
  <2>2. Here(p) \in {"none", "check", "end", "chmod", "remove", "create", "write",
                     "daemon-reload", "enable", "start", "register", "is-enabled"}
    BY <1>3, <1>4, <1>5, <2>1 DEF Enabling, Calls
  <2>3. QED  BY <1>6, <2>2 DEF Belongs
<1>7. CASE command[p] = "update"
  <2>1. s \in Updating
    BY <1>7 DEF Roles, Planned
  <2>2. Here(p) \in {"none", "check", "end", "chmod", "remove", "create", "write",
                     "daemon-reload", "enable", "start", "register"}
    BY <1>3, <1>4, <1>5, <2>1 DEF Updating, Calls
  <2>3. QED  BY <1>7, <2>2 DEF Belongs
<1>8. CASE command[p] = "disable"
  <2>1. s \in Disabling
    BY <1>8 DEF Roles, Planned
  <2>2. Here(p) \in {"none", "check", "end", "stop", "disable", "is-enabled"}
    BY <1>2, <1>3, <1>4, <2>1, DisablingTails DEF Disabling, Calls
  <2>3. QED  BY <1>8, <2>2 DEF Belongs
<1>9. CASE command[p] = "uninstall"
  <2>1. s \in Uninstalling
    BY <1>9 DEF Roles, Planned
  <2>2. Here(p) \in {"none", "check", "end", "stop", "disable", "remove", "data", "version"}
    <3>1. CASE s \in Common \cup {<<"version">>}
      BY <1>3, <1>4, <3>1 DEF Calls
    <3>2. CASE s \notin Common \cup {<<"version">>}
      BY <1>2, <2>1, <3>2, UninstallingTails DEF Common
    <3>3. QED  BY <3>1, <3>2
  <2>3. QED  BY <1>9, <2>2 DEF Belongs
<1>10. QED  BY <1>6, <1>7, <1>8, <1>9 DEF TypeOK, Commands

(* Without an overlap nobody else is at work.                               *)
LEMMA Alone ==
  ASSUME TypeOK, Roles, Agent, ~overlap, NEW p \in Processes, Here(p) # "none"
  PROVE  \A q \in Processes : q # p => Here(q) = "none"
<1>1. \A q \in Processes : Idle(q) <=> Here(q) = "none"
  BY HereFacts
<1>2. QED  BY <1>1 DEF Agent, Processes

-----------------------------------------------------------------------------
(* The unit.                                                                *)

Units ==
  /\ Plain => Unit
  /\ Plain /\ "uninstall" \notin swallowed => Left
  /\ Plain /\ swallowed = {} => EnabledRight
  /\ Spared

(* What a process that is at work alone works on.                           *)
Duty(p) ==
  /\ p = "background" <=> command[p] = "enable"
  /\ command[p] = "enable" => stage = "installed" /\ version[p] = cur /\ target = cur
  /\ command[p] = "disable" => stage = "installed" /\ target = cur
  /\ command[p] = "update" => stage = "disabled" /\ version[p] = target /\ target # cur
  /\ command[p] = "uninstall" =>
       /\ version[p] = cur
       /\ \/ stage = "disabled" /\ target = cur
          \/ stage = "updated" /\ target # cur
  /\ done = "none"

(* A process at work has its duty, and nobody else has one.                 *)
LEMMA AtWork ==
  ASSUME TypeOK, Roles, Agent, NEW p \in Processes, Here(p) # "none"
  PROVE  /\ p = "background" <=> command[p] = "enable"
         /\ ~overlap => Duty(p)
         /\ ~overlap => \A q \in Processes : q # p => Here(q) = "none"
         /\ Belongs(command[p], Here(p))
<1>1. ~Idle(p)
  BY HereFacts
<1>2. p = "background" <=> command[p] = "enable"
  BY <1>1 DEF Roles, Processes
<1>3. p \in {"background", "foreground"}
  BY DEF Processes
<1>4. ~overlap => done = "none"
  BY <1>1, <1>3 DEF Agent
<1>5. ~overlap => Duty(p)
  BY <1>1, <1>2, <1>3, <1>4 DEF Agent, Duty
<1>6. QED  BY <1>2, <1>5, Alone, CallsBelong

(* What the call of p that is made does to the unit, and the call after it. *)
Effect(p) ==
  \/ /\ \/ Here(p) = "chmod" /\ Here(p)' = "remove"
        \/ Here(p) = "daemon-reload" /\ Here(p)' = "enable"
        \/ Here(p) = "data" /\ Here(p)' = "end"
     /\ UNCHANGED <<unit, enabled, active, halfway, replaced>>
  \/ /\ Here(p) = "remove"
     /\ Here(p)' = IF command[p] = "uninstall" THEN "data" ELSE "create"
     /\ ~replaced' => command[p] = "uninstall" \/ (~enabled /\ active = None)
     /\ ~replaced' => ~replaced
     /\ unit' = None /\ UNCHANGED <<enabled, active, halfway>>
  \/ /\ Here(p) = "create" /\ Here(p)' = "write"
     /\ unit' = Torn /\ UNCHANGED <<enabled, active, halfway, replaced>>
  \/ /\ Here(p) = "write" /\ Here(p)' = "daemon-reload"
     /\ unit' = Directory(p) /\ UNCHANGED <<enabled, active, halfway, replaced>>
  \/ /\ Here(p) = "enable" /\ Here(p)' = "start" /\ unit \in Versions
     /\ enabled' = TRUE /\ UNCHANGED <<unit, active, halfway, replaced>>
  \/ /\ Here(p) = "start" /\ Here(p)' = "end" /\ unit \in Versions
     /\ active = None => active' = unit
     /\ active # None => active' = active
     /\ halfway' = FALSE /\ UNCHANGED <<unit, enabled, replaced>>
  \/ /\ Here(p) = "stop" /\ Here(p)' = "disable"
     /\ active' = None /\ UNCHANGED <<unit, enabled, halfway, replaced>>
  \/ /\ Here(p) = "disable"
     /\ Here(p)' = IF command[p] = "uninstall" THEN "remove" ELSE "end"
     /\ enabled' = FALSE /\ halfway' = FALSE /\ UNCHANGED <<unit, active, replaced>>

Acts(p) ==
  \/ Prepare(p) \/ RemoveUnit(p) \/ CreateUnit(p) \/ WriteUnit(p) \/ EnableUnit(p)
  \/ StartUnit(p) \/ StopUnit(p) \/ DisableUnit(p) \/ RemoveData(p)

(* A call that is made has its effect and no other.                         *)
LEMMA ActsMade ==
  ASSUME TypeOK, Roles, Agent, NEW p \in Processes, Acts(p)
  PROVE  /\ TypeOK' /\ Roles' /\ Agent' /\ Effect(p)
         /\ \A q \in Processes : q # p => Here(q)' = Here(q)
         /\ todo'[p] # todo[p] /\ Elsewhere(p)
         /\ UNCHANGED <<agent, process, done, faults, overlap, swallowed>>
<1>1. PICK c \in Makes : Call(p, c)
  BY DEF Acts, Prepare, RemoveUnit, CreateUnit, WriteUnit, EnableUnit, StartUnit, StopUnit,
         DisableUnit, RemoveData, Makes, Calls
<1>2. UNCHANGED <<overlap, swallowed>>
  BY DEF Acts, Prepare, RemoveUnit, CreateUnit, WriteUnit, EnableUnit, StartUnit, StopUnit,
         DisableUnit, RemoveData, ghosts
<1>3. /\ Roles' /\ Agent' /\ todo' \in [Processes -> Seq(Calls)]
      /\ Here(p) = c /\ Follows(p, c)'
      /\ \A q \in Processes : q # p => Here(q)' = Here(q)
      /\ todo'[p] # todo[p] /\ Elsewhere(p)
      /\ UNCHANGED <<agent, process, done, faults>>
  BY <1>1, <1>2, CallMade
<1>4. UNCHANGED <<named, oldPath, stage, cur, target, command, version>>
  BY <1>3 DEF agent, process
<1>5. version[p] \in Versions
  BY DEF TypeOK
<1>6. ASSUME NEW d, Call(p, d)  PROVE d = Here(p)
  BY <1>6 DEF Call, At, Here, Idle
<1>7. Effect(p)
  <2>1. CASE Prepare(p) \/ RemoveData(p)
    BY <1>3, <1>6, <2>1 DEF Prepare, RemoveData, Effect, Follows, systemd, ghosts
  <2>2. CASE RemoveUnit(p)
    BY <1>3, <1>4, <1>6, <2>2 DEF RemoveUnit, Effect, Follows, ghosts
  <2>3. CASE CreateUnit(p) \/ WriteUnit(p) \/ EnableUnit(p)
    BY <1>3, <1>6, <2>3 DEF CreateUnit, WriteUnit, EnableUnit, Effect, Follows, ghosts
  <2>4. CASE StartUnit(p) \/ StopUnit(p)
    BY <1>3, <1>6, <2>4 DEF StartUnit, StopUnit, Effect, Follows, ghosts
  <2>5. CASE DisableUnit(p)
    BY <1>3, <1>4, <1>6, <2>5 DEF DisableUnit, Effect, Follows
  <2>6. QED  BY <2>1, <2>2, <2>3, <2>4, <2>5 DEF Acts
<1>8. dataDir' \in BOOLEAN
  BY DEF Acts, Prepare, RemoveUnit, CreateUnit, WriteUnit, EnableUnit, StartUnit, StopUnit,
         DisableUnit, RemoveData, TypeOK
<1>9. /\ unit' \in {unit, None, Torn} \cup Versions /\ enabled' \in BOOLEAN
      /\ halfway' \in BOOLEAN /\ active' \in Versions \cup {None}
      /\ replaced' \in BOOLEAN
  <2>1. Directory(p) \in Versions
    BY <1>5 DEF Directory, TypeOK
  <2>2. replaced' \in BOOLEAN
    BY DEF Acts, Prepare, RemoveUnit, CreateUnit, WriteUnit, EnableUnit, StartUnit, StopUnit,
           DisableUnit, RemoveData, ghosts, TypeOK
  <2>3. QED  BY <1>7, <2>1, <2>2 DEF Effect, TypeOK
<1>10. TypeOK'
  BY <1>2, <1>3, <1>4, <1>5, <1>8, <1>9 DEF TypeOK
<1>11. QED  BY <1>2, <1>3, <1>7, <1>10

(* A call that is made keeps what is said of the unit.                      *)
LEMMA ActsUnits ==
  ASSUME TypeOK, Roles, Agent, Units, NEW p \in Processes, Acts(p)
  PROVE  Units'
<1>1. /\ Effect(p) /\ \A q \in Processes : q # p => Here(q)' = Here(q)
      /\ UNCHANGED <<named, oldPath, stage, cur, target, command, version, done, overlap, swallowed>>
      /\ Here(p) # "none"
  BY ActsMade DEF agent, process, Effect
<1>2. /\ ~overlap => Duty(p) /\ \A q \in Processes : q # p => Here(q) = "none"
      /\ Belongs(command[p], Here(p))
      /\ p = "background" <=> command[p] = "enable"
      /\ "background" \in Processes /\ "foreground" \in Processes
      /\ p = "background" \/ p = "foreground"
  BY <1>1, AtWork DEF Processes
<1>3. None \notin Versions /\ Torn \notin Versions
  BY ServiceInstallAssumption DEF None, Torn
<1>10. (Plain' => Plain) /\ Directory(p) \in Versions /\ Directory(p)' = Directory(p)
  BY <1>1 DEF Plain, Effect, Directory, TypeOK
<1>4. ASSUME Plain', Unit  PROVE Unit'
  <2> USE <1>1, <1>2, <1>3, <1>4, <1>10 DEF Unit, Effect
  <2>1. Runs' /\ Wanted'
    BY DEF Runs, Wanted, NotYet, Before, Between, Plain
  <2>2. HalfDone'
    BY DEF HalfDone, NotYet, Before, Between, Plain
  <2>3. NotYet'
    BY DEF Plain, NotYet, Before, Between, Belongs
  <2>4. Between'
    BY DEF Plain, Between, NotYet, Before, Belongs, Runs
  <2>5. LookedFor'
    BY DEF Plain, LookedFor
  <2>6. Stages'
    BY DEF Plain, Stages, NotYet, Before, Between, Belongs, Duty
  <2>7. QED  BY <2>1, <2>2, <2>3, <2>4, <2>5, <2>6
<1>5. ASSUME Plain, Unit, Left  PROVE Left'
  <2>1. unit' \in {None, Torn, cur, target}
    BY <1>1, <1>2, <1>5 DEF Plain, Left, Belongs, Duty, Effect, Directory
  <2>2. /\ stage = "uninstalled" => unit' \in {None, target}
        /\ stage = "removed" => unit' = None
    BY <1>1, <1>2, <1>5 DEF Plain, Left, Belongs, Duty, Effect
  <2>3. command["foreground"] = "uninstall" /\ Here("foreground")' \in {"data", "end"}
          => unit' \in {None, target} \ {cur}
    <3>1. None # cur
      BY <1>3 DEF TypeOK
    <3>2. CASE p = "background"
      BY <1>1, <1>2, <1>5, <3>2 DEF Plain, Left
    <3>3. CASE p = "foreground"
      BY <1>1, <1>2, <1>5, <3>1, <3>3 DEF Left, Belongs, Effect
    <3>4. QED  BY <1>2, <3>2, <3>3
  <2>4. QED  BY <1>1, <2>1, <2>2, <2>3 DEF Left
<1>6. ASSUME Plain, Unit, Left, EnabledRight  PROVE EnabledRight'
  BY <1>1, <1>2, <1>6 DEF Plain, EnabledRight, Unit, Between, Belongs, Duty, Effect, Directory
<1>7. Spared'
  BY <1>1, <1>2 DEF Units, Spared, Belongs, Effect, Directory
<1>8. QED  BY <1>1, <1>4, <1>5, <1>6, <1>7, <1>10 DEF Units

(* What a command that looks at the unit goes on with.                      *)
Decided(p) ==
  \/ /\ Here(p) = "check" /\ command[p] = "enable"
     /\ \/ unit = None /\ Here(p)' = "register"
        \/ unit # None /\ Here(p)' = "is-enabled"
  \/ /\ Here(p) = "check" /\ command[p] = "disable"
     /\ \/ Here(p)' = "is-enabled"
        \/ (named => unit = None) /\ Here(p)' = "end"
  \/ /\ Here(p) = "check" /\ command[p] = "update"
     /\ \/ unit = None /\ Here(p)' = "end"
        \/ Here(p)' = "register"
  \/ /\ Here(p) = "check" /\ command[p] = "uninstall"
     /\ \/ unit = None /\ Here(p)' = "data"
        \/ Here(p)' = "version"
  \/ /\ Here(p) = "register" /\ unit # Torn
     /\ \/ unit = version[p] /\ Here(p)' = "end"
        \/ unit # version[p] /\ Here(p)' = "chmod"
  \/ /\ Here(p) = "is-enabled" /\ unit \in Versions
     /\ \/ command[p] = "enable" /\ enabled /\ Here(p)' = "end"
        \/ command[p] = "enable" /\ ~enabled /\ Here(p)' = "enable"
        \/ command[p] = "disable" /\ enabled /\ Here(p)' = "stop"
        \/ command[p] = "disable" /\ ~enabled /\ Here(p)' = "end"
  \/ /\ Here(p) = "version" /\ unit \in Versions
     /\ \/ unit = version[p] /\ Here(p)' = "stop"
        \/ unit # version[p] /\ Here(p)' = "data"

Looks(p) ==
  \/ CheckEnable(p) \/ CheckDisable(p) \/ CheckUpdate(p) \/ CheckUninstall(p)
  \/ Register(p) \/ IsEnabled(p) \/ DeRegister(p)

(* The calls that a look at the unit may settle.                            *)
LEMMA Plans ==
  /\ <<"register">> \in Enabling \cap Updating
  /\ <<"is-enabled">> \in Enabling \cap Disabling
  /\ <<"end">> \in Enabling \cap Disabling \cap Updating \cap Uninstalling
  /\ <<>> \in Enabling \cap Disabling \cap Updating \cap Uninstalling
  /\ <<"check">> \in Enabling \cap Disabling \cap Updating \cap Uninstalling
  /\ <<"version">> \in Uninstalling /\ <<"data", "end">> \in Uninstalling
  /\ RegisterCalls \in Enabling \cap Updating
  /\ <<"enable", "start", "end">> \in Enabling
  /\ <<"stop", "disable", "end">> \in Disabling
  /\ <<"stop", "disable", "remove", "data", "end">> \in Uninstalling
BY DEF Enabling, Disabling, Updating, Uninstalling, Common, Registering, RegisterCalls

(* A decision is made and nothing else.                                     *)
LEMMA DecideMade ==
  ASSUME TypeOK, Roles, Agent, NEW p \in Processes, NEW call \in Calls, NEW calls,
         Decide(p, call, calls),
         /\ command[p] = "enable" => calls \in Enabling
         /\ command[p] = "disable" => calls \in Disabling
         /\ command[p] = "update" => calls \in Updating
         /\ command[p] = "uninstall" => calls \in Uninstalling
  PROVE  /\ Roles' /\ Agent' /\ todo' \in [Processes -> Seq(Calls)]
         /\ Here(p) = call
         /\ \A q \in Processes : q # p => Here(q)' = Here(q)
         /\ calls # <<>> => Here(p)' = Head(calls)
         /\ Elsewhere(p) /\ todo'[p] = calls
         /\ UNCHANGED <<systemd, dataDir, agent, process, done, faults, ghosts>>
<1>1. /\ At(p, call) /\ Plan(p, calls)
      /\ UNCHANGED <<systemd, dataDir, agent, process, done, faults, ghosts>>
  BY DEF Decide
<1>2. ~Idle(p) /\ Here(p) = call
  BY <1>1 DEF At, Here, Idle
<1>3. UNCHANGED <<agent, process, done, overlap>>
  BY <1>1 DEF ghosts
<1>4. QED  BY <1>1, <1>2, <1>3, CallsSettled

(* A look at the unit settles the next calls.                               *)
LEMMA LooksDecide ==
  ASSUME TypeOK, Roles, Agent, NEW p \in Processes, Looks(p)
  PROVE  /\ Roles' /\ Agent' /\ todo' \in [Processes -> Seq(Calls)]
         /\ \A q \in Processes : q # p => Here(q)' = Here(q)
         /\ Decided(p)
         /\ UNCHANGED <<systemd, dataDir, agent, process, done, faults, ghosts>>
<1> DEFINE Result ==
      /\ Roles' /\ Agent' /\ todo' \in [Processes -> Seq(Calls)]
      /\ \A q \in Processes : q # p => Here(q)' = Here(q)
      /\ Decided(p)
      /\ UNCHANGED <<systemd, dataDir, agent, process, done, faults, ghosts>>
<1>0. {"check", "register", "is-enabled", "version"} \subseteq Calls
  BY DEF Calls
<1>1. CASE CheckEnable(p)
  <2>1. CASE unit = None
    <3>1. Decide(p, "check", <<"register">>) /\ command[p] = "enable"
      BY <1>1, <2>1 DEF CheckEnable
    <3>2. Result
      BY <1>0, <2>1, <3>1, DecideMade, Plans DEF Decided
    <3>3. QED  BY <3>2
  <2>2. CASE unit # None
    <3>1. Decide(p, "check", <<"is-enabled">>) /\ command[p] = "enable"
      BY <1>1, <2>2 DEF CheckEnable
    <3>2. QED  BY <1>0, <2>2, <3>1, DecideMade, Plans DEF Decided
  <2>3. QED  BY <2>1, <2>2
<1>2. CASE CheckDisable(p)
  <2>1. CASE named /\ unit # None
    <3>1. Decide(p, "check", <<"is-enabled">>) /\ command[p] = "disable"
      BY <1>2, <2>1 DEF CheckDisable
    <3>2. QED  BY <1>0, <2>1, <3>1, DecideMade, Plans DEF Decided
  <2>2. CASE ~(named /\ unit # None)
    <3>1. Decide(p, "check", <<"end">>) /\ command[p] = "disable"
      BY <1>2, <2>2 DEF CheckDisable
    <3>2. QED  BY <1>0, <2>2, <3>1, DecideMade, Plans DEF Decided
  <2>3. QED  BY <2>1, <2>2
<1>3. CASE CheckUpdate(p)
  <2>1. CASE unit = None
    <3>1. Decide(p, "check", <<"end">>) /\ command[p] = "update"
      BY <1>3, <2>1 DEF CheckUpdate
    <3>2. QED  BY <1>0, <2>1, <3>1, DecideMade, Plans DEF Decided
  <2>2. CASE unit # None
    <3>1. Decide(p, "check", <<"register">>) /\ command[p] = "update"
      BY <1>3, <2>2 DEF CheckUpdate
    <3>2. QED  BY <1>0, <2>2, <3>1, DecideMade, Plans DEF Decided
  <2>3. QED  BY <2>1, <2>2
<1>4. CASE CheckUninstall(p)
  <2>1. CASE unit = None
    <3>1. Decide(p, "check", <<"data", "end">>) /\ command[p] = "uninstall"
      BY <1>4, <2>1 DEF CheckUninstall
    <3>2. QED  BY <1>0, <2>1, <3>1, DecideMade, Plans DEF Decided
  <2>2. CASE unit # None
    <3>1. Decide(p, "check", <<"version">>) /\ command[p] = "uninstall"
      BY <1>4, <2>2 DEF CheckUninstall
    <3>2. QED  BY <1>0, <2>2, <3>1, DecideMade, Plans DEF Decided
  <2>3. QED  BY <2>1, <2>2
<1>5. CASE Register(p)
  <2>0. Here(p) = "register" /\ unit # Torn
    BY <1>5 DEF Register, Decide, At, Idle, Here
  <2>1. command[p] \in {"enable", "update"}
    BY <2>0, CallsBelong DEF Belongs
  <2>2. CASE unit = version[p]
    <3>1. Decide(p, "register", <<"end">>)
      BY <1>5, <2>2 DEF Register
    <3>2. QED  BY <1>0, <2>0, <2>1, <2>2, <3>1, DecideMade, Plans DEF Decided
  <2>3. CASE unit # version[p]
    <3>1. Decide(p, "register", RegisterCalls)
      BY <1>5, <2>3 DEF Register
    <3>2. RegisterCalls # <<>> /\ Head(RegisterCalls) = "chmod"
      BY DEF RegisterCalls
    <3>3. QED  BY <1>0, <2>0, <2>1, <2>3, <3>1, <3>2, DecideMade, Plans DEF Decided
  <2>4. QED  BY <2>2, <2>3
<1>6. CASE IsEnabled(p)
  <2>0. Here(p) = "is-enabled" /\ unit \in Versions
    BY <1>6 DEF IsEnabled, Decide, At, Idle, Here
  <2>1. command[p] \in {"enable", "disable"}
    BY <2>0, CallsBelong DEF Belongs
  <2>2. CASE enabled /\ command[p] = "enable"
    <3>1. Decide(p, "is-enabled", <<"end">>)
      BY <1>6, <2>2 DEF IsEnabled
    <3>2. QED  BY <1>0, <2>0, <2>2, <3>1, DecideMade, Plans DEF Decided
  <2>3. CASE ~enabled /\ command[p] = "enable"
    <3>1. Decide(p, "is-enabled", <<"enable", "start", "end">>)
      BY <1>6, <2>3 DEF IsEnabled
    <3>2. QED  BY <1>0, <2>0, <2>3, <3>1, DecideMade, Plans DEF Decided
  <2>4. CASE enabled /\ command[p] = "disable"
    <3>1. Decide(p, "is-enabled", <<"stop", "disable", "end">>)
      BY <1>6, <2>4 DEF IsEnabled
    <3>2. QED  BY <1>0, <2>0, <2>4, <3>1, DecideMade, Plans DEF Decided
  <2>5. CASE ~enabled /\ command[p] = "disable"
    <3>1. Decide(p, "is-enabled", <<"end">>)
      BY <1>6, <2>5 DEF IsEnabled
    <3>2. QED  BY <1>0, <2>0, <2>5, <3>1, DecideMade, Plans DEF Decided
  <2>6. QED  BY <2>1, <2>2, <2>3, <2>4, <2>5
<1>7. CASE DeRegister(p)
  <2>0. Here(p) = "version" /\ unit \in Versions
    BY <1>7 DEF DeRegister, Decide, At, Idle, Here
  <2>1. command[p] = "uninstall"
    BY <2>0, CallsBelong DEF Belongs
  <2>2. CASE unit = version[p]
    <3>1. Decide(p, "version", <<"stop", "disable", "remove", "data", "end">>)
      BY <1>7, <2>2 DEF DeRegister
    <3>2. QED  BY <1>0, <2>0, <2>1, <2>2, <3>1, DecideMade, Plans DEF Decided
  <2>3. CASE unit # version[p]
    <3>1. Decide(p, "version", <<"data", "end">>)
      BY <1>7, <2>3 DEF DeRegister
    <3>2. QED  BY <1>0, <2>0, <2>1, <2>3, <3>1, DecideMade, Plans DEF Decided
  <2>4. QED  BY <2>2, <2>3
<1>8. QED  BY <1>1, <1>2, <1>3, <1>4, <1>5, <1>6, <1>7 DEF Looks

(* A look at the unit leaves it as it is, and prepares only what may follow.*)
LEMMA LooksUnits ==
  ASSUME TypeOK, Roles, Agent, Units, NEW p \in Processes, Looks(p)
  PROVE  Units'
<1>1. /\ \A q \in Processes : q # p => Here(q)' = Here(q)
      /\ UNCHANGED <<named, oldPath, stage, cur, target, command, version, done, overlap, swallowed>>
      /\ UNCHANGED <<unit, enabled, active, halfway, replaced>>
      /\ Decided(p)
  BY LooksDecide DEF agent, process, systemd, ghosts
<1>2. /\ ~overlap => Duty(p) /\ \A q \in Processes : q # p => Here(q) = "none"
      /\ Belongs(command[p], Here(p))
      /\ p = "background" <=> command[p] = "enable"
      /\ "background" \in Processes /\ "foreground" \in Processes
      /\ p = "background" \/ p = "foreground"
      /\ Here(p) \in {"check", "register", "is-enabled", "version"}
      /\ None \notin Versions /\ Torn \notin Versions /\ version[p] \in Versions
  BY <1>1, AtWork, ServiceInstallAssumption DEF Processes, Decided, TypeOK, None, Torn
<1>3. ASSUME Plain, Unit  PROVE Unit'
  <2> USE <1>1, <1>2, <1>3 DEF Unit
  <2>1. Runs' /\ Wanted'
    BY DEF Runs, Wanted
  <2>2. HalfDone'
    BY DEF Plain, HalfDone
  <2>3. NotYet'
    <3>1. Here(p)' = "enable" => ~enabled
      BY DEF Decided
    <3>2. Before(p)' => Here(p)' = "enable"
      BY DEF Before, Decided
    <3>3. QED  BY <3>1, <3>2 DEF Plain, NotYet, Before
  <2>4. Between'
    <3>1. Here(p)' \notin {"start", "disable", "daemon-reload"}
      BY DEF Decided
    <3>2. command[p] = "update" => /\ Here(p)' # "enable"
                                   /\ Here(p)' = "end" => unit \in {None, version[p]}
      BY DEF Decided, Belongs
    <3>3. command[p] = "disable" /\ named /\ Here(p)' = "end" => ~enabled
      BY DEF Decided, Belongs, Wanted, Plain
    <3>4. QED  BY <3>1, <3>2, <3>3 DEF Plain, Between
  <2>5. LookedFor'
    BY DEF Plain, LookedFor, Decided
  <2>6. Stages'
    BY DEF Stages
  <2>7. QED  BY <2>1, <2>2, <2>3, <2>4, <2>5, <2>6
<1>4. ASSUME Plain, Unit, Left  PROVE Left'
  <2>1. command["foreground"] = "uninstall" /\ Here("foreground")' \in {"data", "end"}
          => unit \in {None, target} \ {cur}
    <3>1. CASE p = "background"
      BY <1>1, <1>2, <1>4, <3>1 DEF Left
    <3>2. CASE p = "foreground" /\ command[p] = "uninstall"
      <4>1. Here(p) \in {"check", "version"}
        BY <1>2, <3>2 DEF Belongs
      <4>2. CASE Here(p) = "check"
        BY <1>1, <1>2, <3>2, <4>2 DEF Decided, TypeOK
      <4>3. CASE Here(p) = "version"
        <5>1. unit \in Versions /\ (Here(p)' \in {"data", "end"} => unit # version[p])
          BY <1>1, <4>3 DEF Decided
        <5>2. version[p] = cur
          BY <1>2, <1>4, <3>2 DEF Plain, Duty
        <5>3. unit \in {None, Torn, cur, target}
          BY <1>4 DEF Left
        <5>4. QED  BY <1>2, <3>2, <5>1, <5>2, <5>3
      <4>4. QED  BY <4>1, <4>2, <4>3
    <3>3. QED  BY <1>2, <3>1, <3>2
  <2>2. QED  BY <1>1, <1>4, <2>1 DEF Left
<1>5. ASSUME Plain, Unit, Left, swallowed = {}, EnabledRight  PROVE EnabledRight'
  <2>1. CASE p = "foreground"
    BY <1>1, <1>2, <1>5, <2>1 DEF Plain, EnabledRight
  <2>2. CASE p = "background"
    <3>1. command[p] = "enable" /\ version[p] = cur /\ target = cur /\ done = "none"
      BY <1>2, <1>5, <2>2 DEF Plain, Duty
    <3>2. Here(p) = "is-enabled" => unit = cur
      BY <1>1, <1>2, <1>5, <3>1 DEF Decided, Left
    <3>3. Here(p) = "register" => Here(p)' = "chmod"
      BY <1>1, <1>2, <1>5, <2>2, <3>1 DEF Decided, Unit, LookedFor
    <3>4. Here(p) = "check" => Here(p)' \in {"register", "is-enabled"}
      BY <1>1, <3>1 DEF Decided
    <3>5. /\ Here(p)' \in {"enable", "start", "end"} => unit = cur
          /\ Here(p)' = "end" => enabled
      BY <1>1, <1>2, <3>1, <3>2, <3>3, <3>4 DEF Decided
    <3>6. QED  BY <1>1, <2>2, <3>1, <3>5 DEF EnabledRight
  <2>3. QED  BY <1>2, <2>1, <2>2
<1>6. Spared'
  BY <1>1, <1>2 DEF Units, Spared, Belongs, Decided
<1>7. QED  BY <1>1, <1>3, <1>4, <1>5, <1>6 DEF Units, Plain

-----------------------------------------------------------------------------
(* Failures, deaths and reboots.                                            *)

(* How a command goes on after a call that failed, or a death.              *)
GoesOn(p) ==
  \/ Here(p)' = "none" /\ swallowed' = swallowed
  \/ Here(p)' = "register" /\ command[p] = "enable" /\ swallowed' = swallowed \cup {"enable"}
  \/ Here(p)' = "data" /\ command[p] = "uninstall" /\ swallowed' = swallowed \cup {"uninstall"}

(* A call fails, or a process dies.                                         *)
LEMMA FailMade ==
  ASSUME TypeOK, Roles, Agent, NEW p \in Processes, Fail(p) \/ Die(p)
  PROVE  /\ Roles' /\ Agent' /\ todo' \in [Processes -> Seq(Calls)]
         /\ \A q \in Processes : q # p => Here(q)' = Here(q)
         /\ GoesOn(p) /\ swallowed' \subseteq Commands
         /\ Here(p) # "none"
         /\ halfway' = (halfway \/ Here(p) \in {"start", "disable"})
         /\ faults' \in Nat
         /\ UNCHANGED <<systemd, dataDir, agent, process, done, overlap, replaced>>
<1>1. /\ ~Idle(p)
      /\ halfway' = (halfway \/ At(p, "start") \/ At(p, "disable"))
      /\ UNCHANGED <<systemd, dataDir, agent, process, done, overlap, replaced>>
  BY DEF Fail, Die
<1>2. Here(p) # "none" /\ halfway' = (halfway \/ Here(p) \in {"start", "disable"})
  <2>1. {"start", "disable"} \subseteq Calls
    BY DEF Calls
  <2>2. At(p, "start") <=> Here(p) = "start"
    BY <2>1, HereFacts
  <2>3. At(p, "disable") <=> Here(p) = "disable"
    BY <2>1, HereFacts
  <2>4. Here(p) # "none"
    BY <1>1, HereFacts
  <2>5. QED  BY <1>1, <2>2, <2>3, <2>4
<1>3. faults' \in Nat
  <2>1. faults' \in {faults, faults + 1}
    BY DEF Fail, Die
  <2>2. QED  BY <2>1 DEF TypeOK
<1>4. CASE Plan(p, <<>>) /\ swallowed' = swallowed
  <2>1. /\ Roles' /\ Agent' /\ todo' \in [Processes -> Seq(Calls)]
        /\ \A q \in Processes : q # p => Here(q)' = Here(q)
        /\ Here(p)' = "none"
    BY <1>1, <1>4, CallsSettled, Plans
  <2>2. QED  BY <1>1, <1>2, <1>3, <1>4, <2>1 DEF GoesOn, TypeOK
<1>5. CASE /\ Plan(p, <<"register">>) /\ command[p] = "enable"
           /\ swallowed' = swallowed \cup {command[p]}
  <2>1. <<"register">> # <<>> /\ Head(<<"register">>) = "register"
    OBVIOUS
  <2>2. /\ Roles' /\ Agent' /\ todo' \in [Processes -> Seq(Calls)]
        /\ \A q \in Processes : q # p => Here(q)' = Here(q)
        /\ Here(p)' = "register"
    BY <1>1, <1>5, <2>1, CallsSettled, Plans
  <2>3. QED  BY <1>1, <1>2, <1>3, <1>5, <2>2 DEF GoesOn, TypeOK, Commands
<1>6. CASE /\ Plan(p, <<"data", "end">>) /\ command[p] = "uninstall"
           /\ swallowed' = swallowed \cup {command[p]}
  <2>1. <<"data", "end">> # <<>> /\ Head(<<"data", "end">>) = "data"
    OBVIOUS
  <2>2. /\ Roles' /\ Agent' /\ todo' \in [Processes -> Seq(Calls)]
        /\ \A q \in Processes : q # p => Here(q)' = Here(q)
        /\ Here(p)' = "data"
    BY <1>1, <1>6, <2>1, CallsSettled, Plans
  <2>3. QED  BY <1>1, <1>2, <1>3, <1>6, <2>2 DEF GoesOn, TypeOK, Commands
<1>7. QED
  <2>1. CASE Die(p)
    BY <1>4, <2>1 DEF Die
  <2>2. CASE Fail(p) /\ DeRegistering(p)
    BY <1>6, <2>2 DEF Fail, DeRegistering
  <2>3. CASE Fail(p) /\ ~DeRegistering(p) /\ CannotLook(p)
    BY <1>5, <2>3 DEF Fail, CannotLook
  <2>4. CASE Fail(p) /\ ~DeRegistering(p) /\ ~CannotLook(p)
    BY <1>4, <2>4 DEF Fail
  <2>5. QED  BY <2>1, <2>2, <2>3, <2>4

(* A call that fails leaves the unit as it is.                              *)
LEMMA FailUnits ==
  ASSUME TypeOK, Roles, Agent, Units, NEW p \in Processes, Fail(p) \/ Die(p)
  PROVE  Units'
<1>1. /\ \A q \in Processes : q # p => Here(q)' = Here(q)
      /\ GoesOn(p) /\ halfway' = (halfway \/ Here(p) \in {"start", "disable"})
      /\ UNCHANGED <<named, oldPath, stage, cur, target, command, version, done, overlap>>
      /\ UNCHANGED <<unit, enabled, active, replaced>>
      /\ Here(p)' \in {"none", "register", "data"}
      /\ swallowed \subseteq swallowed'
      /\ "background" \in Processes /\ "foreground" \in Processes
  BY FailMade DEF agent, process, systemd, GoesOn, Processes
<1>2. ASSUME Plain', Unit  PROVE Unit'
  <2> USE <1>1, <1>2 DEF Unit
  <2>1. Runs' /\ Wanted'
    BY DEF Runs, Wanted
  <2>2. HalfDone'
    BY DEF HalfDone
  <2>3. NotYet'
    BY DEF NotYet, Before
  <2>4. Between'
    BY DEF Between, Directory
  <2>5. LookedFor'
    BY DEF LookedFor, GoesOn
  <2>6. Stages'
    BY DEF Stages
  <2>7. QED  BY <2>1, <2>2, <2>3, <2>4, <2>5, <2>6
<1>3. ASSUME Left, "uninstall" \notin swallowed'  PROVE Left'
  BY <1>1, <1>3 DEF Left, GoesOn
<1>4. ASSUME EnabledRight  PROVE EnabledRight'
  BY <1>1, <1>4 DEF EnabledRight
<1>5. Spared'
  BY <1>1 DEF Units, Spared
<1>6. /\ Plain' => Plain
      /\ "uninstall" \notin swallowed' => "uninstall" \notin swallowed
      /\ swallowed' = {} => swallowed = {}
  BY <1>1 DEF Plain
<1>7. QED  BY <1>2, <1>3, <1>4, <1>5, <1>6 DEF Units

(* The machine restarts.                                                    *)
LEMMA RebootMade ==
  ASSUME TypeOK, Roles, Agent, Reboot
  PROVE  /\ Roles' /\ Agent' /\ todo' \in [Processes -> Seq(Calls)]
         /\ \A q \in Processes : Here(q)' = "none"
<1>1. \A q \in Processes : todo'[q] = <<>>
  BY DEF Reboot
<1>2. UNCHANGED <<stage, cur, target, command, version, done, overlap>>
  BY DEF Reboot, agent, process
<1>3. \A q \in Processes : Planned(q)' /\ Idle(q)' /\ Here(q)' = "none"
  BY <1>1, Plans DEF Planned, Idle, Here
<1>4. Roles'
  BY <1>2, <1>3 DEF Roles, Processes
<1>5. UNCHANGED <<agent, process, done, overlap>>
  BY DEF Reboot
<1>6. Agent'
  BY <1>3, <1>5, AgentKept
<1>7. todo' \in [Processes -> Seq(Calls)]
  BY DEF Reboot
<1>8. QED  BY <1>3, <1>4, <1>6, <1>7

(* What is enabled runs again.                                              *)
LEMMA RebootUnits ==
  ASSUME TypeOK, Roles, Agent, Units, Reboot
  PROVE  Units'
<1>1. /\ \A q \in Processes : Here(q)' = "none"
      /\ UNCHANGED <<named, oldPath, stage, cur, target, command, version, done, overlap, swallowed>>
      /\ UNCHANGED <<unit, enabled, replaced>>
      /\ "background" \in Processes /\ "foreground" \in Processes
  BY RebootMade DEF Reboot, agent, process, Processes
<1>2. /\ enabled /\ unit \in Versions => active' = unit
      /\ ~(enabled /\ unit \in Versions) => active' = None
  BY DEF Reboot
<1>3. None \notin Versions
  BY ServiceInstallAssumption DEF None
<1>4. ASSUME Unit  PROVE Unit'
  <2> USE <1>1, <1>2, <1>3, <1>4 DEF Unit
  <2>1. Runs' /\ Wanted'
    BY DEF Runs, Wanted
  <2>2. HalfDone'
    BY DEF HalfDone, Wanted
  <2>3. NotYet' /\ Between' /\ LookedFor'
    BY DEF NotYet, Before, Between, LookedFor
  <2>4. Stages'
    BY DEF Stages
  <2>5. QED  BY <2>1, <2>2, <2>3, <2>4
<1>5. (Left => Left') /\ (EnabledRight => EnabledRight') /\ Spared'
  BY <1>1 DEF Left, EnabledRight, Spared
<1>6. QED  BY <1>1, <1>4, <1>5 DEF Units, Plain

-----------------------------------------------------------------------------
(* The agent's steps.                                                       *)

(* What all commands begin with.                                            *)
LEMMA BeginMade ==
  ASSUME TypeOK, Roles, NEW p \in Processes, NEW c \in Commands, NEW v \in Versions,
         Begin(p, c, v),
         p = "background" <=> c = "enable"
  PROVE  /\ Roles' /\ todo' \in [Processes -> Seq(Calls)]
         /\ command' \in [Processes -> Commands] /\ version' \in [Processes -> Versions]
         /\ Here(p) = "none" /\ Here(p)' = "check" /\ command'[p] = c /\ version'[p] = v
         /\ \A q \in Processes : q # p => /\ Here(q)' = Here(q) /\ Idle(q)' = Idle(q)
                                          /\ command'[q] = command[q]
                                          /\ version'[q] = version[q]
         /\ ~overlap' => ~overlap /\ \A q \in Processes : Here(q) = "none" /\ Idle(q)
         /\ overlap' \in BOOLEAN
<1>1. /\ command' = [command EXCEPT ![p] = c] /\ version' = [version EXCEPT ![p] = v]
      /\ todo' = [todo EXCEPT ![p] = <<"check">>] /\ Idle(p)
      /\ overlap' = (overlap \/ \E q \in Processes : ~Idle(q))
  BY DEF Begin, Plan
<1>2. /\ command' \in [Processes -> Commands] /\ version' \in [Processes -> Versions]
      /\ command'[p] = c /\ version'[p] = v /\ todo'[p] = <<"check">>
      /\ \A q \in Processes : q # p => /\ todo'[q] = todo[q]
                                       /\ command'[q] = command[q]
                                       /\ version'[q] = version[q]
  BY <1>1 DEF TypeOK
<1>3. <<"check">> # <<>> /\ Head(<<"check">>) = "check" /\ <<"check">> \in Seq(Calls)
  BY LastCalls DEF Calls
<1>4. Here(p) = "none" /\ Here(p)' = "check"
  BY <1>1, <1>2, <1>3 DEF Here, Idle
<1>5. Planned(p)'
  BY <1>2, Plans DEF Planned
<1>6. \A q \in Processes : q # p => Here(q)' = Here(q) /\ Idle(q)' = Idle(q)
                                    /\ Planned(q)' = Planned(q)
  BY <1>2 DEF Here, Idle, Planned
<1>7. Roles'
  <2>1. \A q \in Processes : Planned(q)'
    BY <1>5, <1>6 DEF Roles
  <2>2. command'["background"] = "enable"
    BY <1>2 DEF Roles, Processes
  <2>3. command'["foreground"] = "enable" => Idle("foreground")'
    BY <1>2, <1>6 DEF Roles, Processes
  <2>4. QED  BY <2>1, <2>2, <2>3 DEF Roles
<1>8. todo' \in [Processes -> Seq(Calls)]
  BY <1>1, <1>3 DEF TypeOK
<1>9. ~overlap' => ~overlap /\ \A q \in Processes : Here(q) = "none" /\ Idle(q)
  BY <1>1 DEF Here, Idle
<1>10. overlap' \in BOOLEAN
  BY <1>1 DEF TypeOK
<1>11. QED  BY <1>2, <1>4, <1>6, <1>7, <1>8, <1>9, <1>10

(* The commands, with the process they run in.                              *)
BeginSome == BeginEnable \/ BeginDisable \/ (\E v \in Versions : BeginUpdate(v)) \/ BeginUninstall

(* Which command begins, and when the agent begins it.                      *)
LEMMA SomeBegins ==
  ASSUME TypeOK, BeginSome
  PROVE  \E p \in Processes, c \in Commands, v \in Versions :
           /\ Begin(p, c, v) /\ (p = "background" <=> c = "enable")
           /\ UNCHANGED cur /\ target' \in Versions
           /\ \/ /\ c = "enable" /\ v = cur /\ stage' = "installed" /\ target = cur
                 /\ target' = target /\ Idle("foreground")
              \/ /\ c = "disable" /\ v = cur /\ stage = "installed"
                 /\ stage' = stage /\ target' = target
              \/ /\ c = "update" /\ v # cur /\ stage = "disabled" /\ target \in {cur, v}
                 /\ stage' = stage /\ target' = v
              \/ /\ c = "uninstall" /\ v = cur /\ stage' = stage /\ target' = target
                 /\ \/ stage = "disabled" /\ target = cur
                    \/ stage = "updated" /\ target # cur
<1>1. /\ cur \in Versions /\ target \in Versions
      /\ "background" \in Processes /\ "foreground" \in Processes
      /\ {"enable", "disable", "update", "uninstall"} \subseteq Commands
  BY DEF TypeOK, Processes, Commands
<1>2. CASE BeginEnable
  <2>1. Begin("background", "enable", cur) /\ UNCHANGED cur
    BY <1>2 DEF BeginEnable, Begin
  <2>2. QED  BY <1>1, <1>2, <2>1 DEF BeginEnable
<1>3. CASE BeginDisable
  <2>1. Begin("foreground", "disable", cur) /\ UNCHANGED cur
    BY <1>3 DEF BeginDisable, Begin
  <2>2. QED  BY <1>1, <1>3, <2>1 DEF BeginDisable
<1>4. ASSUME NEW v \in Versions, BeginUpdate(v)  PROVE  v # cur /\ UNCHANGED cur
  BY <1>4 DEF BeginUpdate, Begin
<1>5. CASE \E v \in Versions : BeginUpdate(v)
  <2>1. PICK v \in Versions : BeginUpdate(v)
    BY <1>5
  <2>2. Begin("foreground", "update", v)
    BY <2>1 DEF BeginUpdate
  <2>3. QED  BY <1>1, <1>4, <2>1, <2>2 DEF BeginUpdate
<1>6. CASE BeginUninstall
  <2>1. Begin("foreground", "uninstall", cur) /\ UNCHANGED cur
    BY <1>6 DEF BeginUninstall, Begin
  <2>2. \/ stage = "disabled" /\ target = cur
        \/ stage = "updated" /\ target # cur
    <3>1. CASE target = cur
      BY <1>6, <3>1 DEF BeginUninstall
    <3>2. CASE target # cur
      BY <1>6, <3>2 DEF BeginUninstall
    <3>3. QED  BY <3>1, <3>2
  <2>3. QED  BY <1>1, <1>6, <2>1, <2>2 DEF BeginUninstall
<1>7. QED  BY <1>2, <1>3, <1>5, <1>6 DEF BeginSome

(* A command begins: nothing of the unit changes, and it can only be the one*)
(* that the agent's stage asks for.                                         *)
LEMMA BeginKeeps ==
  ASSUME TypeOK, Roles, Agent, Units, BeginSome
  PROVE  TypeOK' /\ Roles' /\ Agent' /\ Units'
<1>1. PICK p \in Processes, c \in Commands, v \in Versions :
           /\ Begin(p, c, v) /\ (p = "background" <=> c = "enable")
           /\ UNCHANGED cur /\ target' \in Versions
           /\ \/ /\ c = "enable" /\ v = cur /\ stage' = "installed" /\ target = cur
                 /\ target' = target /\ Idle("foreground")
              \/ /\ c = "disable" /\ v = cur /\ stage = "installed"
                 /\ stage' = stage /\ target' = target
              \/ /\ c = "update" /\ v # cur /\ stage = "disabled" /\ target \in {cur, v}
                 /\ stage' = stage /\ target' = v
              \/ /\ c = "uninstall" /\ v = cur /\ stage' = stage /\ target' = target
                 /\ \/ stage = "disabled" /\ target = cur
                    \/ stage = "updated" /\ target # cur
  BY SomeBegins
<1>2. /\ Roles' /\ todo' \in [Processes -> Seq(Calls)]
      /\ command' \in [Processes -> Commands] /\ version' \in [Processes -> Versions]
      /\ Here(p) = "none" /\ Here(p)' = "check" /\ command'[p] = c /\ version'[p] = v
      /\ \A q \in Processes : q # p => /\ Here(q)' = Here(q) /\ Idle(q)' = Idle(q)
                                       /\ command'[q] = command[q]
                                       /\ version'[q] = version[q]
      /\ ~overlap' => ~overlap /\ \A q \in Processes : Here(q) = "none" /\ Idle(q)
      /\ overlap' \in BOOLEAN
  BY <1>1, BeginMade
<1>3. /\ done' = "none" /\ UNCHANGED <<unit, enabled, active, dataDir, named, oldPath, cur, faults>>
      /\ UNCHANGED <<halfway, swallowed, replaced>>
  BY <1>1 DEF Begin, systemd
<1>4. /\ p = "background" \/ p = "foreground"
      /\ "background" \in Processes /\ "foreground" \in Processes
  BY DEF Processes
<1>5. TypeOK'
  <2>1. stage' \in {"installed", "disabled", "updated", "uninstalled", "removed"}
    BY <1>1 DEF TypeOK
  <2>2. QED  BY <1>1, <1>2, <1>3, <2>1 DEF TypeOK
<1>6. Agent'
  <2>1. stage' = "installed" => target' = cur'
    BY <1>1 DEF Agent
  <2>2. ~overlap' => Idle("background")' \/ Idle("foreground")'
    BY <1>2, <1>4
  <2>3. ~overlap' /\ ~Idle("background")' => stage' = "installed" /\ version'["background"] = cur'
    BY <1>1, <1>2, <1>4
  <2>4. ~Idle("foreground")' =>
          /\ command'["foreground"] = "disable" => stage' = "installed"
          /\ command'["foreground"] = "update" =>
               stage' = "disabled" /\ version'["foreground"] = target' /\ target' # cur'
          /\ command'["foreground"] = "uninstall" =>
               /\ \/ stage' = "disabled" /\ target' = cur'
                  \/ stage' = "updated" /\ target' # cur'
               /\ version'["foreground"] = cur'
    <3>1. CASE p = "background"
      BY <1>1, <1>2, <1>4, <3>1
    <3>2. CASE p = "foreground"
      BY <1>1, <1>2, <1>4, <3>2
    <3>3. QED  BY <1>4, <3>1, <3>2
  <2>5. QED  BY <1>3, <2>1, <2>2, <2>3, <2>4 DEF Agent
<1>7. ASSUME Plain', Unit  PROVE Unit'
  <2>1. \A q \in Processes : Here(q) = "none" /\ Here(q)' \in {"none", "check"}
    BY <1>2, <1>7 DEF Plain
  <2>2. Runs' /\ Wanted' /\ HalfDone'
    BY <1>3, <1>7, <2>1 DEF Unit, Runs, Wanted, HalfDone
  <2>3. NotYet' /\ Between' /\ LookedFor'
    BY <1>4, <2>1 DEF NotYet, Before, Between, LookedFor
  <2>4. Stages'
    BY <1>1, <1>3, <1>7 DEF Unit, Stages
  <2>5. QED  BY <2>2, <2>3, <2>4 DEF Unit
<1>8. ASSUME Plain', Left  PROVE Left'
  <2>1. \A q \in Processes : Here(q)' \in {"none", "check"}
    BY <1>2, <1>8 DEF Plain
  <2>2. unit' \in {None, Torn, cur', target'}
    BY <1>1, <1>3, <1>8 DEF Left
  <2>3. /\ stage' = "uninstalled" => unit' \in {None, target'}
        /\ stage' = "removed" => unit' = None
    BY <1>1, <1>3, <1>8 DEF Left
  <2>4. QED  BY <1>4, <2>1, <2>2, <2>3 DEF Left
<1>9. ASSUME Plain'  PROVE EnabledRight'
  BY <1>2, <1>3, <1>4, <1>9 DEF Plain, EnabledRight
<1>10. Spared'
  <2>1. CASE p = "foreground"
    BY <1>2, <2>1 DEF Spared
  <2>2. CASE p = "background"
    <3>1. Here("foreground")' = "none"
      BY <1>1, <1>2, <1>4, <2>2 DEF Here, Idle
    <3>2. QED  BY <3>1 DEF Spared
  <2>3. QED  BY <1>4, <2>1, <2>2
<1>11. Plain' => Plain
  BY <1>2, <1>3 DEF Plain
<1>12. QED  BY <1>2, <1>3, <1>5, <1>6, <1>7, <1>8, <1>9, <1>10, <1>11 DEF Units

(* A version is installed: no command is at work that the agent waits for.  *)
LEMMA InstallKeeps ==
  ASSUME TypeOK, Roles, Agent, Units, NEW v \in Versions, Install(v)
  PROVE  TypeOK' /\ Roles' /\ Agent' /\ Units'
<1>1. /\ \/ stage = "uninstalled" /\ v = target
         \/ stage = "removed"
      /\ stage' = "installed" /\ cur' = v /\ target' = v /\ dataDir' = TRUE
      /\ UNCHANGED <<unit, enabled, active, named, oldPath, command, version, todo, done, faults>>
      /\ UNCHANGED <<overlap, halfway, swallowed, replaced>>
  BY DEF Install, systemd, process, ghosts
<1>2. /\ \A q \in Processes : Here(q)' = Here(q) /\ Idle(q)' = Idle(q) /\ Planned(q)' = Planned(q)
      /\ "background" \in Processes /\ "foreground" \in Processes
      /\ stage \notin {"installed", "disabled", "updated"}
  BY <1>1 DEF Here, Idle, Planned, Processes
<1>3. TypeOK'
  BY <1>1 DEF TypeOK
<1>4. Roles'
  BY <1>1, <1>2 DEF Roles
<1>5. Idle("foreground") /\ (~overlap => Idle("background"))
  BY <1>2 DEF Agent, Roles, TypeOK, Commands
<1>6. ~overlap => done \notin {"enable", "disable", "update"}
  BY <1>2 DEF Agent
<1>7. Agent'
  BY <1>1, <1>2, <1>5, <1>6 DEF Agent
<1>8. ASSUME Plain', Unit  PROVE Unit'
  <2>1. \A q \in Processes : Here(q) = "none" /\ Here(q)' = "none"
    BY <1>1, <1>2, <1>5, <1>8 DEF Plain, Here, Idle, Processes
  <2>2. QED  BY <1>1, <1>2, <1>8, <2>1
             DEF Unit, Runs, Wanted, HalfDone, NotYet, Before, Between, LookedFor, Stages
<1>9. Left => Left'
  <2>1. Here("foreground")' = "none"
    BY <1>2, <1>5 DEF Here, Idle
  <2>2. QED  BY <1>1, <2>1 DEF Left
<1>10. ASSUME Plain'  PROVE EnabledRight'
  <2>1. Here("background")' = "none"
    BY <1>1, <1>2, <1>5, <1>10 DEF Plain, Here, Idle
  <2>2. QED  BY <1>1, <1>6, <1>10, <2>1 DEF Plain, EnabledRight
<1>11. Spared'
  BY <1>1, <1>2 DEF Units, Spared
<1>12. QED  BY <1>1, <1>3, <1>4, <1>7, <1>8, <1>9, <1>10, <1>11 DEF Units, Plain

(* A command has succeeded.                                                 *)
LEMMA FinishKeeps ==
  ASSUME TypeOK, Roles, Agent, Units, NEW p \in Processes, Finish(p)
  PROVE  TypeOK' /\ Roles' /\ Agent' /\ Units'
<1>1. /\ At(p, "end") /\ Made(p) /\ done' = command[p]
      /\ UNCHANGED <<unit, enabled, active, dataDir, named, oldPath, cur, target, command, version>>
      /\ UNCHANGED <<faults, overlap, halfway, swallowed, replaced>>
  BY DEF Finish, systemd, process, ghosts
<1>2. /\ command[p] = "enable" => stage' = stage
      /\ command[p] = "disable" => stage' = "disabled"
      /\ command[p] = "update" => stage' = "updated"
      /\ command[p] = "uninstall" /\ stage = "updated" => stage' = "uninstalled"
      /\ command[p] = "uninstall" /\ stage # "updated" => stage' = "removed"
      /\ command[p] \in Commands
  <2>1. CASE command[p] = "enable"
    BY <2>1 DEF Finish, TypeOK
  <2>2. CASE command[p] = "disable"
    BY <2>2 DEF Finish, TypeOK
  <2>3. CASE command[p] = "update"
    BY <2>3 DEF Finish, TypeOK
  <2>4. CASE command[p] = "uninstall" /\ stage = "updated"
    BY <2>4 DEF Finish, TypeOK
  <2>5. CASE command[p] = "uninstall" /\ stage # "updated"
    BY <2>5 DEF Finish, TypeOK
  <2>6. command[p] \in Commands
    BY DEF TypeOK
  <2>7. QED  BY <2>1, <2>2, <2>3, <2>4, <2>5, <2>6 DEF Commands
<1>3. todo'[p] = Tail(todo[p]) /\ Elsewhere(p) /\ todo' \in [Processes -> Seq(Calls)]
  <2>1. todo[p] # <<>> /\ todo[p] \in Seq(Calls)
    BY <1>1 DEF At, Idle, TypeOK
  <2>2. Tail(todo[p]) \in Seq(Calls)
    BY <2>1
  <2>3. QED  BY <1>1, <2>2 DEF Made, Elsewhere, TypeOK
<1>4. "end" \in Makes
  BY DEF Makes, Calls
<1>5. Planned(p)' /\ Here(p)' = "none"
  <2>1. Planned(p)' /\ Follows(p, "end")'
    BY <1>1, <1>3, <1>4, RestOfPlan
  <2>2. QED  BY <2>1 DEF Follows
<1>6. \A q \in Processes : q # p => Here(q)' = Here(q) /\ Idle(q)' = Idle(q)
                                    /\ Planned(q)' = Planned(q)
  BY <1>1, <1>3, ElsewhereHere
<1>7. Here(p) = "end" /\ ~Idle(p)
  BY <1>1 DEF At, Here, Idle
<1>8. Roles'
  BY <1>1, <1>5, <1>6, <1>7 DEF Roles, Processes
<1>9. TypeOK'
  <2>1. stage' \in {"installed", "disabled", "updated", "uninstalled", "removed"}
    BY <1>2 DEF TypeOK, Commands
  <2>2. QED  BY <1>1, <1>2, <1>3, <2>1 DEF TypeOK
<1>10. /\ ~overlap => Duty(p) /\ \A q \in Processes : q # p => Here(q) = "none"
       /\ p = "background" <=> command[p] = "enable"
       /\ "background" \in Processes /\ "foreground" \in Processes
       /\ p = "background" \/ p = "foreground"
  BY <1>7, AtWork DEF Processes
<1>11. \A q \in Processes : Idle(q)' <=> Here(q)' = "none"
  <2>1. ASSUME NEW q \in Processes  PROVE todo'[q] \in Seq(Calls) /\ (todo'[q] # <<>> => Head(todo'[q]) \in Calls)
    BY <1>3
  <2>2. "none" \notin Calls
    BY DEF Calls
  <2>3. QED  BY <2>1, <2>2 DEF Here, Idle
<1>12. Agent'
  <2>1. ~overlap' => Idle("background")' /\ Idle("foreground")'
    BY <1>1, <1>5, <1>6, <1>10, <1>11
  <2>2. stage' = "installed" => target' = cur'
    BY <1>1, <1>2 DEF Agent, Commands
  <2>3. ~Idle("foreground")' => p = "background" /\ ~Idle("foreground") /\ stage' = stage
    BY <1>2, <1>5, <1>6, <1>10, <1>11
  <2>4. ~overlap' =>
          /\ done' = "enable" => stage' = "installed"
          /\ done' = "disable" => stage' = "disabled"
          /\ done' = "update" => stage' = "updated"
    BY <1>1, <1>2, <1>10 DEF Duty
  <2>5. QED  BY <1>1, <2>1, <2>2, <2>3, <2>4 DEF Agent
<1>13. ASSUME Plain, Unit  PROVE Unit'
  <2> USE <1>1, <1>13 DEF Unit
  <2>1. Runs' /\ Wanted'
    BY DEF Runs, Wanted
  <2>2. HalfDone'
    BY <1>6, <1>7 DEF HalfDone
  <2>3. NotYet' /\ Between' /\ LookedFor'
    BY <1>5, <1>6, <1>10 DEF NotYet, Before, Between, LookedFor, Directory
  <2>4. Stages'
    <3>1. CASE command[p] = "enable"
      BY <1>2, <1>10, <3>1 DEF Plain, Stages, Duty
    <3>2. CASE command[p] = "disable"
      BY <1>2, <1>7, <3>2 DEF Stages, Between
    <3>3. CASE command[p] = "update"
      BY <1>2, <1>7, <1>10, <3>3 DEF Plain, Stages, Between, Duty, Directory
    <3>4. CASE command[p] = "uninstall"
      BY <1>2, <3>4 DEF Stages
    <3>5. QED  BY <1>2, <3>1, <3>2, <3>3, <3>4 DEF Commands
  <2>5. QED  BY <2>1, <2>2, <2>3, <2>4
<1>14. ASSUME Plain, Unit, Left  PROVE Left'
  <2>1. stage' = "uninstalled" => unit' \in {None, target'}
    BY <1>1, <1>2, <1>7, <1>10, <1>14 DEF Plain, Duty, Left, Commands
  <2>2. stage' = "removed" => unit' = None
    <3>1. CASE command[p] = "uninstall" /\ stage # "updated"
      BY <1>1, <1>7, <1>10, <1>14, <3>1 DEF Plain, Duty, Left
    <3>2. CASE command[p] = "enable"
      BY <1>1, <1>2, <1>10, <1>14, <3>2 DEF Plain, Duty
    <3>3. QED  BY <1>2, <3>1, <3>2 DEF Commands
  <2>3. command'["foreground"] = "uninstall" /\ Here("foreground")' \in {"data", "end"}
          => unit' \in {None, target'} \ {cur'}
    BY <1>1, <1>5, <1>6, <1>10, <1>14 DEF Left
  <2>4. QED  BY <1>1, <1>14, <2>1, <2>2, <2>3 DEF Left
<1>15. ASSUME Plain, EnabledRight  PROVE EnabledRight'
  <2>1. done' = "enable" => unit' = cur' /\ enabled'
    BY <1>1, <1>7, <1>10, <1>15 DEF EnabledRight
  <2>2. Here("background")' \notin {"enable", "start", "end"}
    BY <1>5, <1>6, <1>7, <1>10, <1>15 DEF Plain
  <2>3. QED  BY <2>1, <2>2 DEF EnabledRight
<1>16. Spared'
  BY <1>1, <1>5, <1>6, <1>10 DEF Units, Spared
<1>17. QED  BY <1>1, <1>8, <1>9, <1>12, <1>13, <1>14, <1>15, <1>16 DEF Units, Plain

-----------------------------------------------------------------------------
(* The inductive invariant.                                                 *)

(* The invariant holds before anything has happened.                        *)
LEMMA InitIInv == Init => IInv
<1> SUFFICES ASSUME Init PROVE IInv
  OBVIOUS
<1>1. /\ unit = None /\ enabled = FALSE /\ active = None /\ dataDir = TRUE
      /\ named \in BOOLEAN /\ oldPath \in BOOLEAN /\ stage = "installed" /\ cur \in Versions /\ target = cur
      /\ command = [p \in Processes |-> "enable"]
      /\ version = [p \in Processes |-> cur]
      /\ todo = [p \in Processes |-> <<>>]
      /\ done = "none" /\ faults = 0
      /\ overlap = FALSE /\ halfway = FALSE /\ swallowed = {} /\ replaced = FALSE
  BY DEF Init
<1>2. \A p \in Processes : Here(p) = "none" /\ Idle(p) /\ Planned(p)
  BY <1>1, Plans DEF Here, Idle, Planned
<1>3. "background" \in Processes /\ "foreground" \in Processes
  BY DEF Processes
<1>4. TypeOK
  <2>1. /\ command \in [Processes -> Commands] /\ version \in [Processes -> Versions]
        /\ todo \in [Processes -> Seq(Calls)]
    BY <1>1 DEF Commands
  <2>2. QED  BY <1>1, <2>1 DEF TypeOK
<1>5. Roles /\ Agent /\ Spared
  BY <1>1, <1>2, <1>3 DEF Roles, Agent, Spared
<1>6. Unit /\ Left /\ EnabledRight
  BY <1>1, <1>2, <1>3
  DEF Unit, Runs, Wanted, HalfDone, NotYet, Before, Between, LookedFor, Stages, Left, EnabledRight
<1>7. QED  BY <1>4, <1>5, <1>6 DEF IInv

(* The steps of one process.                                                *)
LEMMA StepKeeps ==
  ASSUME TypeOK, Roles, Agent, Units, NEW p \in Processes, Step(p)
  PROVE  TypeOK' /\ Roles' /\ Agent' /\ Units'
<1>1. CASE Finish(p)
  BY <1>1, FinishKeeps
<1>2. CASE Looks(p)
  <2>1. /\ Roles' /\ Agent' /\ todo' \in [Processes -> Seq(Calls)]
        /\ UNCHANGED <<systemd, dataDir, agent, process, done, faults, ghosts>>
    BY <1>2, LooksDecide
  <2>2. TypeOK'
    BY <2>1 DEF TypeOK, systemd, agent, process, ghosts
  <2>3. QED  BY <1>2, <2>1, <2>2, LooksUnits
<1>3. CASE Acts(p)
  <2>1. TypeOK' /\ Roles' /\ Agent'
    BY <1>3, ActsMade
  <2>2. Units'
    BY <1>3, ActsUnits
  <2>3. QED  BY <2>1, <2>2
<1>4. CASE Fail(p) \/ Die(p)
  <2>1. /\ Roles' /\ Agent' /\ todo' \in [Processes -> Seq(Calls)]
        /\ swallowed' \subseteq Commands /\ faults' \in Nat /\ halfway' \in BOOLEAN
        /\ UNCHANGED <<systemd, dataDir, agent, process, done, overlap, replaced>>
    BY <1>4, FailMade DEF TypeOK
  <2>2. TypeOK'
    BY <2>1 DEF TypeOK, systemd, agent, process
  <2>3. QED  BY <1>4, <2>1, <2>2, FailUnits
<1>5. QED  BY <1>1, <1>2, <1>3, <1>4 DEF Step, Looks, Acts

(* Every step keeps the invariant.                                          *)
LEMMA IInvStep == IInv /\ [Next]_vars => IInv'
<1> SUFFICES ASSUME IInv, [Next]_vars PROVE IInv'
  OBVIOUS
<1>1. TypeOK /\ Roles /\ Agent /\ Units
  BY DEF IInv, Units
<1>2. CASE BeginSome
  BY <1>1, <1>2, BeginKeeps DEF IInv, Units
<1>3. ASSUME NEW v \in Versions, Install(v)  PROVE IInv'
  BY <1>1, <1>3, InstallKeeps DEF IInv, Units
<1>4. ASSUME NEW p \in Processes, Step(p)  PROVE IInv'
  BY <1>1, <1>4, StepKeeps DEF IInv, Units
<1>5. CASE Reboot
  <2>1. Roles' /\ Agent' /\ todo' \in [Processes -> Seq(Calls)]
    BY <1>1, <1>5, RebootMade
  <2>2. Units'
    BY <1>1, <1>5, RebootUnits
  <2>3. TypeOK'
    <3>1. /\ faults' = faults + 1 /\ active' \in {unit, None} /\ halfway' = FALSE
          /\ unit \notin Versions => active' = None
          /\ UNCHANGED <<unit, enabled, dataDir, agent, process, done, overlap, swallowed, replaced>>
      BY <1>5 DEF Reboot
    <3>2. active' \in Versions \cup {None}
      BY <3>1
    <3>3. faults' \in Nat
      BY <1>1, <3>1 DEF TypeOK
    <3>4. QED  BY <1>1, <2>1, <3>1, <3>2, <3>3 DEF TypeOK, agent, process
  <2>4. QED  BY <2>1, <2>2, <2>3 DEF IInv, Units
<1>6. CASE UNCHANGED vars
  <2>1. /\ UNCHANGED <<unit, enabled, active, dataDir, named, oldPath, stage, cur, target, command, version>>
        /\ UNCHANGED <<todo, done, faults, overlap, halfway, swallowed, replaced>>
    BY <1>6 DEF vars, systemd, agent, process, ghosts
  <2>2. \A q \in Processes : Here(q)' = Here(q) /\ Idle(q)' = Idle(q) /\ Planned(q)' = Planned(q)
    BY <2>1 DEF Here, Idle, Planned
  <2>3. TypeOK' /\ Roles' /\ Agent' /\ Spared'
    BY <1>1, <2>1, <2>2 DEF TypeOK, Roles, Agent, Units, Spared, Processes
  <2>4. (Unit => Unit') /\ (Left => Left') /\ (EnabledRight => EnabledRight')
    BY <2>1, <2>2 DEF Unit, Runs, Wanted, HalfDone, NotYet, Before, Between, LookedFor, Stages,
                      Left, EnabledRight, Processes, Directory
  <2>5. QED  BY <1>1, <2>1, <2>3, <2>4 DEF IInv, Units, Plain
<1>7. QED  BY <1>2, <1>3, <1>4, <1>5, <1>6 DEF Next, BeginSome

(* The inductive invariant of the commands and the unit                     *)
(* (immediatecmds.go:17-139, servicehandler.go:29-141).                     *)
THEOREM Invariance == Spec => []IInv
<1>1. Init => IInv
  BY InitIInv
<1>2. IInv /\ [Next]_vars => IInv'
  BY IInvStep
<1>3. QED  BY <1>1, <1>2, PTL DEF Spec

(* Every variable keeps its type.                                           *)
THEOREM TypeCorrect == Spec => []TypeOK
<1>1. IInv => TypeOK
  BY DEF IInv
<1>2. QED  BY <1>1, Invariance, PTL

(* After an enable that succeeded the unit has its version, will be started *)
(* with the machine and runs: if no commands overlapped, Register replaced  *)
(* no service that was on, no failure was taken for a success, and, for the *)
(* service itself, nothing left the unit enabled and the service off        *)
(* (immediatecmds.go:96-139).                                               *)
THEOREM EnablesLast == Spec => []EnableLasts
<1>1. ASSUME IInv, done = "enable", ~overlap, swallowed = {}, ~replaced
      PROVE  unit = cur /\ enabled /\ (active = cur \/ halfway)
  <2>1. Plain /\ Unit /\ EnabledRight /\ Agent /\ TypeOK /\ Roles
    BY <1>1 DEF IInv, Plain
  <2>2. unit = cur /\ enabled
    BY <1>1, <2>1 DEF EnabledRight
  <2>3. \A p \in Processes : Here(p) = "none"
    BY <1>1, <2>1 DEF Agent, Here, Idle, Processes
  <2>4. active # None \/ halfway
    BY <2>1, <2>2, <2>3 DEF Unit, HalfDone
  <2>5. QED  BY <2>1, <2>2, <2>4 DEF Unit, Runs
<1>2. IInv => EnableLasts
  BY <1>1 DEF EnableLasts
<1>3. QED  BY <1>2, Invariance, PTL

(* After disable under the name runCommandService nothing runs and nothing  *)
(* will be started, whatever failed or died before it, if no commands       *)
(* overlapped and Register replaced no service that was on                  *)
(* (immediatecmds.go:43-73).                                                *)
THEOREM DisablesStop == Spec => []DisableStops
<1>1. IInv => DisableStops
  BY DEF IInv, DisableStops, Plain, Unit, Stages, Runs
<1>2. QED  BY <1>1, Invariance, PTL

(* After update no service of the old version is left, whatever failed or   *)
(* died before it, if no commands overlapped, Register replaced no service  *)
(* that was on, and the environment does not name the old version's         *)
(* directory (immediatecmds.go:17-39).                                      *)
THEOREM UpdatesTakeOver == Spec => []UpdateTakesOver
<1>1. IInv => UpdateTakesOver
  BY DEF IInv, UpdateTakesOver, Plain, Unit, Stages, Runs, Agent
<1>2. QED  BY <1>1, Invariance, PTL

(* A removed extension leaves nothing of its service behind, if no commands *)
(* overlapped, Register replaced no service that was on, and no uninstall   *)
(* failed and reported success (immediatecmds.go:77-93).                    *)
THEOREM NothingIsLeft == Spec => []NothingLeft
<1>1. IInv => NothingLeft
  <2>1. None \notin Versions
    BY ServiceInstallAssumption DEF None
  <2>2. QED  BY <2>1 DEF IInv, NothingLeft, Plain, Left, Unit, Wanted, Runs
<1>2. QED  BY <1>1, Invariance, PTL

(* Only the calls of the uninstall itself could touch the unit.             *)
LEMMA SystemdKept ==
  ASSUME IInv, [Next]_vars, ~UNCHANGED systemd, UNCHANGED <<faults, todo["background"]>>,
         command["foreground"] = "uninstall", ~Idle("foreground")
  PROVE  Acts("foreground")
<1>1. ~BeginSome
  BY DEF BeginSome, BeginEnable, BeginDisable, BeginUpdate, BeginUninstall, Begin
<1>2. ASSUME NEW v \in Versions  PROVE ~Install(v)
  BY DEF Install
<1>3. ~Reboot
  <2>1. faults \in Nat
    BY DEF IInv, TypeOK
  <2>2. QED  BY <2>1 DEF Reboot
<1>4. ~UNCHANGED vars
  BY DEF vars
<1>5. PICK p \in Processes : Step(p)
  BY <1>1, <1>2, <1>3, <1>4 DEF Next, BeginSome
<1>6. Acts(p)
  <2>1. ~Finish(p)
    BY DEF Finish
  <2>2. ~Looks(p)
    BY LooksDecide DEF IInv
  <2>3. ~(Fail(p) \/ Die(p))
    BY DEF Fail, Die
  <2>4. QED  BY <1>5, <2>1, <2>2, <2>3 DEF Step, Looks, Acts
<1>7. p # "background"
  BY <1>6, ActsMade DEF IInv
<1>8. QED  BY <1>6, <1>7 DEF Processes

(* Uninstall never touches the service of another version                   *)
(* (servicehandler.go:107-141).                                             *)
THEOREM OthersSpared == Spec => UninstallSpares
<1>1. ASSUME IInv, [Next]_vars,
             command["foreground"] = "uninstall", ~Idle("foreground"),
             UNCHANGED <<faults, todo["background"]>>,
             ~overlap \/ version["background"] = version["foreground"],
             unit \in Versions \ {version["foreground"]}
      PROVE  UNCHANGED systemd
  <2> SUFFICES ASSUME ~UNCHANGED systemd PROVE FALSE
    OBVIOUS
  <2>1. Acts("foreground") /\ "foreground" \in Processes
    BY <1>1, SystemdKept DEF Processes
  <2>2. TypeOK /\ Roles /\ Spared
    BY <1>1 DEF IInv
  <2>3. None \notin Versions /\ Torn \notin Versions
    BY ServiceInstallAssumption DEF None, Torn
  <2>4. Here("foreground") \notin {"stop", "disable", "remove"}
    BY <1>1, <2>2, <2>3 DEF Spared
  <2>5. Here("foreground") \notin {"create", "write", "enable", "start"}
    BY <1>1, <2>1, <2>2, CallsBelong DEF Belongs
  <2>6. \A c \in {"create", "write", "enable", "start", "stop", "disable", "remove"} :
          ~Call("foreground", c)
    BY <2>4, <2>5 DEF Call, At, Here, Idle
  <2>7. UNCHANGED systemd
    BY <2>1, <2>6 DEF Acts, Prepare, RemoveUnit, CreateUnit, WriteUnit, EnableUnit, StartUnit,
         StopUnit, DisableUnit, RemoveData
  <2>8. QED  BY <2>7
<1>2. ASSUME IInv, [Next]_vars
      PROVE  [command["foreground"] = "uninstall" /\ ~Idle("foreground")
               /\ UNCHANGED <<faults, todo["background"]>>
               /\ (~overlap \/ version["background"] = version["foreground"])
               /\ unit \in Versions \ {version["foreground"]}
               => UNCHANGED systemd]_vars
  BY <1>1, <1>2
<1>3. QED  BY <1>2, Invariance, PTL DEF Spec, UninstallSpares
=============================================================================
