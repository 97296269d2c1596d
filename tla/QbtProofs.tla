------------------------------ MODULE QbtProofs ------------------------------
(***************************************************************************)
(* Theorems about Qbt, for any requests and volumes: its types, that a     *)
(* configured application can start, and that a configuration whose        *)
(* request succeeded is in force.                                          *)
(***************************************************************************)
EXTENDS Qbt, TLAPS

\* What a request to configure has brought about before it saves its row: the
\* file, the unit and the autostart, none of which is ever taken back.
StepsAreKept ==
  /\ \A r \in Requests :
       /\ pc[r] \in {"conf", "openUnit", "unit", "launch", "row"} => conf # None
       /\ pc[r] \in {"unit", "launch", "row"} => unit # None
       /\ pc[r] = "row" => enabled
  /\ row # None => conf # None /\ unit # None /\ enabled

\* Without a mishap a request to configure is alone: what it wrote is there, and
\* the service it stopped does not run until it launches it.
Steady(r) ==
  /\ pc[r] = "openConf" => service = None
  /\ pc[r] = "conf" => last = r /\ service = None /\ conf = Empty
  /\ pc[r] = "openUnit" => last = r /\ service = None /\ conf = r
  /\ pc[r] = "unit" => last = r /\ service = None /\ conf = r /\ unit = Empty
  /\ pc[r] = "launch" => last = r /\ service = None /\ conf = r /\ unit = r
  /\ pc[r] = "row" => last = r /\ service \in {None, r} /\ conf = r /\ unit = r

InForce(r) == conf = r /\ unit = r /\ row = r /\ service \in {r, None}
Whole == {conf, unit} \subseteq Requests \cup {None}
\* Where the last request that touched the files may have left them half written.
HalfWay == {"conf", "openUnit", "unit", "error", "killed"}

AloneIsInForce ==
  ~mishap => /\ \A q, r \in Active : q = r
             /\ \A r \in Requests : Steady(r)
             /\ (last # None /\ pc[last] = "ok") => InForce(last)
             /\ Whole \/ (last # None /\ pc[last] \in HalfWay)

\* A request touches the files after its first steps only.
LastHasTouched ==
  last # None =>
    pc[last] \in {"conf", "openUnit", "unit", "launch", "row"} \cup Answers

\* Only a request to configure takes its steps.
ConfigureTakesThem ==
  \A r \in Requests :
    pc[r] \in {"validate", "install", "dirs", "halt", "openConf", "conf", "openUnit", "unit",
              "launch", "row"}
      => job[r].op = "configure"

IInv == TypeOK /\ ConfigureTakesThem /\ StepsAreKept /\ LastHasTouched /\ AloneIsInForce

-----------------------------------------------------------------------------
LEMMA InitInv == Init => IInv
<1> SUFFICES ASSUME Init PROVE IInv
  OBVIOUS
<1>1. TypeOK /\ ConfigureTakesThem /\ StepsAreKept /\ LastHasTouched
  BY DEF Init, ConfigureTakesThem, TypeOK, Contents, StepsAreKept, LastHasTouched
<1>2. AloneIsInForce
  BY DEF Init, AloneIsInForce, Active, Steps, Steady, Whole
<1>3. QED
  BY <1>1, <1>2 DEF IInv

LEMMA NoneIsNoRequest == None \notin Requests /\ {Empty, Torn} \cap (Requests \cup {None}) = {}
BY QbtAssumption

-----------------------------------------------------------------------------
(* Types                                                                   *)

LEMMA NextTypes == ASSUME TypeOK, [Next]_vars PROVE TypeOK'
<1> USE DEF TypeOK, Contents
<1>1. ASSUME NEW r \in Requests, NEW j \in Jobs, Begin(r, j) PROVE TypeOK'
  <2>1. FirstStep[j.op] \in Steps
    BY DEF Jobs, FirstStep, Steps
  <2>2. QED
    BY <1>1, <2>1 DEF Begin, systemVars
<1>2. ASSUME NEW r \in Requests, Continue(r) PROVE TypeOK'
  <2> USE DEF Goto, Fail, Steps, Answers, systemVars, Written
  <2>1. CASE Validate(r) \/ EnsureInstalled(r) \/ ApplyDirs(r)
    BY <2>1 DEF Validate, EnsureInstalled, ApplyDirs
  <2>2. CASE Halt(r)
    BY <2>2 DEF Halt
  <2>3. CASE OpenConfig(r) \/ WriteConfig(r) \/ OpenUnit(r) \/ InstallUnit(r) \/ SaveRow(r)
    BY <2>3 DEF OpenConfig, WriteConfig, OpenUnit, InstallUnit, SaveRow
  <2>4. CASE Launch(r) \/ Start(r)
    BY <2>4 DEF Launch, Start, EnableNow, EnableFails
  <2>5. CASE Stop(r)
    BY <2>5 DEF Stop
  <2>6. QED
    BY <1>2, <2>1, <2>2, <2>3, <2>4, <2>5 DEF Continue
<1>3. ASSUME NEW S \in SUBSET VolumeNames, Remount(S) PROVE TypeOK'
  BY <1>3 DEF Remount
<1>4. ASSUME Crash \/ Reboot PROVE TypeOK'
  <2>1. pc' \in [Requests -> {"new"} \cup Steps \cup Answers]
    BY <1>4 DEF Crash, Reboot, Kill, Answers
  <2>2. /\ volumes' \subseteq VolumeNames /\ service' \in Contents
        /\ UNCHANGED <<conf, unit, enabled, row, job, last, mishap>>
    BY <1>4 DEF Crash, Reboot, systemVars
  <2>3. QED
    BY <2>1, <2>2
<1>5. CASE UNCHANGED vars
  BY <1>5 DEF vars, systemVars
<1>6. QED
  BY <1>1, <1>2, <1>3, <1>4, <1>5 DEF Next

LEMMA NextTakesThem == ASSUME IInv, [Next]_vars PROVE ConfigureTakesThem'
<1> USE DEF IInv, TypeOK, ConfigureTakesThem
<1>1. ASSUME NEW r \in Requests, NEW j \in Jobs, Begin(r, j) PROVE ConfigureTakesThem'
  <2>1. /\ FirstStep[j.op] \in {"validate", "start", "stop"}
        /\ FirstStep[j.op] = "validate" => j.op = "configure"
    BY DEF Jobs, FirstStep
  <2>2. QED
    BY <1>1, <2>1 DEF Begin
<1>2. ASSUME NEW r \in Requests, Continue(r) PROVE ConfigureTakesThem'
  BY <1>2 DEF Continue, Validate, EnsureInstalled, ApplyDirs, Halt, OpenConfig, WriteConfig,
              OpenUnit, InstallUnit, Launch, SaveRow, Start, Stop, At, Goto, Fail
<1>3. CASE Crash \/ Reboot
  BY <1>3 DEF Crash, Reboot, Kill
<1>4. CASE UNCHANGED vars \/ \E S \in SUBSET VolumeNames : Remount(S)
  BY <1>4 DEF vars, Remount
<1>5. QED
  BY <1>1, <1>2, <1>3, <1>4 DEF Next

-----------------------------------------------------------------------------
(* Every step of the system                                                *)

LEMMA BeginInv == ASSUME IInv, NEW r \in Requests, NEW j \in Jobs, Begin(r, j)
                  PROVE  StepsAreKept' /\ LastHasTouched' /\ AloneIsInForce'
<1> USE DEF IInv, TypeOK, Begin, systemVars
<1>1. FirstStep[j.op] \in {"validate", "start", "stop"}
  BY DEF Jobs, FirstStep
<1>2. StepsAreKept'
  BY <1>1 DEF StepsAreKept
<1>3. LastHasTouched'
  BY <1>1, NoneIsNoRequest DEF LastHasTouched, Answers
<1>4. ASSUME ~mishap' PROVE AloneIsInForce'
  <2>1. Active = {} /\ ~mishap
    BY <1>4
  <2>2. \A q \in Requests : q \in Active' => q = r
    BY <2>1 DEF Active
  <2>3. \A q \in Requests : Steady(q)'
    BY <1>1, <2>1 DEF AloneIsInForce, Steady
  <2>4. last' = last /\ (last # None => last # r /\ pc'[last] = pc[last])
    BY <1>1, NoneIsNoRequest DEF LastHasTouched, Answers
  <2>5. QED
    BY <2>1, <2>2, <2>3, <2>4 DEF AloneIsInForce, InForce, Active, Whole
<1>5. QED
  BY <1>2, <1>3, <1>4 DEF AloneIsInForce

LEMMA KeepStep ==
  ASSUME IInv, NEW r \in Requests, Continue(r)
  PROVE  StepsAreKept' /\ LastHasTouched'
<1> USE DEF IInv, TypeOK, Goto, At, Fail, Answers, systemVars, Contents, Written
<1> USE NoneIsNoRequest
<1> USE DEF StepsAreKept, LastHasTouched
<1>1. CASE Validate(r) \/ EnsureInstalled(r) \/ ApplyDirs(r)
  BY <1>1 DEF Validate, EnsureInstalled, ApplyDirs
<1>2. CASE Halt(r)
  BY <1>2 DEF Halt
<1>3. CASE OpenConfig(r) \/ WriteConfig(r)
  BY <1>3 DEF OpenConfig, WriteConfig
<1>4. CASE OpenUnit(r) \/ InstallUnit(r)
  BY <1>4 DEF OpenUnit, InstallUnit
<1>5. CASE SaveRow(r)
  BY <1>5 DEF SaveRow
<1>6. CASE Launch(r) \/ Start(r)
  BY <1>6 DEF Launch, Start, EnableNow, EnableFails
<1>7. CASE Stop(r)
  BY <1>7 DEF Stop
<1>8. QED
  BY <1>1, <1>2, <1>3, <1>4, <1>5, <1>6, <1>7 DEF Continue

\* A request that goes on without a mishap is the only one, so that no other one
\* writes, and it is the last one that touched the files or has not touched them.
LEMMA AloneStep ==
  ASSUME IInv, NEW r \in Requests, Continue(r)
  PROVE  AloneIsInForce'
<1> SUFFICES ASSUME ~mishap' PROVE AloneIsInForce'
  BY DEF AloneIsInForce
<1> USE DEF IInv, TypeOK
<1>1. r \in Active /\ ~mishap
  BY DEF Continue, Validate, EnsureInstalled, ApplyDirs, Halt, OpenConfig, WriteConfig, OpenUnit,
         InstallUnit, Launch, SaveRow, Start, Stop, At, Active, Steps, Goto, Fail
<1>2. /\ \A q \in Active : q = r
      /\ Steady(r)
      /\ (last # None /\ pc[last] = "ok") => InForce(last)
      /\ Whole \/ (last # None /\ pc[last] \in HalfWay)
      /\ last # None => /\ last \in Requests
                        /\ pc[last] \in {"conf", "openUnit", "unit", "launch", "row"} \cup Answers
  BY <1>1, NoneIsNoRequest DEF AloneIsInForce, LastHasTouched
<1>3. \A q \in Requests : q # r => pc'[q] = pc[q] /\ q \notin Active
  BY <1>1, <1>2 DEF Continue, Validate, EnsureInstalled, ApplyDirs, Halt, OpenConfig, WriteConfig,
         OpenUnit, InstallUnit, Launch, SaveRow, Start, Stop, Goto, Fail
<1>4. \A q \in Requests : q # r => q \notin Active' /\ Steady(q)'
  BY <1>3 DEF Active, Steady, Steps
<1>5. SUFFICES /\ Steady(r)'
               /\ (last' # None /\ pc'[last'] = "ok") => InForce(last)'
               /\ Whole' \/ (last' # None /\ pc'[last'] \in HalfWay)
  BY <1>4 DEF AloneIsInForce, Active
<1> USE NoneIsNoRequest
<1> USE DEF At, Goto, Fail, systemVars, Steady, InForce, Answers, HalfWay
<1>6. CASE Validate(r) \/ EnsureInstalled(r) \/ ApplyDirs(r)
  BY <1>2, <1>3, <1>6 DEF Validate, EnsureInstalled, ApplyDirs, Whole
<1>7. CASE Halt(r)
  BY <1>1, <1>2, <1>3, <1>7 DEF Halt, Whole
<1>8. CASE OpenConfig(r)
  BY <1>2, <1>3, <1>8 DEF OpenConfig, Whole
<1>9. CASE WriteConfig(r)
  BY <1>2, <1>3, <1>9 DEF WriteConfig, Written
<1>10. CASE OpenUnit(r)
  BY <1>2, <1>3, <1>10 DEF OpenUnit
<1>11. CASE InstallUnit(r)
  BY <1>2, <1>3, <1>11 DEF InstallUnit, Written, Whole
<1>12. CASE Launch(r)
  BY <1>2, <1>3, <1>12 DEF Launch, EnableNow, EnableFails, Whole
<1>13. CASE SaveRow(r)
  BY <1>2, <1>3, <1>13 DEF SaveRow, Whole
<1>14. CASE Start(r) \/ Stop(r)
  BY <1>2, <1>3, <1>14 DEF Start, Stop, EnableNow, EnableFails, Whole
<1>15. QED
  BY <1>6, <1>7, <1>8, <1>9, <1>10, <1>11, <1>12, <1>13, <1>14 DEF Continue

\* A restart of nasd or of the machine leaves no request active; the one that it
\* cuts short while it touches the files has no success to speak of.
LEMMA RestartInv == ASSUME IInv, Crash \/ Reboot
                    PROVE  StepsAreKept' /\ LastHasTouched' /\ AloneIsInForce'
<1> USE DEF IInv, TypeOK
<1>1. /\ pc' = [r \in Requests |-> IF r \in Active THEN "killed" ELSE pc[r]]
      /\ UNCHANGED <<conf, unit, enabled, row, job, last, mishap>>
      /\ service' \in {service, conf, None}
  BY DEF Crash, Reboot, Kill, systemVars
<1>2. \A r \in Requests : pc'[r] \notin Steps
  BY <1>1 DEF Active, Steps, Answers
<1>3. StepsAreKept'
  BY <1>1, <1>2 DEF StepsAreKept, Steps
<1>4. /\ last # None => /\ last \in Requests
                        /\ pc'[last] \in {"killed", pc[last]}
                        /\ pc'[last] # "killed" => pc[last] \in Answers
      /\ last' = last
  BY <1>1, NoneIsNoRequest DEF LastHasTouched, Active, Steps
<1>5. LastHasTouched'
  BY <1>4 DEF LastHasTouched, Answers
<1>6. ASSUME ~mishap' PROVE AloneIsInForce'
  <2>1. (last' # None /\ pc'[last'] = "ok") => InForce(last)'
    BY <1>1, <1>4, <1>6 DEF InForce, AloneIsInForce
  <2>2. Whole' \/ (last' # None /\ pc'[last'] \in HalfWay)
    BY <1>1, <1>4, <1>6 DEF Whole, AloneIsInForce, HalfWay, Answers
  <2>3. Active' = {} /\ \A r \in Requests : Steady(r)'
    BY <1>2 DEF Active, Steady, Steps
  <2>4. QED
    BY <2>1, <2>2, <2>3 DEF AloneIsInForce
<1>7. QED
  BY <1>3, <1>5, <1>6 DEF AloneIsInForce

LEMMA StutterInv ==
  ASSUME IInv, UNCHANGED <<conf, unit, enabled, service, row, pc, last, mishap>>
  PROVE  StepsAreKept' /\ LastHasTouched' /\ AloneIsInForce'
<1>1. StepsAreKept' /\ LastHasTouched'
  BY DEF IInv, StepsAreKept, LastHasTouched
<1>2. AloneIsInForce'
  BY DEF IInv, AloneIsInForce, Active, Steady, InForce, Whole
<1>3. QED
  BY <1>1, <1>2

LEMMA NextInv == IInv /\ [Next]_vars => IInv'
<1> SUFFICES ASSUME IInv, [Next]_vars PROVE StepsAreKept' /\ LastHasTouched' /\ AloneIsInForce'
  BY NextTypes, NextTakesThem DEF IInv
<1>1. CASE \E r \in Requests, j \in Jobs : Begin(r, j)
  BY <1>1, BeginInv
<1>2. CASE \E r \in Requests : Continue(r)
  BY <1>2, KeepStep, AloneStep
<1>3. CASE Crash \/ Reboot
  BY <1>3, RestartInv
<1>4. CASE UNCHANGED vars \/ \E S \in SUBSET VolumeNames : Remount(S)
  BY <1>4, StutterInv DEF vars, systemVars, Remount
<1>5. QED
  BY <1>1, <1>2, <1>3, <1>4 DEF Next

-----------------------------------------------------------------------------
\* The inductive invariant: what each step of Configure may rely on
\* (qbt/configure.go Configure, api/qbt.go).
THEOREM Invariance == Spec => []IInv
BY InitInv, NextInv, PTL DEF Spec

\* The variables of the application and of the requests keep their types.
THEOREM TypeCorrect == Spec => []TypeOK
<1>1. IInv => TypeOK
  BY DEF IInv
<1>2. QED
  BY <1>1, Invariance, PTL

\* A row that says configured comes with a file and with a unit that starts at
\* boot, whatever requests overlap, fail or are cut short; and both are whole,
\* unless the last request that wrote them failed, was cut short or is at it, or
\* was not alone (api/qbt.go configure, configure.go:297, 312).
THEOREM ConfiguredAlwaysCanStart == Spec => []ConfiguredCanStart
<1>1. IInv => ConfiguredCanStart
  BY DEF IInv, StepsAreKept, AloneIsInForce, Whole, HalfWay, ConfiguredCanStart
<1>2. QED
  BY <1>1, Invariance, PTL

\* When the last request that touched the files succeeded, the file, the unit, the
\* row and the service are what it asked for, however many failed, were cut short
\* or were repeated before it, or refused since (configure.go:333-334).
THEOREM ConfiguredStaysInForce == Spec => []ConfiguredIsInForce
<1>1. IInv => ConfiguredIsInForce
  BY DEF IInv, AloneIsInForce, ConfiguredIsInForce, InForce
<1>2. QED
  BY <1>1, Invariance, PTL
=============================================================================
