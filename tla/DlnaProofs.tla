------------------------------ MODULE DlnaProofs ------------------------------
(***************************************************************************)
(* Theorems about Dlna, for any number of requests and directories: its    *)
(* types, what a change that was alone brings about, and that a server     *)
(* which serves something else than the table has a cause for it.          *)
(***************************************************************************)
EXTENDS Dlna, TLAPS

\* The rescan of a request comes before its restart, and is of no change.
RescanOnly == \A r \in Requests : At(r, "rescan") => job[r].op = "rescan"

\* A request that is not marked as overlapped is the only one being served.
Alone == \A r \in Active \ overlapped : Active = {r}

\* How far such a request has brought the table into the file.
Progress(r) ==
  /\ At(r, "open") => snap[r] = table
  /\ At(r, "write") => snap[r] = table /\ conf = Empty
  /\ At(r, "restart") /\ job[r].op # "rescan" => conf = Whole(table)

OnTheWay == \A r \in Active \ overlapped : Progress(r)

\* Without a failure or an overlap the file is the table's between two requests,
\* before a change and all through a rescan, and so is what the server reads.
Clean == overlapped = {} /\ \A r \in Requests : pc[r] \notin Failures
InStep ==
  Clean => /\ (\A r \in Active : pc[r] \in {"mutate", "rescan"}) =>
                 FileIsTables /\ ServesTable
           /\ \A r \in Active : At(r, "restart") => FileIsTables

IInv == TypeOK /\ RescanOnly /\ Alone /\ OnTheWay /\ InStep

-----------------------------------------------------------------------------
LEMMA InitInv == Init => IInv
<1> SUFFICES ASSUME Init PROVE IInv
  OBVIOUS
<1>1. Active = {}
  BY DEF Init, Active, Steps
<1>2. TypeOK
  BY DEF Init, TypeOK, Contents, Packaged
<1>3. FileIsTables /\ ServesTable
  BY DEF Init, FileIsTables, ServesTable
<1>4. RescanOnly /\ Alone /\ OnTheWay /\ InStep
  BY <1>1, <1>3 DEF Init, RescanOnly, Alone, OnTheWay, InStep, At
<1>5. QED
  BY <1>2, <1>4 DEF IInv

\* What the file and the server are to the table.
LEMMA Standing ==
  ASSUME table' = table, enabled' = enabled
  PROVE  /\ conf' = conf => FileIsTables' = FileIsTables
         /\ loaded' = loaded => ServesTable' = ServesTable
         /\ FileIsTables /\ loaded' = conf => ServesTable'
         /\ conf = Whole(table) => FileIsTables
         /\ loaded' = Off /\ ~enabled => ServesTable'
BY DEF FileIsTables, ServesTable, Whole, Packaged, Off

LEMMA BeginInv == ASSUME IInv, NEW r \in Requests, NEW j \in Jobs, Begin(r, j)
                  PROVE  IInv'
<1> USE DEF IInv, Begin
<1> DEFINE first == IF j.op = "rescan" THEN "rescan" ELSE "mutate"
<1>1. pc'[r] = first /\ job'[r] = j /\ r \notin Active
  BY DEF TypeOK, Active, Steps
<1>2. \A q \in Requests \ {r} : pc'[q] = pc[q] /\ job'[q] = job[q]
  BY DEF TypeOK
<1>3. Active' = Active \cup {r}
  BY <1>1, <1>2 DEF Active, Steps
<1>4. TypeOK'
  <2>1. Active \subseteq Requests
    BY DEF Active
  <2>2. QED
    BY <2>1 DEF TypeOK, Steps
<1>5. RescanOnly'
  BY <1>1, <1>2 DEF RescanOnly, At
<1>6. Active # {} => Active' \subseteq overlapped'
  BY <1>3
<1>7. Alone'
  BY <1>3, <1>6 DEF Alone
<1>8. OnTheWay'
  <2>1. CASE Active = {}
    <3>1. Progress(r)'
      BY <1>1 DEF Progress, At
    <3>2. QED
      BY <2>1, <3>1, <1>3 DEF OnTheWay
  <2>2. CASE Active # {}
    BY <2>2, <1>6 DEF OnTheWay
  <2>3. QED
    BY <2>1, <2>2
<1>9. InStep'
  <2> SUFFICES ASSUME Clean' PROVE InStep'
    BY DEF InStep
  <2>1. Active = {} /\ overlapped = {}
    BY <1>3 DEF Clean
  <2>2. Clean
    BY <1>1, <1>2, <2>1 DEF Clean, TypeOK, Failures, Active, Steps, Answers
  <2>3. FileIsTables /\ ServesTable
    BY <2>1, <2>2 DEF InStep
  <2>4. FileIsTables' /\ ServesTable'
    BY <2>3, Standing
  <2>5. QED
    BY <1>1, <1>2, <2>1, <2>4 DEF InStep, At, Active
<1>10. QED
  BY <1>4, <1>5, <1>7, <1>8, <1>9

\* A step of request r: the others stand still, so only r can be the one that is
\* alone.
LEMMA StepInv ==
  ASSUME IInv, NEW r \in Active, TypeOK', UNCHANGED <<job, overlapped>>,
         \A q \in Requests \ {r} : pc'[q] = pc[q],
         pc'[r] # "rescan",
         r \in Active' \ overlapped' => Progress(r)',
         Clean /\ Clean' =>
           IF r \in Active'
             THEN At(r, "restart")' => FileIsTables'
             ELSE (FileIsTables /\ ServesTable)',
         pc'[r] # "mutate"
  PROVE  IInv'
<1> USE DEF IInv
<1>1. r \in Requests /\ \A q \in Active' : q \in Active
  BY DEF Active
<1>2. RescanOnly'
  BY <1>1 DEF RescanOnly, At
<1>3. \A q \in Active' \ overlapped' : q = r /\ Active = {r} /\ Active' = {r}
  BY <1>1 DEF Alone
<1>4. Alone' /\ OnTheWay'
  BY <1>3 DEF Alone, OnTheWay
<1>5. InStep'
  <2> SUFFICES ASSUME Clean' PROVE InStep'
    BY DEF InStep
  <2>1. Clean
    BY <1>1 DEF Clean, Active, Steps, Failures
  <2>2. Active = {r}
    BY <2>1 DEF Clean, Alone
  <2>3. CASE r \in Active'
    <3>1. Active' = {r}
      BY <1>1, <2>2, <2>3
    <3>2. QED
      BY <2>1, <2>3, <3>1 DEF InStep
  <2>4. CASE r \notin Active'
    <3>1. Active' = {}
      BY <1>1, <2>2, <2>4
    <3>2. QED
      BY <2>1, <2>4, <3>1 DEF InStep
  <2>5. QED
    BY <2>3, <2>4
<1>6. QED
  BY <1>2, <1>4, <1>5

LEMMA ContinueInv == ASSUME IInv, NEW r \in Requests, Continue(r) PROVE IInv'
<1> USE DEF IInv, Goto, At
<1>1. r \in Active
  BY DEF Continue, Mutate, LoadDirs, Open, Write, Restart, Rescan, Active, Steps
<1>2. UNCHANGED <<job, overlapped>>
  BY DEF Continue, Mutate, LoadDirs, Open, Write, Restart, Rescan
<1>3. \A q \in Requests \ {r} : pc'[q] = pc[q]
  BY DEF Continue, Mutate, LoadDirs, Open, Write, Restart, Rescan, TypeOK
<1>4. r \notin overlapped => Progress(r) /\ Active = {r}
  BY <1>1 DEF OnTheWay, Alone
<1>5. Clean => r \notin overlapped
  BY DEF Clean
<1> USE <1>1, <1>4, <1>5
<1>6. CASE Mutate(r)
  <2> USE <1>6 DEF Mutate
  <2>1. pc'[r] = "load" \/ (pc'[r] = "refused" /\ table' = table)
    BY DEF TypeOK
  <2>2. TypeOK'
    <3>1. job[r].op = "add" => job[r].dir \in Dirs
      BY DEF TypeOK, Jobs, NoJob
    <3>2. QED
      BY <3>1 DEF TypeOK, Steps, Answers
  <2>3. r \in Active' => Progress(r)'
    BY <2>1 DEF Progress, Active, Steps
  <2>4. Clean => FileIsTables /\ ServesTable
    BY DEF InStep
  <2>5. pc'[r] = "refused" => FileIsTables' = FileIsTables /\ ServesTable' = ServesTable
    BY <2>1, Standing
  <2>6. pc'[r] = "load" => r \in Active'
    BY DEF Active, Steps
  <2>7. QED
    BY <1>2, <1>3, <2>1, <2>2, <2>3, <2>4, <2>5, <2>6, StepInv
<1>7. CASE LoadDirs(r)
  <2> USE <1>7 DEF LoadDirs
  <2>1. TypeOK'
    BY DEF TypeOK, Steps, Answers, Failures
  <2>2. (pc'[r] = "open" /\ snap'[r] = table) \/ pc'[r] = "apply_failed"
    BY DEF TypeOK
  <2>3. r \in Active' => Progress(r)'
    BY <2>2 DEF Progress, Active, Steps
  <2>4. Clean' => r \in Active'
    BY <2>2 DEF Clean, Failures, Active, Steps
  <2>5. QED
    BY <1>2, <1>3, <2>1, <2>2, <2>3, <2>4, StepInv
<1>8. CASE Open(r)
  <2> USE <1>8 DEF Open
  <2>1. TypeOK'
    BY DEF TypeOK, Steps, Answers, Failures, Contents, Empty
  <2>2. (pc'[r] = "write" /\ conf' = Empty) \/ pc'[r] = "apply_failed"
    BY DEF TypeOK
  <2>3. r \in Active' \ overlapped' => Progress(r)'
    BY <1>2, <2>2 DEF Progress, Active, Steps, Empty
  <2>4. Clean' => r \in Active'
    BY <2>2 DEF Clean, Failures, Active, Steps
  <2>5. QED
    BY <1>2, <1>3, <2>1, <2>2, <2>3, <2>4, StepInv
<1>9. CASE Write(r)
  <2> USE <1>9 DEF Write
  <2>1. TypeOK'
    BY DEF TypeOK, Steps, Answers, Failures, Contents, Whole, Torn
  <2>2. pc'[r] = "apply_failed"
        \/ (pc'[r] = "restart" /\ (conf = Empty => conf' = Whole(snap[r])))
    BY DEF TypeOK
  <2>3. r \notin overlapped /\ pc'[r] = "restart" => conf' = Whole(table)
    BY <2>2 DEF Progress
  <2>4. r \in Active' \ overlapped' => Progress(r)'
    BY <1>2, <2>2, <2>3 DEF Progress, Active, Steps, Whole
  <2>5. Clean' => r \in Active'
    BY <2>2 DEF Clean, Failures, Active, Steps
  <2>6. pc'[r] = "restart" /\ r \notin overlapped => FileIsTables'
    BY <2>3 DEF FileIsTables, Whole
  <2>7. QED
    BY <1>2, <1>3, <2>1, <2>2, <2>3, <2>4, <2>5, <2>6, StepInv
<1>10. CASE Restart(r)
  <2> USE <1>10 DEF Restart
  <2>1. TypeOK'
    BY DEF TypeOK, Answers, Failures
  <2>2. pc'[r] = "apply_failed" \/ (pc'[r] = "ok" /\ loaded' = conf)
    BY DEF TypeOK
  <2>3. r \notin Active'
    BY <2>2 DEF Active, Steps
  <2>4. Clean /\ Clean' => (FileIsTables /\ ServesTable)'
    <3>1. Clean' => pc'[r] = "ok"
      BY <2>2 DEF Clean, Failures
    <3>2. Clean => FileIsTables
      BY DEF InStep
    <3>3. QED
      BY <2>2, <3>1, <3>2, Standing
  <2>5. QED
    BY <1>2, <1>3, <2>1, <2>2, <2>3, <2>4, StepInv
<1>11. CASE Rescan(r)
  <2> USE <1>11 DEF Rescan
  <2>1. TypeOK'
    BY DEF TypeOK, Steps, Answers
  <2>2. pc'[r] \in {"restart", "refused"} /\ job[r].op = "rescan"
    BY DEF TypeOK, RescanOnly
  <2>3. r \in Active' => Progress(r)'
    BY <1>2, <2>2 DEF Progress
  <2>4. Clean => (FileIsTables /\ ServesTable)'
    BY Standing DEF InStep
  <2>5. QED
    BY <1>2, <1>3, <2>1, <2>2, <2>3, <2>4, StepInv
<1>12. QED
  BY <1>6, <1>7, <1>8, <1>9, <1>10, <1>11 DEF Continue

\* Nothing is left under way; what was is among the failures.
LEMMA CrashInv == ASSUME IInv, Crash \/ Reboot PROVE IInv'
<1> USE DEF IInv
<1>1. /\ pc' = [r \in Requests |-> IF r \in Active THEN "killed" ELSE pc[r]]
      /\ UNCHANGED <<table, conf, enabled, job, snap, overlapped>>
      /\ loaded' = loaded \/ loaded' = (IF enabled THEN conf ELSE Off)
  BY DEF Crash, Reboot
<1>2. \A r \in Requests : pc'[r] = "killed" \/ (r \notin Active /\ pc'[r] = pc[r])
  BY <1>1
<1>3. Active' = {}
  BY <1>2 DEF Active, Steps
<1>4. TypeOK'
  BY <1>1 DEF TypeOK, Answers, Failures
<1>5. RescanOnly' /\ Alone' /\ OnTheWay'
  BY <1>1, <1>2, <1>3 DEF RescanOnly, Alone, OnTheWay, At
<1>6. InStep'
  <2> SUFFICES ASSUME Clean' PROVE InStep'
    BY DEF InStep
  <2>1. Active = {} /\ Clean
    BY <1>1, <1>2 DEF Clean, Active, Failures, Steps
  <2>2. FileIsTables /\ ServesTable
    BY <2>1 DEF InStep
  <2>3. QED
    BY <1>1, <1>3, <2>2, Standing DEF InStep
<1>7. QED
  BY <1>4, <1>5, <1>6

LEMMA StutterInv == ASSUME IInv, UNCHANGED vars PROVE IInv'
BY Standing DEF IInv, vars, TypeOK, RescanOnly, Alone, OnTheWay, Progress, InStep, Clean,
                Active, At, Whole

-----------------------------------------------------------------------------
\* A request that is alone carries the table into the file, and without failures
\* and overlaps the file and the server keep up with the table (handlers.go dlna,
\* dlna.go Configure).
THEOREM Invariance == Spec => []IInv
<1>1. ASSUME IInv, [Next]_vars PROVE IInv'
  BY <1>1, BeginInv, ContinueInv, CrashInv, StutterInv DEF Next
<1>2. QED
  BY InitInv, <1>1, PTL DEF Spec

\* Every variable keeps its type.
THEOREM TypeCorrect == Spec => []TypeOK
<1>1. IInv => TypeOK
  BY DEF IInv
<1>2. QED
  BY <1>1, Invariance, PTL

\* A server that serves something else than the table, or does not run although it
\* is started at boot, does so because a change or a rescan failed or died, or
\* because two requests overlapped (handlers.go:988 reconfigure).
THEOREM DriftIsCaused == Spec => []DriftHasACause
<1>1. IInv => DriftHasACause
  BY DEF IInv, InStep, Clean, DriftHasACause, TypeOK
<1>2. QED
  BY <1>1, Invariance, PTL

\* A change that was alone and is answered with 2xx brings the server to the whole
\* table, whatever failed, died or overlapped before it.
THEOREM LoneChangesAreServed == Spec => LoneChangeIsServed
<1> DEFINE Served(r) ==
      (At(r, "restart") /\ pc'[r] = "ok" /\ job[r].op # "rescan" /\ r \notin overlapped)
        => loaded' = Whole(table)
<1>1. ASSUME IInv, [Next]_vars, NEW r \in Requests PROVE Served(r)
  <2> SUFFICES ASSUME At(r, "restart"), pc'[r] = "ok", job[r].op # "rescan",
                      r \notin overlapped
               PROVE  loaded' = Whole(table)
    OBVIOUS
  <2>1. conf = Whole(table)
    BY <1>1 DEF IInv, OnTheWay, Progress, Active, Steps, At
  <2>2. loaded' = conf
    <3>1. CASE UNCHANGED vars
      BY <3>1 DEF vars, At
    <3>2. CASE Crash \/ Reboot
      BY <3>2 DEF Crash, Reboot, Active, Steps, At
    <3>3. ASSUME NEW q \in Requests, NEW j \in Jobs, Begin(q, j) PROVE loaded' = conf
      BY <3>3, <1>1 DEF Begin, IInv, TypeOK, At
    <3>4. ASSUME NEW q \in Requests, Continue(q) PROVE loaded' = conf
      BY <3>4, <1>1 DEF Continue, Mutate, LoadDirs, Open, Write, Restart, Rescan, IInv,
                        TypeOK, At, Goto
    <3>5. QED
      BY <1>1, <3>1, <3>2, <3>3, <3>4 DEF Next
  <2>3. QED
    BY <2>1, <2>2
<1>2. ASSUME IInv, [Next]_vars PROVE [\A r \in Requests : Served(r)]_vars
  BY <1>1, <1>2
<1>3. QED
  BY Invariance, <1>2, PTL DEF Spec, LoneChangeIsServed
=============================================================================
