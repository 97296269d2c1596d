---------------------------- MODULE SharesProofs ----------------------------
(***************************************************************************)
(* Theorems about Shares, for any set of requests and any shares.          *)
(***************************************************************************)
EXTENDS Shares, TLAPS

LEMMA ContentsType ==
  /\ Empty \in Contents
  /\ Torn \in Contents
  /\ \A p \in Protocols, t \in Tables : Whole(Lines(p, t)) \in Contents
BY DEF Contents, Empty, Torn, Whole, Lines

LEMMA InodesType ==
  /\ Requests \subseteq Inodes
  /\ Factory \in Inodes
  /\ None \notin Inodes
BY InodeAssumption DEF Inodes

\* The program counters are strings of one set, so that a step of a handler
\* keeps the type of pc whichever label it goes to.
Labels == {"new"} \cup Steps \cup Answers

LEMMA GotoType ==
  ASSUME NEW r \in Requests, NEW l \in Labels,
         pc \in [Requests -> Labels], Goto(r, l)
  PROVE  /\ pc' \in [Requests -> Labels]
         /\ pc'[r] = l
         /\ \A q \in Requests \ {r} : pc'[q] = pc[q]
BY DEF Goto

-----------------------------------------------------------------------------
(* Type correctness                                                        *)

LEMMA InitType == Init => TypeOK
<1> SUFFICES ASSUME Init PROVE TypeOK
  OBVIOUS
<1>1. Whole({}) \in Contents /\ Empty \in Contents
  BY DEF Contents, Whole, Empty
<1>2. db \in Tables /\ snap \in [Requests -> Tables]
  BY DEF Init, Tables
<1>3. data \in [Protocols -> [Inodes -> Contents]] /\ exported \in Contents
  BY <1>1 DEF Init
<1>4. QED
  BY <1>2, <1>3, InodesType DEF Init, TypeOK, Protocols, Steps

LEMMA BeginType ==
  ASSUME TypeOK, NEW r \in Requests, Begin(r)
  PROVE  TypeOK'
<1> USE DEF TypeOK, fileVars, serviceVars
<1>1. ASSUME NEW t \in Tables, Mutate(r, t) PROVE TypeOK'
  BY <1>1 DEF Mutate, Goto, Steps, Active
<1>2. ASSUME NEW a \in Answers, Refuse(r, a) PROVE TypeOK'
  BY <1>2 DEF Refuse, Goto
<1>3. CASE Invalid(r)
  BY <1>2, <1>3 DEF Invalid, Answers
<1>4. CASE \E row \in Rows : Create(r, row)
  BY <1>1, <1>2, <1>4 DEF Create, Answers, Tables
<1>5. CASE \E id \in Requests, row \in Rows : Update(r, id, row)
  BY <1>1, <1>2, <1>5 DEF Update, Answers, Tables
<1>6. CASE \E id \in Requests : Delete(r, id)
  BY <1>1, <1>2, <1>6 DEF Delete, Answers, Tables
<1>7. QED
  BY <1>3, <1>4, <1>5, <1>6 DEF Begin

LEMMA ContinueType ==
  ASSUME TypeOK, NEW r \in Requests, Continue(r)
  PROVE  TypeOK'
<1> USE DEF TypeOK, fileVars, serviceVars
<1>1. CASE Load(r)
  BY <1>1 DEF Load, Goto, Steps, Answers, Failures
<1>2. CASE Scan(r)
  BY <1>2 DEF Scan, Goto, Steps, Protocols
<1>3. ASSUME NEW p \in Protocols, Prepare(r, p) PROVE TypeOK'
  BY <1>3 DEF Prepare, ApplyFailed, Goto, Steps, Answers, Failures
<1>4. ASSUME NEW p \in Protocols, OpenTmp(r, p) PROVE TypeOK'
  <2>1. CASE ApplyFailed(r) /\ UNCHANGED <<tmp, data, live, serviceVars>>
    BY <2>1 DEF ApplyFailed, Goto, Answers, Failures
  <2>2. ASSUME NEW inode \in Inodes,
               tmp' = [tmp EXCEPT ![p] = inode],
               data' = [data EXCEPT ![p][inode] = Empty],
               fd' = [fd EXCEPT ![r] = inode],
               Goto(r, "write"),
               UNCHANGED <<db, conn, phase, snap, overlapped, live, serviceVars>>
        PROVE  TypeOK'
    BY <2>2, ContentsType DEF Goto, Steps
  <2>3. (IF tmp[p] = None THEN r ELSE tmp[p]) \in Inodes
    BY InodesType
  <2>4. QED
    BY <1>4, <2>1, <2>2, <2>3 DEF OpenTmp
<1>5. ASSUME NEW p \in Protocols, WriteTmp(r, p) PROVE TypeOK'
  <2> DEFINE text == Whole(Lines(p, snap[r]))
  <2>1. text \in Contents
    BY ContentsType
  <2>2. ASSUME NEW c \in Contents, data' = [data EXCEPT ![p][fd[r]] = c]
        PROVE  data' \in [Protocols -> [Inodes -> Contents]]
    BY <2>2
  <2>3. \A old : Overwrite(old, text) \subseteq Contents
    BY <2>1, ContentsType DEF Overwrite
  <2>4. data' \in [Protocols -> [Inodes -> Contents]]
    BY <1>5, <2>2, <2>3, ContentsType DEF WriteTmp
  <2>5. QED
    BY <1>5, <2>4 DEF WriteTmp, ApplyFailed, Goto, Steps, Answers, Failures
<1>6. ASSUME NEW p \in Protocols, Rename(r, p) PROVE TypeOK'
  BY <1>6 DEF Rename, ApplyFailed, Goto, Steps, Answers, Failures
<1>7. CASE Validate(r)
  BY <1>7 DEF Validate, Goto, Steps, Answers, Failures
<1>8. ASSUME NEW p \in Protocols, Service(r, p) PROVE TypeOK'
  <2>1. running' \in [Protocols -> BOOLEAN]
    BY <1>8 DEF Service
  <2>2. pc' \in [Requests -> {"new"} \cup Steps \cup Answers]
    BY <1>8 DEF Service, Goto, Steps, Answers, Failures
  <2>3. QED
    BY <1>8, <2>1, <2>2 DEF Service
<1>9. CASE ReloadNFS(r)
  <2>1. LiveContent("NFS") \in Contents
    BY DEF LiveContent, Protocols
  <2>2. QED
    BY <1>9, <2>1 DEF ReloadNFS, Goto, Steps, Answers, Failures, Protocols
<1>10. CASE ReloadSMB(r)
  BY <1>10 DEF ReloadSMB, Goto, Steps
<1>11. CASE Respond(r)
  BY <1>11 DEF Respond, Goto, Answers
<1>12. QED
  BY <1>1, <1>2, <1>3, <1>4, <1>5, <1>6, <1>7, <1>8, <1>9, <1>10, <1>11
  DEF Continue

LEMMA NextType == TypeOK /\ [Next]_vars => TypeOK'
<1> SUFFICES ASSUME TypeOK, [Next]_vars PROVE TypeOK'
  OBVIOUS
<1>1. CASE \E r \in Requests : Begin(r) \/ Continue(r)
  BY <1>1, BeginType, ContinueType
<1>2. CASE Crash
  BY <1>2 DEF Crash, TypeOK, fileVars, serviceVars, Answers, Failures
<1>3. CASE UNCHANGED vars
  BY <1>3 DEF vars, requestVars, fileVars, serviceVars, TypeOK
<1>4. QED
  BY <1>1, <1>2, <1>3 DEF Next, Served

\* Every variable of the share manager keeps its type: in particular the
\* configured path always names an inode, so no request ever removes
\* /etc/exports or nasd-shares.conf.
THEOREM TypeCorrect == Spec => []TypeOK
<1>1. QED
  BY InitType, NextType, PTL DEF Spec

-----------------------------------------------------------------------------
(* The inductive invariant                                                 *)

\* A request creates at most one inode per file, when it opens the temporary
\* name: until then no name refers to it.
NotYetOpened(r, p) ==
  \/ pc[r] \in {"new", "load", "scan"}
  \/ pc[r] \in Steps /\ phase[r] = "NFS" /\ p = "SMB"
  \/ pc[r] \in {"prepare", "open"} /\ phase[r] = p

FreshInodes ==
  \A r \in Requests, p \in Protocols :
    NotYetOpened(r, p) => tmp[p] # r /\ live[p] # r

\* The first half of reapply is in phase NFS, its end in phase SMB.
PhaseOrder ==
  \A r \in Requests :
    /\ pc[r] \in {"new", "load", "scan"} => phase[r] = "NFS"
    /\ pc[r] \in {"validate", "respond"} => phase[r] = "SMB"

Applying == {"prepare", "open", "write", "rename",
             "validate", "service", "reload", "respond"}

\* Request r, applying its table, has installed the file of protocol p; has
\* started its service; has reloaded the kernel's exports.
PastRename(r, p) ==
  \/ phase[r] = p /\ pc[r] \in {"validate", "service", "reload", "respond"}
  \/ phase[r] = "SMB" /\ p = "NFS" /\ pc[r] \in Applying
PastService(r, p) ==
  \/ phase[r] = p /\ pc[r] \in {"reload", "respond"}
  \/ phase[r] = "SMB" /\ p = "NFS" /\ pc[r] \in Applying
PastExportfs(r) == phase[r] = "SMB" /\ pc[r] \in Applying

\* What a request that is alone knows of the files at each of its steps.
LoneProgress(r) ==
  /\ pc[r] \in Applying => snap[r] = db
  /\ \A p \in Protocols :
       /\ At(r, p, "write") =>
            /\ tmp[p] # None
            /\ fd[r] = tmp[p]
            /\ data[p][tmp[p]] = Empty
       /\ At(r, p, "rename") =>
            /\ tmp[p] # None
            /\ data[p][tmp[p]] = Whole(Lines(p, db))
       /\ PastRename(r, p) => InstalledIs(p, db)
       /\ PastService(r, p) => ServiceMatches(p, db)
  /\ PastExportfs(r) => exported = Whole(Lines("NFS", db))

Alone(r) == r \in Active /\ r \notin overlapped

LoneRequest ==
  \A r \in Requests : Alone(r) => Active = {r} /\ LoneProgress(r)

IInv ==
  /\ TypeOK
  /\ TmpIsNotLive
  /\ FreshInodes
  /\ PhaseOrder
  /\ LoneRequest
  /\ DriftHasACause

-----------------------------------------------------------------------------
(* Initially                                                               *)

LEMMA NoLines == \A p \in Protocols : Lines(p, [i \in Requests |-> None]) = {}
BY RowsAssumption DEF Lines

LEMMA InitInv == Init => IInv
<1> SUFFICES ASSUME Init PROVE IInv
  OBVIOUS
<1>1. TypeOK
  BY InitType
<1>2. TmpIsNotLive
  BY InodeAssumption DEF Init, TmpIsNotLive
<1>3. FreshInodes
  BY InodeAssumption DEF Init, FreshInodes
<1>4. PhaseOrder
  BY DEF Init, PhaseOrder
<1>5. Active = {}
  BY DEF Init, Active, Steps
<1>6. LoneRequest
  BY <1>5 DEF LoneRequest, Alone
<1>7. \A p \in Protocols : data[p][live[p]] = Whole({})
  BY InodesType DEF Init
<1>8. Applied
  BY <1>7, NoLines DEF Init, Applied, InstalledIs, ServiceMatches, LiveContent,
                       Protocols
<1>9. QED
  BY <1>1, <1>2, <1>3, <1>4, <1>6, <1>8 DEF IInv, DriftHasACause

-----------------------------------------------------------------------------
(* Steps of a handler, seen from the outside                               *)

\* A step to another step of the same handler keeps the set of requests in
\* flight; whoever is alone afterwards is the request that took the step.
LEMMA InnerStep ==
  ASSUME TypeOK, LoneRequest, NEW r \in Requests, NEW l \in Steps,
         pc[r] \in Steps, Goto(r, l), UNCHANGED overlapped,
         Alone(r) /\ LoneProgress(r) => LoneProgress(r)'
  PROVE  LoneRequest' /\ DriftHasACause'
<1>1. Active' = Active /\ r \in Active
  BY DEF TypeOK, Goto, Active
<1>2. ASSUME NEW q \in Requests, Alone(q)' PROVE Active' = {q} /\ LoneProgress(q)'
  <2>1. Alone(q)
    BY <1>1, <1>2 DEF Alone
  <2>2. Active = {q} /\ LoneProgress(q)
    BY <2>1 DEF LoneRequest
  <2>3. q = r
    BY <1>1, <2>2
  <2>4. QED
    BY <1>1, <2>1, <2>2, <2>3
<1>3. LoneRequest'
  BY <1>2 DEF LoneRequest
<1>4. QED
  BY <1>1, <1>3 DEF DriftHasACause

\* After the last step of a handler nobody in flight is alone: a request that
\* is alone has no other beside it.
LEMMA LastStep ==
  ASSUME TypeOK, LoneRequest, NEW r \in Requests, NEW l \in Answers,
         pc[r] \in Steps, Goto(r, l), UNCHANGED overlapped
  PROVE  LoneRequest' /\ Active' = Active \ {r}
<1>1. l \notin Steps
  BY DEF Answers, Failures, Steps
<1>2. Active' = Active \ {r} /\ r \in Active
  BY <1>1 DEF TypeOK, Goto, Active
<1>3. ASSUME NEW q \in Requests, Alone(q)' PROVE FALSE
  <2>1. Alone(q) /\ q # r
    BY <1>2, <1>3 DEF Alone
  <2>2. Active = {q}
    BY <2>1 DEF LoneRequest
  <2>3. QED
    BY <1>2, <2>1, <2>2
<1>4. QED
  BY <1>2, <1>3 DEF LoneRequest

LEMMA FailedStep ==
  ASSUME TypeOK, LoneRequest, NEW r \in Requests, NEW l \in Failures,
         pc[r] \in Steps, Goto(r, l), UNCHANGED overlapped
  PROVE  LoneRequest' /\ DriftHasACause'
<1>1. l \in Answers
  BY DEF Answers
<1>2. pc'[r] \in Failures
  BY DEF TypeOK, Goto
<1>3. QED
  BY <1>1, <1>2, LastStep DEF DriftHasACause

\* A request that ends without touching a file keeps what names which inode.
LEMMA EndKeepsInodes ==
  ASSUME TypeOK, TmpIsNotLive, FreshInodes, PhaseOrder,
         NEW r \in Requests, NEW l \in Answers, Goto(r, l),
         UNCHANGED <<phase, tmp, live>>
  PROVE  TmpIsNotLive' /\ FreshInodes' /\ PhaseOrder'
<1>1. \A q \in Requests, p \in Protocols : NotYetOpened(q, p)' => NotYetOpened(q, p)
  BY DEF TypeOK, Goto, NotYetOpened, Answers, Failures, Steps
<1>2. PhaseOrder'
  BY DEF TypeOK, PhaseOrder, Goto, Answers, Failures
<1>3. QED
  BY <1>1, <1>2 DEF TmpIsNotLive, FreshInodes

-----------------------------------------------------------------------------
(* The mutation                                                            *)

LEMMA RefuseInv ==
  ASSUME IInv, NEW r \in Requests, NEW a \in Answers, pc[r] = "new", Refuse(r, a)
  PROVE  TmpIsNotLive' /\ FreshInodes' /\ PhaseOrder' /\ LoneRequest' /\ DriftHasACause'
<1> USE DEF IInv, Refuse, fileVars, serviceVars
<1>1. TmpIsNotLive' /\ FreshInodes' /\ PhaseOrder'
  BY EndKeepsInodes
<1>2. a \notin Steps /\ "new" \notin Steps \cup Failures
  BY DEF Answers, Failures, Steps
<1>3. Active' = Active /\ r \notin Active
  BY <1>2 DEF TypeOK, Goto, Active
<1>4. \A q \in Requests : q # r => pc'[q] = pc[q]
  BY DEF TypeOK, Goto
<1>5. LoneRequest'
  <2>1. SUFFICES ASSUME NEW q \in Requests, Alone(q)'
                 PROVE  Active' = {q} /\ LoneProgress(q)'
    BY DEF LoneRequest
  <2>2. Alone(q) /\ q # r
    BY <1>3, <2>1 DEF Alone
  <2>3. Active = {q} /\ LoneProgress(q)
    BY <2>2 DEF LoneRequest
  <2>4. LoneProgress(q)'
    BY <1>4, <2>2, <2>3 DEF LoneProgress, At, PastRename, PastService, PastExportfs,
                            InstalledIs, ServiceMatches, LiveContent
  <2>5. QED
    BY <1>3, <2>3, <2>4
<1>6. DriftHasACause'
  <2>1. Applied' = Applied
    BY DEF Applied, InstalledIs, ServiceMatches, LiveContent
  <2>2. QED
    BY <1>2, <1>3, <1>4, <2>1 DEF DriftHasACause
<1>7. QED
  BY <1>1, <1>5, <1>6

LEMMA MutateInv ==
  ASSUME IInv, NEW r \in Requests, NEW t, pc[r] = "new", Mutate(r, t)
  PROVE  TmpIsNotLive' /\ FreshInodes' /\ PhaseOrder' /\ LoneRequest' /\ DriftHasACause'
<1> USE DEF IInv, Mutate, fileVars, serviceVars
<1>1. "load" \in Steps /\ "new" \notin Steps
  BY DEF Steps
<1>2. Active' = Active \cup {r} /\ pc'[r] = "load"
  BY <1>1 DEF TypeOK, Goto, Active
<1>3. TmpIsNotLive'
  BY DEF TmpIsNotLive
<1>4. FreshInodes' /\ PhaseOrder'
  <2>1. \A q \in Requests, p \in Protocols : NotYetOpened(q, p)' => NotYetOpened(q, p)
    BY DEF TypeOK, Goto, NotYetOpened
  <2>2. QED
    BY <2>1 DEF FreshInodes, PhaseOrder, TypeOK, Goto
<1>5. LoneRequest'
  <2>1. SUFFICES ASSUME NEW q \in Requests, Alone(q)'
                 PROVE  Active' = {q} /\ LoneProgress(q)'
    BY DEF LoneRequest
  <2>2. Active = {} /\ q = r
    BY <1>2, <2>1 DEF Alone
  <2>3. phase'[r] = "NFS"
    BY DEF PhaseOrder
  <2>4. LoneProgress(r)'
    BY <1>2, <2>3 DEF LoneProgress, At, PastRename, PastService, PastExportfs, Applying
  <2>5. QED
    BY <1>2, <2>2, <2>4
<1>6. DriftHasACause'
  BY <1>2 DEF DriftHasACause
<1>7. QED
  BY <1>3, <1>4, <1>5, <1>6

LEMMA BeginInv ==
  ASSUME IInv, NEW r \in Requests, Begin(r)
  PROVE  TmpIsNotLive' /\ FreshInodes' /\ PhaseOrder' /\ LoneRequest' /\ DriftHasACause'
<1>1. pc[r] = "new"
  BY DEF Begin, Invalid, Create, Update, Delete, CanBegin
<1>2. (\E a \in Answers : Refuse(r, a)) \/ (\E t : Mutate(r, t))
  BY DEF Begin, Invalid, Create, Update, Delete, Answers
<1>3. QED
  BY <1>1, <1>2, RefuseInv, MutateInv

-----------------------------------------------------------------------------
(* reapply                                                                 *)

LEMMA LoadInv ==
  ASSUME IInv, NEW r \in Requests, Load(r)
  PROVE  TmpIsNotLive' /\ FreshInodes' /\ PhaseOrder' /\ LoneRequest' /\ DriftHasACause'
<1> USE DEF IInv, Load, fileVars, serviceVars
<1>1. "load" \in Steps /\ "scan" \in Steps /\ "apply_failed" \in Failures
      /\ "apply_failed" \in Answers
  BY DEF Steps, Answers, Failures
<1>2. CASE Goto(r, "apply_failed")
  BY <1>1, <1>2, FailedStep, EndKeepsInodes
<1>3. CASE Goto(r, "scan")
  <2>1. \A q \in Requests, p \in Protocols : NotYetOpened(q, p)' => NotYetOpened(q, p)
    BY <1>3 DEF TypeOK, Goto, NotYetOpened, Steps
  <2>2. TmpIsNotLive' /\ FreshInodes' /\ PhaseOrder'
    BY <1>3, <2>1 DEF TmpIsNotLive, FreshInodes, PhaseOrder, TypeOK, Goto
  <2>3. LoneProgress(r)'
    BY <1>3 DEF LoneProgress, At, PastRename, PastService, PastExportfs, Applying,
                TypeOK, Goto
  <2>4. QED
    BY <1>1, <1>3, <2>2, <2>3, InnerStep
<1>4. QED
  BY <1>2, <1>3

LEMMA ScanInv ==
  ASSUME IInv, NEW r \in Requests, Scan(r)
  PROVE  TmpIsNotLive' /\ FreshInodes' /\ PhaseOrder' /\ LoneRequest' /\ DriftHasACause'
<1> USE DEF IInv, Scan, fileVars, serviceVars
<1>1. pc'[r] = "prepare" /\ phase'[r] = "NFS" /\ snap'[r] = db /\ db' = db
  BY DEF TypeOK, Goto
<1>2. \A q \in Requests, p \in Protocols : NotYetOpened(q, p)' => NotYetOpened(q, p)
  BY DEF TypeOK, Goto, NotYetOpened, Steps, Protocols
<1>3. TmpIsNotLive' /\ FreshInodes' /\ PhaseOrder'
  BY <1>2 DEF TmpIsNotLive, FreshInodes, PhaseOrder, TypeOK, Goto
<1>4. LoneProgress(r)'
  BY <1>1 DEF LoneProgress, At, PastRename, PastService, PastExportfs
<1>5. QED
  BY <1>3, <1>4, InnerStep DEF Steps

LEMMA PrepareInv ==
  ASSUME IInv, NEW r \in Requests, NEW p \in Protocols, Prepare(r, p)
  PROVE  TmpIsNotLive' /\ FreshInodes' /\ PhaseOrder' /\ LoneRequest' /\ DriftHasACause'
<1> USE DEF IInv, Prepare, At, fileVars, serviceVars
<1>1. "prepare" \in Steps /\ "open" \in Steps /\ "apply_failed" \in Failures
      /\ "apply_failed" \in Answers
  BY DEF Steps, Answers, Failures
<1>2. CASE ApplyFailed(r)
  BY <1>1, <1>2, FailedStep, EndKeepsInodes DEF ApplyFailed
<1>3. CASE Goto(r, "open") /\ UNCHANGED <<db, conn, phase, snap, fd, overlapped>>
  <2>1. \A q \in Requests, o \in Protocols : NotYetOpened(q, o)' => NotYetOpened(q, o)
    BY <1>3 DEF TypeOK, Goto, NotYetOpened, Steps
  <2>2. TmpIsNotLive' /\ FreshInodes' /\ PhaseOrder'
    BY <1>3, <2>1 DEF TmpIsNotLive, FreshInodes, PhaseOrder, TypeOK, Goto
  <2>3. pc'[r] = "open"
    BY <1>3 DEF TypeOK, Goto
  <2>4. LoneProgress(r) => LoneProgress(r)'
    BY <1>3, <2>3 DEF LoneProgress, PastRename, PastService, PastExportfs, Applying,
                      InstalledIs, ServiceMatches, LiveContent
  <2>5. QED
    BY <1>1, <1>3, <2>2, <2>4, InnerStep
<1>4. QED
  BY <1>2, <1>3

\* Opening the temporary name: the inode opened is never the installed one,
\* so no installed file changes.
LEMMA OpenTmpInv ==
  ASSUME IInv, NEW r \in Requests, NEW p \in Protocols, OpenTmp(r, p)
  PROVE  TmpIsNotLive' /\ FreshInodes' /\ PhaseOrder' /\ LoneRequest' /\ DriftHasACause'
<1> USE DEF IInv, At, fileVars, serviceVars
<1>1. "open" \in Steps /\ "write" \in Steps /\ "apply_failed" \in Failures
      /\ "apply_failed" \in Answers
  BY DEF Steps, Answers, Failures
<1>2. pc[r] = "open" /\ phase[r] = p
  BY DEF OpenTmp
<1>3. CASE ApplyFailed(r) /\ UNCHANGED <<tmp, data, live>>
  BY <1>1, <1>2, <1>3, FailedStep, EndKeepsInodes DEF ApplyFailed
<1>4. ASSUME NEW inode,
             inode = (IF tmp[p] = None THEN r ELSE tmp[p]),
             tmp' = [tmp EXCEPT ![p] = inode],
             data' = [data EXCEPT ![p][inode] = Empty],
             fd' = [fd EXCEPT ![r] = inode],
             Goto(r, "write"),
             UNCHANGED <<db, conn, phase, snap, overlapped, live, serviceVars>>
      PROVE  TmpIsNotLive' /\ FreshInodes' /\ PhaseOrder' /\ LoneRequest' /\ DriftHasACause'
  <2>1. inode \in Inodes /\ inode # None /\ inode # live[p]
    <3>1. NotYetOpened(r, p)
      BY <1>2 DEF NotYetOpened
    <3>2. QED
      BY <1>4, <3>1, InodesType DEF FreshInodes, TmpIsNotLive, TypeOK
  <2>2. TmpIsNotLive'
    BY <1>4, <2>1 DEF TmpIsNotLive, TypeOK
  <2>3. \A q \in Requests, o \in Protocols :
          NotYetOpened(q, o)' => NotYetOpened(q, o) /\ (q # r \/ o # p)
    BY <1>2, <1>4 DEF TypeOK, Goto, NotYetOpened, Steps, Protocols
  <2>4. FreshInodes'
    <3>1. \A q \in Requests, o \in Protocols :
            tmp'[o] = q => tmp[o] = q \/ (q = r /\ o = p)
      BY <1>4 DEF TypeOK
    <3>2. QED
      BY <1>4, <2>3, <3>1 DEF FreshInodes
  <2>5. PhaseOrder'
    BY <1>4 DEF PhaseOrder, TypeOK, Goto
  <2>6. pc'[r] = "write" /\ phase'[r] = p
    BY <1>2, <1>4 DEF TypeOK, Goto
  <2>7. \A o \in Protocols : LiveContent(o)' = LiveContent(o)
    BY <1>4, <2>1 DEF LiveContent, TypeOK
  <2>8. tmp'[p] = inode /\ fd'[r] = inode /\ data'[p][inode] = Empty
    BY <1>4, <2>1 DEF TypeOK
  <2>9. LoneProgress(r) => LoneProgress(r)'
    BY <1>2, <1>4, <2>1, <2>6, <2>7, <2>8
    DEF LoneProgress, PastRename, PastService, PastExportfs, Applying, InstalledIs,
        ServiceMatches
  <2>10. QED
    BY <1>1, <1>2, <1>4, <2>2, <2>4, <2>5, <2>9, InnerStep
<1>5. QED
  BY <1>3, <1>4 DEF OpenTmp

LEMMA WriteTmpInv ==
  ASSUME IInv, NEW r \in Requests, NEW p \in Protocols, WriteTmp(r, p)
  PROVE  TmpIsNotLive' /\ FreshInodes' /\ PhaseOrder' /\ LoneRequest' /\ DriftHasACause'
<1> USE DEF IInv, At, fileVars, serviceVars
<1> DEFINE text == Whole(Lines(p, snap[r]))
<1>1. "write" \in Steps /\ "rename" \in Steps /\ "apply_failed" \in Failures
      /\ "apply_failed" \in Answers
  BY DEF Steps, Answers, Failures
<1>2. pc[r] = "write" /\ phase[r] = p /\ UNCHANGED <<tmp, live, serviceVars>>
  BY DEF WriteTmp
<1>3. CASE ApplyFailed(r)
  BY <1>1, <1>2, <1>3, FailedStep, EndKeepsInodes DEF ApplyFailed
<1>4. ASSUME NEW new \in Overwrite(data[p][fd[r]], text),
             data' = [data EXCEPT ![p][fd[r]] = new],
             Goto(r, "rename"),
             UNCHANGED <<db, conn, phase, snap, fd, overlapped>>
      PROVE  TmpIsNotLive' /\ FreshInodes' /\ PhaseOrder' /\ LoneRequest' /\ DriftHasACause'
  <2>1. \A q \in Requests, o \in Protocols : NotYetOpened(q, o)' => NotYetOpened(q, o)
    BY <1>2, <1>4 DEF TypeOK, Goto, NotYetOpened, Steps, Protocols
  <2>2. TmpIsNotLive' /\ FreshInodes' /\ PhaseOrder'
    BY <1>2, <1>4, <2>1 DEF TmpIsNotLive, FreshInodes, PhaseOrder, TypeOK, Goto
  <2>3. pc'[r] = "rename" /\ phase'[r] = p
    BY <1>2, <1>4 DEF TypeOK, Goto
  <2>4. ASSUME LoneProgress(r) PROVE LoneProgress(r)'
    <3>1. fd[r] = tmp[p] /\ tmp[p] # None /\ data[p][tmp[p]] = Empty /\ snap[r] = db
      BY <1>2, <2>4 DEF LoneProgress, Applying
    <3>2. new = text
      BY <1>4, <3>1 DEF Overwrite
    <3>3. tmp[p] \in Inodes /\ tmp[p] # live[p]
      BY <3>1 DEF TypeOK, TmpIsNotLive
    <3>4. data'[p][tmp[p]] = text
      BY <1>4, <3>1, <3>2, <3>3 DEF TypeOK
    <3>5. \A o \in Protocols : LiveContent(o)' = LiveContent(o)
      BY <1>2, <1>4, <3>1, <3>3 DEF LiveContent, TypeOK
    <3>6. QED
      BY <1>2, <1>4, <2>3, <2>4, <3>1, <3>4, <3>5
      DEF LoneProgress, PastRename, PastService, PastExportfs, Applying, InstalledIs,
          ServiceMatches
  <2>5. QED
    BY <1>1, <1>2, <1>4, <2>2, <2>4, InnerStep
<1>5. QED
  BY <1>3, <1>4 DEF WriteTmp

LEMMA RenameInv ==
  ASSUME IInv, NEW r \in Requests, NEW p \in Protocols, Rename(r, p)
  PROVE  TmpIsNotLive' /\ FreshInodes' /\ PhaseOrder' /\ LoneRequest' /\ DriftHasACause'
<1> USE DEF IInv, At, fileVars, serviceVars
<1> DEFINE next == IF p = "SMB" THEN "validate" ELSE "service"
<1>1. "rename" \in Steps /\ next \in Steps /\ "apply_failed" \in Failures
      /\ "apply_failed" \in Answers
  BY DEF Steps, Answers, Failures
<1>2. pc[r] = "rename" /\ phase[r] = p /\ UNCHANGED <<data, serviceVars>>
  BY DEF Rename
<1>3. CASE ApplyFailed(r) /\ UNCHANGED <<tmp, live>>
  BY <1>1, <1>2, <1>3, FailedStep, EndKeepsInodes DEF ApplyFailed
<1>4. ASSUME tmp[p] # None,
             live' = [live EXCEPT ![p] = tmp[p]],
             tmp' = [tmp EXCEPT ![p] = None],
             Goto(r, next),
             UNCHANGED <<db, conn, phase, snap, fd, overlapped>>
      PROVE  TmpIsNotLive' /\ FreshInodes' /\ PhaseOrder' /\ LoneRequest' /\ DriftHasACause'
  <2>1. \A q \in Requests, o \in Protocols : NotYetOpened(q, o)' => NotYetOpened(q, o)
    BY <1>2, <1>4 DEF TypeOK, Goto, NotYetOpened, Steps, Protocols
  <2>2. \A o \in Protocols : tmp'[o] = (IF o = p THEN None ELSE tmp[o])
                         /\ live'[o] = (IF o = p THEN tmp[p] ELSE live[o])
    BY <1>4 DEF TypeOK
  <2>3. TmpIsNotLive'
    BY <1>4, <2>2 DEF TmpIsNotLive
  <2>4. FreshInodes'
    BY <2>1, <2>2, InodeAssumption DEF FreshInodes
  <2>5. PhaseOrder'
    BY <1>2, <1>4 DEF PhaseOrder, TypeOK, Goto, Protocols
  <2>6. pc'[r] = next /\ phase'[r] = p
    BY <1>2, <1>4 DEF TypeOK, Goto
  <2>7. ASSUME LoneProgress(r) PROVE LoneProgress(r)'
    <3>1. data[p][tmp[p]] = Whole(Lines(p, db)) /\ snap[r] = db
      BY <1>2, <2>7 DEF LoneProgress, Applying
    <3>2. LiveContent(p)' = Whole(Lines(p, db))
      BY <1>2, <2>2, <3>1 DEF LiveContent
    <3>3. \A o \in Protocols : o # p => LiveContent(o)' = LiveContent(o)
      BY <1>2, <2>2 DEF LiveContent
    <3>4. QED
      BY <1>2, <1>4, <2>6, <2>7, <3>1, <3>2, <3>3
      DEF LoneProgress, PastRename, PastService, PastExportfs, Applying, InstalledIs,
          ServiceMatches, Protocols
  <2>8. QED
    BY <1>1, <1>2, <1>4, <2>3, <2>4, <2>5, <2>7, InnerStep
<1>5. QED
  BY <1>3, <1>4 DEF Rename

LEMMA ValidateInv ==
  ASSUME IInv, NEW r \in Requests, Validate(r)
  PROVE  TmpIsNotLive' /\ FreshInodes' /\ PhaseOrder' /\ LoneRequest' /\ DriftHasACause'
<1> USE DEF IInv, At, Validate, fileVars, serviceVars
<1>1. "validate" \in Steps /\ "service" \in Steps /\ "config_rejected" \in Failures
      /\ "config_rejected" \in Answers
  BY DEF Steps, Answers, Failures
<1>2. CASE Goto(r, "config_rejected")
  BY <1>1, <1>2, FailedStep, EndKeepsInodes
<1>3. CASE Goto(r, "service")
  <2>1. \A q \in Requests, o \in Protocols : NotYetOpened(q, o)' => NotYetOpened(q, o)
    BY <1>3 DEF TypeOK, Goto, NotYetOpened, Steps
  <2>2. TmpIsNotLive' /\ FreshInodes' /\ PhaseOrder'
    BY <1>3, <2>1 DEF TmpIsNotLive, FreshInodes, PhaseOrder, TypeOK, Goto
  <2>3. pc'[r] = "service"
    BY <1>3 DEF TypeOK, Goto
  <2>4. LoneProgress(r) => LoneProgress(r)'
    BY <1>3, <2>3 DEF LoneProgress, PastRename, PastService, PastExportfs, Applying,
                      InstalledIs, ServiceMatches, LiveContent
  <2>5. QED
    BY <1>1, <1>3, <2>2, <2>4, InnerStep
<1>4. QED
  BY <1>2, <1>3

LEMMA ServiceInv ==
  ASSUME IInv, NEW r \in Requests, NEW p \in Protocols, Service(r, p)
  PROVE  TmpIsNotLive' /\ FreshInodes' /\ PhaseOrder' /\ LoneRequest' /\ DriftHasACause'
<1> USE DEF IInv, At, fileVars, serviceVars
<1>1. "service" \in Steps /\ "reload" \in Steps /\ "apply_failed" \in Failures
      /\ "apply_failed" \in Answers
  BY DEF Steps, Answers, Failures
<1>2. /\ pc[r] = "service" /\ phase[r] = p
      /\ UNCHANGED <<db, conn, phase, snap, fd, overlapped, tmp, live, data, exported>>
  BY DEF Service
<1>3. CASE Goto(r, "apply_failed")
  BY <1>1, <1>2, <1>3, FailedStep, EndKeepsInodes
<1>4. CASE Goto(r, "reload")
  <2>1. \A q \in Requests, o \in Protocols : NotYetOpened(q, o)' => NotYetOpened(q, o)
    BY <1>2, <1>4 DEF TypeOK, Goto, NotYetOpened, Steps
  <2>2. TmpIsNotLive' /\ FreshInodes' /\ PhaseOrder'
    BY <1>2, <1>4, <2>1 DEF TmpIsNotLive, FreshInodes, PhaseOrder, TypeOK, Goto
  <2>3. pc'[r] = "reload" /\ phase'[r] = p
    BY <1>2, <1>4 DEF TypeOK, Goto
  <2>4. \A o \in Protocols : o # p => running'[o] = running[o]
    BY DEF Service, TypeOK
  <2>5. Lines(p, snap[r]) # {} => running'[p] = TRUE
    BY <1>4, <2>3 DEF Service, TypeOK, Goto
  <2>6. ASSUME LoneProgress(r) PROVE LoneProgress(r)'
    <3>1. snap[r] = db /\ InstalledIs(p, db)
      BY <1>2, <2>6 DEF LoneProgress, Applying, PastRename
    <3>2. ServiceMatches(p, db)'
      BY <1>2, <2>5, <3>1 DEF ServiceMatches, Lines
    <3>3. \A o \in Protocols : o # p => (ServiceMatches(o, db)' <=> ServiceMatches(o, db))
      BY <1>2, <2>4 DEF ServiceMatches, Lines
    <3>4. \A o \in Protocols :
            (PastRename(r, o) => InstalledIs(o, db))' /\ (PastService(r, o) => ServiceMatches(o, db))'
      BY <1>2, <2>3, <2>6, <3>1, <3>2, <3>3
      DEF LoneProgress, PastRename, PastService, Applying, InstalledIs, LiveContent
    <3>5. QED
      BY <1>2, <2>3, <2>6, <3>1, <3>4 DEF LoneProgress, PastExportfs, Applying
  <2>7. QED
    BY <1>1, <1>2, <1>4, <2>2, <2>6, InnerStep
<1>5. QED
  BY <1>3, <1>4 DEF Service

LEMMA ReloadNFSInv ==
  ASSUME IInv, NEW r \in Requests, ReloadNFS(r)
  PROVE  TmpIsNotLive' /\ FreshInodes' /\ PhaseOrder' /\ LoneRequest' /\ DriftHasACause'
<1> USE DEF IInv, At, fileVars, serviceVars
<1>1. "reload" \in Steps /\ "prepare" \in Steps /\ "apply_failed" \in Failures
      /\ "apply_failed" \in Answers
  BY DEF Steps, Answers, Failures
<1>2. /\ pc[r] = "reload" /\ phase[r] = "NFS"
      /\ UNCHANGED <<db, conn, snap, fd, overlapped, tmp, live, data, running>>
  BY DEF ReloadNFS
<1>3. CASE Goto(r, "apply_failed") /\ UNCHANGED <<exported, phase>>
  BY <1>1, <1>2, <1>3, FailedStep, EndKeepsInodes
<1>4. CASE /\ exported' = LiveContent("NFS")
           /\ phase' = [phase EXCEPT ![r] = "SMB"]
           /\ Goto(r, "prepare")
  <2>1. \A q \in Requests, o \in Protocols : NotYetOpened(q, o)' => NotYetOpened(q, o)
    BY <1>2, <1>4 DEF TypeOK, Goto, NotYetOpened, Steps, Protocols
  <2>2. TmpIsNotLive' /\ FreshInodes' /\ PhaseOrder'
    BY <1>2, <1>4, <2>1 DEF TmpIsNotLive, FreshInodes, PhaseOrder, TypeOK, Goto
  <2>3. pc'[r] = "prepare" /\ phase'[r] = "SMB"
    BY <1>2, <1>4 DEF TypeOK, Goto
  <2>4. ASSUME LoneProgress(r) PROVE LoneProgress(r)'
    <3>1. snap[r] = db /\ InstalledIs("NFS", db) /\ ServiceMatches("NFS", db)
      BY <1>2, <2>4 DEF LoneProgress, Applying, PastRename, PastService, Protocols
    <3>2. exported' = Whole(Lines("NFS", db))
      BY <1>4, <3>1 DEF InstalledIs
    <3>3. QED
      BY <1>2, <2>3, <3>1, <3>2
      DEF LoneProgress, PastRename, PastService, InstalledIs, ServiceMatches,
          LiveContent, Protocols
  <2>5. QED
    BY <1>1, <1>2, <1>4, <2>2, <2>4, InnerStep
<1>5. QED
  BY <1>3, <1>4 DEF ReloadNFS

LEMMA ReloadSMBInv ==
  ASSUME IInv, NEW r \in Requests, ReloadSMB(r)
  PROVE  TmpIsNotLive' /\ FreshInodes' /\ PhaseOrder' /\ LoneRequest' /\ DriftHasACause'
<1> USE DEF IInv, At, ReloadSMB, fileVars, serviceVars
<1>1. \A q \in Requests, o \in Protocols : NotYetOpened(q, o)' => NotYetOpened(q, o)
  BY DEF TypeOK, Goto, NotYetOpened, Steps
<1>2. TmpIsNotLive' /\ FreshInodes' /\ PhaseOrder'
  BY <1>1 DEF TmpIsNotLive, FreshInodes, PhaseOrder, TypeOK, Goto
<1>3. pc'[r] = "respond"
  BY DEF TypeOK, Goto
<1>4. LoneProgress(r) => LoneProgress(r)'
  BY <1>3 DEF LoneProgress, PastRename, PastService, PastExportfs, Applying,
              InstalledIs, ServiceMatches, LiveContent
<1>5. QED
  BY <1>2, <1>4, InnerStep DEF Steps

\* A lone request about to respond has applied the whole table.
LEMMA LoneRespond ==
  ASSUME IInv, NEW r \in Requests, pc[r] = "respond", r \notin overlapped
  PROVE  Active = {r} /\ Applied
<1>1. Alone(r)
  BY DEF Alone, Active, Steps
<1>2. Active = {r} /\ LoneProgress(r) /\ phase[r] = "SMB"
  BY <1>1 DEF IInv, LoneRequest, PhaseOrder
<1>3. QED
  BY <1>2 DEF LoneProgress, PastRename, PastService, PastExportfs, Applying, Applied,
              Protocols

LEMMA RespondInv ==
  ASSUME IInv, NEW r \in Requests, Respond(r)
  PROVE  TmpIsNotLive' /\ FreshInodes' /\ PhaseOrder' /\ LoneRequest' /\ DriftHasACause'
<1> USE DEF IInv, Respond, fileVars, serviceVars
<1>1. "respond" \in Steps /\ "ok" \in Answers
  BY DEF Steps, Answers
<1>2. TmpIsNotLive' /\ FreshInodes' /\ PhaseOrder'
  BY <1>1, EndKeepsInodes
<1>3. LoneRequest' /\ Active' = Active \ {r}
  BY <1>1, LastStep
<1>4. CASE r \in overlapped
  BY <1>2, <1>3, <1>4 DEF DriftHasACause
<1>5. CASE r \notin overlapped
  <2>1. Applied
    BY <1>5, LoneRespond
  <2>2. Applied'
    BY <2>1 DEF Applied, InstalledIs, ServiceMatches, LiveContent
  <2>3. QED
    BY <1>2, <1>3, <2>2 DEF DriftHasACause
<1>6. QED
  BY <1>4, <1>5

-----------------------------------------------------------------------------
(* The invariant, and what follows from it                                 *)

LEMMA ContinueInv ==
  ASSUME IInv, NEW r \in Requests, Continue(r)
  PROVE  TmpIsNotLive' /\ FreshInodes' /\ PhaseOrder' /\ LoneRequest' /\ DriftHasACause'
BY LoadInv, ScanInv, PrepareInv, OpenTmpInv, WriteTmpInv, RenameInv, ValidateInv,
   ServiceInv, ReloadNFSInv, ReloadSMBInv, RespondInv DEF Continue

LEMMA CrashInv ==
  ASSUME IInv, Crash
  PROVE  TmpIsNotLive' /\ FreshInodes' /\ PhaseOrder' /\ LoneRequest' /\ DriftHasACause'
<1> USE DEF IInv, Crash, fileVars, serviceVars
<1>1. "killed" \in Failures /\ "killed" \notin Steps
  BY DEF Failures, Steps
<1>2. \A q \in Requests : pc'[q] = (IF q \in Active THEN "killed" ELSE pc[q])
  OBVIOUS
<1>3. \A q \in Requests, p \in Protocols : NotYetOpened(q, p)' => NotYetOpened(q, p)
  BY <1>2 DEF NotYetOpened, Active, Steps
<1>4. TmpIsNotLive' /\ FreshInodes' /\ PhaseOrder'
  BY <1>2, <1>3 DEF TmpIsNotLive, FreshInodes, PhaseOrder, Active, Steps
<1>5. Active' = {}
  BY <1>1, <1>2 DEF Active
<1>6. \E q \in Requests : pc'[q] \in Failures
  BY <1>1, <1>2 DEF Active
<1>7. QED
  BY <1>4, <1>5, <1>6 DEF LoneRequest, Alone, DriftHasACause

LEMMA StutterInv == IInv /\ UNCHANGED vars => IInv'
BY DEF IInv, vars, requestVars, fileVars, serviceVars, TypeOK, TmpIsNotLive, FreshInodes,
       NotYetOpened, PhaseOrder, LoneRequest, Alone, Active, LoneProgress, At, PastRename,
       PastService, PastExportfs, InstalledIs, ServiceMatches, LiveContent, Applied,
       DriftHasACause

LEMMA NextInv == IInv /\ [Next]_vars => IInv'
<1> SUFFICES ASSUME IInv, [Next]_vars PROVE IInv'
  OBVIOUS
<1>1. TypeOK'
  BY NextType DEF IInv
<1>2. CASE \E r \in Requests : Begin(r) \/ Continue(r)
  BY <1>1, <1>2, BeginInv, ContinueInv DEF IInv
<1>3. CASE Crash
  BY <1>1, <1>3, CrashInv DEF IInv
<1>4. CASE UNCHANGED vars
  BY <1>4, StutterInv
<1>5. QED
  BY <1>2, <1>3, <1>4 DEF Next, Served

THEOREM Invariance == Spec => []IInv
<1>1. QED
  BY InitInv, NextInv, PTL DEF Spec

\* A request that was alone while it was served is answered 2xx only when the
\* whole table is applied, whatever failed, crashed or overlapped before it.
THEOREM LoneSuccess == Spec => []LoneSuccessIsApplied
<1>1. IInv => LoneSuccessIsApplied
  BY LoneRespond DEF LoneSuccessIsApplied
<1>2. QED
  BY <1>1, Invariance, PTL

\* The table and the configuration in force drift apart only through an apply
\* error, a rejected Samba file, a restart or two overlapping requests.
THEOREM DriftCause == Spec => []DriftHasACause
<1>1. IInv => DriftHasACause
  BY DEF IInv
<1>2. QED
  BY <1>1, Invariance, PTL

\* No request ever truncates an installed file by opening its temporary name.
THEOREM TmpNeverLive == Spec => []TmpIsNotLive
<1>1. IInv => TmpIsNotLive
  BY DEF IInv
<1>2. QED
  BY <1>1, Invariance, PTL

-----------------------------------------------------------------------------
(* While no requests overlap, the table is the source of truth             *)

SerialInv == IInv /\ overlapped = {}

LEMMA SerialLone ==
  ASSUME SerialInv, NEW r \in Active
  PROVE  LoneProgress(r)
BY DEF SerialInv, IInv, LoneRequest, Alone, Active

LEMMA StoreStutter ==
  ASSUME UNCHANGED db, \A p \in Protocols : LiveContent(p)' = LiveContent(p)
  PROVE  UNCHANGED <<db, Installed>>
BY DEF Installed

LEMMA StoreNext == SerialInv /\ [Next]_vars => [Store!Next]_<<db, Installed>>
<1> SUFFICES ASSUME SerialInv, [Next]_vars PROVE [Store!Next]_<<db, Installed>>
  OBVIOUS
<1> USE DEF SerialInv, IInv, fileVars, serviceVars
<1>1. CASE UNCHANGED <<db, fileVars>>
  BY <1>1, StoreStutter DEF LiveContent
<1>2. ASSUME NEW r \in Requests, Begin(r) PROVE [Store!Next]_<<db, Installed>>
  <2>1. db' \in Tables /\ UNCHANGED fileVars
    BY <1>2 DEF Begin, Invalid, Create, Update, Delete, Refuse, Mutate, TypeOK, Tables
  <2>2. UNCHANGED Installed
    BY <2>1 DEF Installed, LiveContent
  <2>3. QED
    BY <2>1, <2>2 DEF Store!Next, Store!Commit, Installed
<1>3. ASSUME NEW r \in Requests, NEW p \in Protocols, OpenTmp(r, p)
      PROVE  [Store!Next]_<<db, Installed>>
  <2>1. CASE UNCHANGED <<db, tmp, data, live>>
    BY <1>1, <2>1
  <2>2. ASSUME NEW inode,
               inode = (IF tmp[p] = None THEN r ELSE tmp[p]),
               data' = [data EXCEPT ![p][inode] = Empty],
               UNCHANGED <<db, live>>
        PROVE  UNCHANGED <<db, Installed>>
    <3>1. NotYetOpened(r, p)
      BY <1>3 DEF OpenTmp, At, NotYetOpened
    <3>2. inode # live[p]
      BY <2>2, <3>1 DEF FreshInodes, TmpIsNotLive
    <3>3. QED
      BY <2>2, <3>2, StoreStutter DEF LiveContent, TypeOK
  <2>3. QED
    BY <1>3, <2>1, <2>2 DEF OpenTmp, ApplyFailed
<1>4. ASSUME NEW r \in Requests, NEW p \in Protocols, WriteTmp(r, p)
      PROVE  UNCHANGED <<db, Installed>>
  <2>1. r \in Active /\ LoneProgress(r)
    BY <1>4, SerialLone DEF WriteTmp, At, Active, Steps
  <2>2. fd[r] = tmp[p] /\ tmp[p] # live[p]
    BY <1>4, <2>1 DEF WriteTmp, LoneProgress, TmpIsNotLive
  <2>3. UNCHANGED <<db, live>>
    BY <1>4 DEF WriteTmp, ApplyFailed
  <2>4. \A q \in Protocols : data'[q][live[q]] = data[q][live[q]]
    BY <1>4, <2>2 DEF WriteTmp, TypeOK
  <2>5. QED
    BY <2>3, <2>4, StoreStutter DEF LiveContent
<1>5. ASSUME NEW r \in Requests, NEW p \in Protocols, Rename(r, p)
      PROVE  [Store!Next]_<<db, Installed>>
  <2>1. CASE UNCHANGED <<db, tmp, live>>
    BY <1>1, <1>5, <2>1 DEF Rename
  <2>2. CASE UNCHANGED db /\ live' = [live EXCEPT ![p] = tmp[p]]
    <3>1. r \in Active /\ LoneProgress(r)
      BY <1>5, SerialLone DEF Rename, At, Active, Steps
    <3>2. data[p][tmp[p]] = Whole(Lines(p, db)) /\ UNCHANGED data
      BY <1>5, <3>1 DEF Rename, LoneProgress
    <3>3. \A q \in Protocols :
            LiveContent(q)' = (IF q = p THEN Whole(Lines(p, db)) ELSE LiveContent(q))
      BY <2>2, <3>2 DEF LiveContent, TypeOK
    <3>4. Installed' = [Installed EXCEPT ![p] = Whole(Lines(p, db))]
      BY <3>3 DEF Installed
    <3>5. [q \in Protocols |-> [t \in Tables |-> Whole(Lines(q, t))]][p][db]
            = Whole(Lines(p, db))
      BY DEF TypeOK
    <3>6. Store!Install(p)
      BY <2>2, <3>4, <3>5 DEF Store!Install, Installed
    <3>7. QED
      BY <3>6 DEF Store!Next
  <2>3. QED
    BY <1>5, <2>1, <2>2 DEF Rename, ApplyFailed
<1>6. ASSUME NEW r \in Requests, Continue(r) PROVE [Store!Next]_<<db, Installed>>
  <2>1. CASE \/ Load(r) \/ Scan(r) \/ Validate(r) \/ ReloadNFS(r) \/ ReloadSMB(r)
            \/ Respond(r)
    BY <1>1, <2>1 DEF Load, Scan, Validate, ReloadNFS, ReloadSMB, Respond
  <2>2. ASSUME NEW p \in Protocols, Prepare(r, p) \/ Service(r, p)
        PROVE  [Store!Next]_<<db, Installed>>
    BY <1>1, <2>2 DEF Prepare, Service, ApplyFailed
  <2>3. QED
    BY <1>3, <1>4, <1>5, <1>6, <2>1, <2>2 DEF Continue
<1>7. CASE Crash \/ UNCHANGED vars
  BY <1>1, <1>7 DEF Crash, vars
<1>8. QED
  BY <1>2, <1>6, <1>7 DEF Next, Served

\* As long as clients wait for each answer, nasd implements ConfigStore: through
\* apply errors, failed writes and restarts, a configuration file only ever
\* changes to the complete rendering of the table of that moment.
THEOREM SerialRefinement == Spec => SourceOfTruth
<1>1. Init => Store!Init
  <2> SUFFICES ASSUME Init PROVE Store!Init
    OBVIOUS
  <2>1. db \in Tables
    BY DEF Init, Tables
  <2>2. \A p \in Protocols : LiveContent(p) = Whole(Lines(p, db))
    BY NoLines, InodesType DEF Init, LiveContent
  <2>3. QED
    BY <2>1, <2>2 DEF Store!Init
<1>2. IInv /\ [Next]_vars => [overlapped = {} => [Store!Next]_<<db, Installed>>]_vars
  BY StoreNext DEF SerialInv
<1>3. QED
  BY <1>1, <1>2, Invariance, PTL DEF Spec, SourceOfTruth
=============================================================================
