---------------------------- MODULE AccountsProofs ----------------------------
(***************************************************************************)
(* Theorems about Accounts, for any number of requests, users and          *)
(* passwords: its types, and that the three stores agree about every user  *)
(* since a request for that user was served alone and without a failure.   *)
(*                                                                         *)
(* Then about Sessions, for any number of tabs, users and logins: its      *)
(* types, and that a change is made for the user whom the tab showed.  The *)
(* accounts and the sessions share their users and no variable.            *)
(***************************************************************************)
EXTENDS Accounts, Sessions, TLAPS

StepsOf == [create   |-> {"useradd", "chpasswd", "smbpasswd", "insert"},
            password |-> {"chpasswd", "smbpasswd", "update"},
            delete   |-> {"remove", "userdel"}]

\* A request that is being served has a job, and is at a step of it.
HasJob == \A r \in Active : job[r] \in Jobs /\ pc[r] \in StepsOf[job[r].op]

\* Two requests of one user at a time spoil each other, and leave the user so.
Alone ==
  /\ \A r, q \in Active : r # q /\ job[r].user = job[q].user => r \in spoilt
  /\ \A r \in Active : r \in spoilt => job[r].user \in broken
  /\ \A r \in spoilt : pc[r] # "new"

\* What PasswordsAgree and NoOrphans say of a user.
Agree(u) ==
  IF web[u] = None THEN unix[u] = None ELSE unix[u] = web[u] /\ samba[u] = web[u]

Settled == \A u \in Users \ broken : Served(u) => Agree(u)

\* How far a request has brought the stores of its user, when it is alone and its
\* steps worked, whatever they were before.
Progress(r) ==
  LET u == job[r].user
      p == job[r].password
  IN  /\ At(r, "smbpasswd") => unix[u] = p
      /\ At(r, "insert") \/ At(r, "update") => unix[u] = p /\ samba[u] = p
      /\ At(r, "userdel") => web[u] = None

\* What it may rely on besides, when they agreed before.
Kept(r) ==
  LET u == job[r].user
      change == job[r].op = "password"
  IN  /\ At(r, "chpasswd") /\ change => Agree(u)
      /\ At(r, "smbpasswd") /\ change => web[u] # None
      /\ At(r, "update") => web[u] # None
      /\ At(r, "remove") => Agree(u)

OnTheWay ==
  \A r \in Active : /\ r \notin spoilt => Progress(r)
                    /\ job[r].user \notin broken => Kept(r)

IInv == TypeOK /\ HasJob /\ Alone /\ Settled /\ OnTheWay

-----------------------------------------------------------------------------
LEMMA InitInv == Init => IInv
<1> SUFFICES ASSUME Init PROVE IInv
  OBVIOUS
<1>1. Active = {} /\ TypeOK
  BY DEF Init, Active, Steps, TypeOK
<1>2. HasJob /\ Alone /\ OnTheWay
  BY <1>1 DEF Init, HasJob, Alone, OnTheWay
<1>3. Settled
  BY <1>1 DEF Init, Settled, Agree
<1>4. QED
  BY <1>1, <1>2, <1>3 DEF IInv

\* What a step of request r of user u leaves alone: the stores of the other users,
\* and the other requests.
Untouched(u) == web'[u] = web[u] /\ unix'[u] = unix[u] /\ samba'[u] = samba[u]

LEMMA AgreeKept == ASSUME NEW u, Untouched(u) PROVE Agree(u)' <=> Agree(u)
BY DEF Untouched, Agree

LEMMA ProgressKept ==
  ASSUME NEW q, Untouched(job[q].user), pc'[q] = pc[q], job'[q] = job[q]
  PROVE  (Progress(q) => Progress(q)') /\ (Kept(q) => Kept(q)')
BY DEF Untouched, Progress, Kept, Agree, At

\* A step of a request that is being served changes nothing of the other users
\* and requests; what is left to show is what it does to its own.
LEMMA StepInv ==
  ASSUME IInv, NEW r \in Active, TypeOK',
         \A q \in Requests \ {r} : pc'[q] = pc[q] /\ (q \in spoilt' <=> q \in spoilt),
         job' = job,
         \A u \in Users \ {job[r].user} : Untouched(u) /\ (u \in broken' <=> u \in broken),
         r \in spoilt => r \in spoilt' /\ job[r].user \in broken',
         r \in spoilt' => job[r].user \in broken',
         pc'[r] # "new",
         r \in Active' => /\ pc'[r] \in StepsOf[job[r].op]
                          /\ r \notin spoilt' => Progress(r)'
                          /\ job[r].user \notin broken' => Kept(r)',
         r \notin Active' /\ job[r].user \notin broken' => Agree(job[r].user)'
  PROVE  IInv'
<1> DEFINE u0 == job[r].user
<1> USE DEF IInv
<1>1. r \in Requests /\ job[r] \in Jobs /\ u0 \in Users
  BY DEF Active, HasJob, Jobs
<1>2. \A q \in Active' : q \in Active
  BY DEF Active
<1>3. HasJob'
  BY <1>2 DEF HasJob, Active
<1>4. Alone'
  <2>1. ASSUME NEW p \in Active', NEW q \in Active', p # q, job[p].user = job[q].user
        PROVE  p \in spoilt'
    <3>1. p \in Active /\ q \in Active /\ p \in Requests /\ p \in spoilt
      BY <1>2, <2>1 DEF Alone, Active
    <3>2. QED
      BY <3>1
  <2>2. ASSUME NEW q \in Active', q \in spoilt' PROVE job[q].user \in broken'
    <3>1. CASE q = r
      BY <2>2, <3>1
    <3>2. CASE q # r
      <4>1. q \in Active /\ q \in Requests /\ q \in spoilt /\ job[q].user \in broken
        BY <1>2, <2>2, <3>2 DEF Alone, Active
      <4>2. job[q].user = u0 => r \in spoilt
        BY <3>2, <4>1 DEF Alone
      <4>3. job[q].user \in Users
        BY <4>1 DEF HasJob, Jobs
      <4>4. QED
        BY <4>1, <4>2, <4>3
    <3>3. QED
      BY <3>1, <3>2
  <2>3. \A q \in spoilt' : pc'[q] # "new"
    BY DEF Alone, TypeOK
  <2>4. QED
    BY <2>1, <2>2, <2>3 DEF Alone
<1>5. Settled'
  <2> SUFFICES ASSUME NEW u \in Users, u \notin broken', Served(u)' PROVE Agree(u)'
    BY DEF Settled
  <2>1. CASE u = u0
    <3>1. r \notin Active'
      BY <2>1 DEF Served, Of
    <3>2. QED
      BY <2>1, <3>1
  <2>2. CASE u # u0
    <3>1. \A q \in Active : q # r => q \in Active'
      BY DEF Active
    <3>2. Served(u)
      BY <2>2, <3>1 DEF Served, Of
    <3>3. Agree(u) /\ Untouched(u)
      BY <2>2, <3>2 DEF Settled
    <3>4. QED
      BY <3>3, AgreeKept
  <2>3. QED
    BY <2>1, <2>2
<1>6. OnTheWay'
  <2>1. ASSUME NEW q \in Active', q # r
        PROVE  /\ q \notin spoilt' => Progress(q)'
               /\ job[q].user \notin broken' => Kept(q)'
    <3>1. q \in Active /\ q \in Requests /\ pc'[q] = pc[q] /\ (q \in spoilt' <=> q \in spoilt)
      BY <1>2, <2>1 DEF Active
    <3>2. job[q].user \in Users
      BY <3>1 DEF HasJob, Jobs
    <3>3. CASE job[q].user = u0
      <4>1. q \in spoilt /\ r \in spoilt
        BY <2>1, <3>1, <3>3 DEF Alone
      <4>2. QED
        BY <3>1, <3>3, <4>1
    <3>4. CASE job[q].user # u0
      BY <3>1, <3>2, <3>4, ProgressKept DEF OnTheWay
    <3>5. QED
      BY <3>3, <3>4
  <2>2. QED
    BY <2>1 DEF OnTheWay
<1>7. QED
  BY <1>3, <1>4, <1>5, <1>6

LEMMA BeginInv == ASSUME IInv, NEW r \in Requests, NEW j \in Jobs, Begin(r, j)
                  PROVE  IInv'
<1> USE DEF IInv, Begin
<1> DEFINE first == FirstStep[j.op]
<1>1. /\ j.op \in {"create", "password", "delete"} /\ j.user \in Users
      /\ first \in Steps /\ first \in StepsOf[j.op]
      /\ first \in {"useradd", "chpasswd", "remove"}
      /\ first = "useradd" => j.op = "create"
      /\ first = "chpasswd" => j.op = "password"
  BY DEF Jobs, FirstStep, Steps, StepsOf
<1>2. job'[r] = j /\ pc'[r] = first /\ r \notin Active
  BY DEF TypeOK, Active, Steps, Goto
<1>3. \A q \in Requests \ {r} : job'[q] = job[q] /\ pc'[q] = pc[q]
  BY DEF TypeOK, Goto
<1>4. Active' = Active \cup {r}
  BY <1>1, <1>2, <1>3 DEF Active
<1>5. TypeOK'
  <2>1. spoilt' \subseteq Requests /\ broken' \subseteq Users
    BY <1>1 DEF TypeOK, Of, Active
  <2>2. QED
    BY <1>1, <2>1 DEF TypeOK, Goto, Jobs
<1>6. HasJob'
  BY <1>1, <1>2, <1>3, <1>4 DEF HasJob, Active
<1>7. Alone'
  <2>1. ASSUME NEW p \in Active', NEW q \in Active', p # q, (job[p].user)' = (job[q].user)'
        PROVE  p \in spoilt'
    <3>1. CASE p # r /\ q # r
      BY <2>1, <3>1, <1>3, <1>4 DEF Alone, Active
    <3>2. CASE p = r
      <4>1. q \in Of(j.user)
        BY <2>1, <3>2, <1>2, <1>3, <1>4 DEF Of, Active
      <4>2. QED
        BY <3>2, <4>1
    <3>3. CASE q = r
      <4>1. p \in Of(j.user)
        BY <2>1, <3>3, <1>2, <1>3, <1>4 DEF Of, Active
      <4>2. QED
        BY <4>1
    <3>4. QED
      BY <3>1, <3>2, <3>3
  <2>2. ASSUME NEW p \in Active', p \in spoilt' PROVE (job[p].user)' \in broken'
    <3>1. CASE p = r
      BY <1>2, <2>2, <3>1 DEF Alone
    <3>2. CASE p # r
      <4>1. p \in Active /\ p \in Requests /\ job'[p] = job[p]
        BY <1>3, <1>4, <3>2 DEF Active
      <4>2. CASE p \in spoilt
        BY <4>1, <4>2 DEF Alone
      <4>3. CASE p \in Of(j.user)
        BY <4>1, <4>3 DEF Of
      <4>4. QED
        BY <2>2, <3>2, <4>2, <4>3
    <3>3. QED
      BY <3>1, <3>2
  <2>3. \A q \in spoilt' : pc'[q] # "new"
    <3>1. \A q \in Of(j.user) : q \in Requests /\ pc[q] # "new"
      BY DEF Of, Active, Steps
    <3>2. \A q \in Requests \ {r} : pc'[q] = pc[q]
      BY <1>3
    <3>3. pc'[r] # "new"
      BY <1>1, <1>2 DEF Steps
    <3>4. QED
      BY <3>1, <3>2, <3>3 DEF Alone, TypeOK
  <2>4. QED
    BY <2>1, <2>2, <2>3 DEF Alone
<1>8. \A u \in Users : Untouched(u)
  BY DEF Untouched
<1>9. Settled'
  <2> SUFFICES ASSUME NEW u \in Users, u \notin broken', Served(u)' PROVE Agree(u)'
    BY DEF Settled
  <2>1. Served(u) /\ u \notin broken
    BY <1>2, <1>3, <1>4 DEF Served, Of, Active
  <2>2. QED
    BY <2>1, <1>8, AgreeKept DEF Settled
<1>10. OnTheWay'
  <2> SUFFICES ASSUME NEW q \in Active'
               PROVE  /\ q \notin spoilt' => Progress(q)'
                      /\ (job[q].user)' \notin broken' => Kept(q)'
    BY DEF OnTheWay
  <2>1. CASE q = r
    <3>1. Progress(q)'
      BY <2>1, <1>1, <1>2 DEF Progress, At
    <3>2. ASSUME j.user \notin broken' PROVE Kept(q)'
      <4>1. Served(j.user) /\ j.user \notin broken
        BY <3>2 DEF Served
      <4>2. Agree(j.user)'
        BY <4>1, <1>1, <1>8, AgreeKept DEF Settled
      <4>3. QED
        BY <4>2, <2>1, <1>1, <1>2 DEF Kept, At, Agree
    <3>3. QED
      BY <2>1, <1>2, <3>1, <3>2
  <2>2. CASE q # r
    <3>1. /\ q \in Active /\ q \in Requests /\ job'[q] = job[q] /\ pc'[q] = pc[q]
          /\ q \notin spoilt' => q \notin spoilt
          /\ broken \subseteq broken'
      BY <1>3, <1>4, <2>2 DEF Active
    <3>2. job[q].user \in Users
      BY <3>1 DEF HasJob, Jobs
    <3>3. QED
      BY <3>1, <3>2, <1>8, ProgressKept DEF OnTheWay
  <2>3. QED
    BY <2>1, <2>2
<1>11. QED
  BY <1>5, <1>6, <1>7, <1>9, <1>10

\* One step of a request that is being served.
LEMMA ContinueInv == ASSUME IInv, NEW r \in Requests, Continue(r) PROVE IInv'
<1> DEFINE u0 == job[r].user
           Others == /\ \A q \in Requests \ {r} : pc'[q] = pc[q] /\ (q \in spoilt' <=> q \in spoilt)
                     /\ \A u \in Users \ {u0} : Untouched(u) /\ (u \in broken' <=> u \in broken)
           Marked == /\ r \in spoilt => r \in spoilt' /\ u0 \in broken'
                     /\ r \in spoilt' => u0 \in broken'
           Goes == /\ pc'[r] \in StepsOf[job[r].op]
                   /\ r \notin spoilt' => Progress(r)'
                   /\ u0 \notin broken' => Kept(r)'
           Ends == u0 \notin broken' => Agree(u0)'
<1> USE DEF IInv
<1>1. r \in Active /\ job[r] \in Jobs /\ u0 \in Users /\ job[r].password \in Passwords
      /\ job[r].op \in {"create", "password", "delete"} /\ pc[r] \in StepsOf[job[r].op]
  <2>1. r \in Active
    BY DEF Continue, Useradd, Chpasswd, Smbpasswd, Insert, UpdateHash, Remove, Userdel,
           At, Active, Steps
  <2>2. QED
    BY <2>1 DEF HasJob, Jobs
<1>2. /\ r \notin spoilt => Progress(r)
      /\ u0 \notin broken => Kept(r)
      /\ r \in spoilt => u0 \in broken
  BY <1>1 DEF OnTheWay, Alone
<1>3. ASSUME TypeOK', Others, Marked, job' = job, pc'[r] # "new",
             r \in Active' => Goes, r \notin Active' => Ends
      PROVE  IInv'
  BY <1>1, <1>3, StepInv
<1> USE <1>1, <1>2, AccountsAssumption DEF At, Goto
<1> HIDE DEF Others, Marked, Goes, Ends
<1>4. CASE Useradd(r)
  <2> USE <1>4 DEF Useradd
  <2>1. TypeOK'
    BY DEF TypeOK, Steps
  <2>2. Others /\ Marked
    BY DEF TypeOK, Untouched, Others, Marked
  <2>3. pc'[r] = "chpasswd" /\ job[r].op = "create" /\ r \in Active'
    BY DEF TypeOK, StepsOf, Active, Steps
  <2>4. Goes
    BY <2>3 DEF Goes, Progress, Kept, StepsOf
  <2>5. QED
    BY <1>3, <2>1, <2>2, <2>3, <2>4
<1>5. CASE Chpasswd(r)
  <2> USE <1>5 DEF Chpasswd
  <2>1. TypeOK'
    BY DEF TypeOK, Steps, Answers, Break
  <2>2. Others /\ Marked
    BY DEF TypeOK, Untouched, Others, Marked, Break
  <2>3. CASE pc'[r] = "smbpasswd" /\ unix' = [unix EXCEPT ![u0] = job[r].password] /\ unix[u0] # None
             /\ UNCHANGED <<web, spoilt, broken>>
    <3>1. unix'[u0] = job[r].password /\ r \in Active'
      BY <2>3 DEF TypeOK, Active, Steps
    <3>2. job[r].op \in {"create", "password"} /\ pc'[r] \in StepsOf[job[r].op]
      BY <2>3 DEF StepsOf
    <3>3. job[r].op = "password" /\ u0 \notin broken => web[u0] # None
      BY <2>3 DEF Kept, Agree
    <3>4. Goes
      BY <2>3, <3>1, <3>2, <3>3 DEF Goes, Progress, Kept
    <3>5. QED
      BY <1>3, <2>1, <2>2, <2>3, <3>1, <3>4
  <2>4. CASE pc'[r] = "insert" /\ job[r].op = "create" /\ r \in spoilt' /\ u0 \in broken'
    <3>1. Goes /\ r \in Active'
      BY <2>4 DEF Goes, StepsOf, Active, Steps
    <3>2. QED
      BY <1>3, <2>1, <2>2, <2>4, <3>1
  <2>5. CASE pc'[r] = "error" /\ job[r].op = "password" /\ UNCHANGED <<web, unix, samba, broken>>
    <3>1. r \notin Active'
      BY <2>5 DEF Active, Steps
    <3>2. Ends
      BY <2>5 DEF Ends, Kept, Agree
    <3>3. QED
      BY <1>3, <2>1, <2>2, <2>5, <3>1, <3>2
  <2>6. QED
    BY <2>3, <2>4, <2>5 DEF Break, TypeOK
<1>6. CASE Smbpasswd(r)
  <2> USE <1>6 DEF Smbpasswd
  <2>1. TypeOK'
    BY DEF TypeOK, Steps, Break
  <2>2. Others /\ Marked
    BY DEF TypeOK, Untouched, Others, Marked, Break
  <2>3. pc'[r] = (IF job[r].op = "create" THEN "insert" ELSE "update")
        /\ job[r].op \in {"create", "password"}
    BY DEF TypeOK, StepsOf
  <2>4. pc'[r] \in StepsOf[job[r].op] /\ r \in Active'
    BY <2>3 DEF StepsOf, Active, Steps
  <2>5. \/ r \in spoilt' /\ u0 \in broken'
        \/ samba'[u0] = job[r].password /\ UNCHANGED <<web, unix, spoilt, broken>>
    BY DEF Break, TypeOK
  <2>6. Goes
    BY <2>3, <2>4, <2>5 DEF Goes, Progress, Kept
  <2>7. QED
    BY <1>3, <2>1, <2>2, <2>3, <2>4, <2>6
<1>7. CASE Insert(r)
  <2> USE <1>7 DEF Insert
  <2>1. TypeOK'
    BY DEF TypeOK, Answers, Break, Mend
  <2>2. Others /\ Marked
    BY DEF TypeOK, Untouched, Others, Marked, Break, Mend
  <2>3. r \notin Active' /\ pc'[r] # "new"
    BY DEF TypeOK, Active, Steps
  <2>4. Ends
    BY DEF Ends, Agree, Progress, Kept, TypeOK, Break, Mend
  <2>5. QED
    BY <1>3, <2>1, <2>2, <2>3, <2>4
<1>8. CASE UpdateHash(r)
  <2> USE <1>8 DEF UpdateHash
  <2>1. TypeOK'
    BY DEF TypeOK, Answers, Break, Mend
  <2>2. Others /\ Marked
    BY DEF TypeOK, Untouched, Others, Marked, Break, Mend
  <2>3. r \notin Active' /\ pc'[r] # "new"
    BY DEF TypeOK, Active, Steps
  <2>4. Ends
    BY DEF Ends, Agree, Progress, Kept, TypeOK, Break, Mend
  <2>5. QED
    BY <1>3, <2>1, <2>2, <2>3, <2>4
<1>9. CASE Remove(r)
  <2> USE <1>9 DEF Remove
  <2>1. TypeOK'
    BY DEF TypeOK, Steps, Answers
  <2>2. Others /\ Marked
    BY DEF TypeOK, Untouched, Others, Marked
  <2>3. CASE pc'[r] = "userdel" /\ web' = [web EXCEPT ![u0] = None]
    <3>1. r \in Active' /\ web'[u0] = None /\ job[r].op = "delete"
      BY <2>3 DEF TypeOK, Active, Steps, StepsOf
    <3>2. Goes
      BY <2>3, <3>1 DEF Goes, Progress, Kept, StepsOf
    <3>3. QED
      BY <1>3, <2>1, <2>2, <2>3, <3>1, <3>2
  <2>4. CASE pc'[r] = "error" /\ web' = web
    <3>1. r \notin Active'
      BY <2>4 DEF Active, Steps
    <3>2. Ends
      BY <2>4 DEF Ends, Kept, Agree
    <3>3. QED
      BY <1>3, <2>1, <2>2, <2>4, <3>1, <3>2
  <2>5. QED
    BY <2>3, <2>4 DEF TypeOK
<1>10. CASE Userdel(r)
  <2> USE <1>10 DEF Userdel
  <2>1. TypeOK'
    BY DEF TypeOK, Answers, Break, Mend
  <2>2. Others /\ Marked
    BY DEF TypeOK, Untouched, Others, Marked, Break, Mend
  <2>3. r \notin Active' /\ pc'[r] # "new"
    BY DEF TypeOK, Active, Steps
  <2>4. Ends
    BY DEF Ends, Agree, Progress, Kept, TypeOK, Break, Mend
  <2>5. QED
    BY <1>3, <2>1, <2>2, <2>3, <2>4
<1>11. QED
  BY <1>4, <1>5, <1>6, <1>7, <1>8, <1>9, <1>10 DEF Continue

LEMMA CrashInv == ASSUME IInv, Crash PROVE IInv'
<1> USE DEF IInv, Crash
<1>1. \A r \in Requests : pc'[r] = "killed" \/ (r \notin Active /\ pc'[r] = pc[r])
  OBVIOUS
<1>2. Active' = {}
  BY <1>1 DEF Active, Steps
<1>3. \A r \in Active : job[r].user \in Users
  BY DEF HasJob, Jobs
<1>4. TypeOK'
  BY <1>3 DEF TypeOK, Answers
<1>5. HasJob' /\ Alone' /\ OnTheWay'
  BY <1>1, <1>2 DEF HasJob, Alone, OnTheWay, TypeOK
<1>6. Settled'
  <2> SUFFICES ASSUME NEW u \in Users, u \notin broken' PROVE Agree(u)'
    BY DEF Settled
  <2>1. Served(u) /\ u \notin broken
    BY DEF Served, Of
  <2>2. Agree(u) /\ Untouched(u)
    BY <2>1 DEF Settled, Untouched
  <2>3. QED
    BY <2>2, AgreeKept
<1>7. QED
  BY <1>4, <1>5, <1>6

\* nasctl marks the user, and whatever is being served for that user.
LEMMA AdminInv ==
  ASSUME IInv, NEW u0 \in Users, NEW p \in Passwords, CreateAdmin(u0, p) PROVE IInv'
<1> USE DEF IInv, CreateAdmin
<1>1. Active' = Active /\ Of(u0) \subseteq Active /\ Active \subseteq Requests
  BY DEF Active, Of
<1>2. TypeOK' /\ HasJob'
  BY <1>1 DEF TypeOK, HasJob
<1>3. Alone'
  <2>1. \A r \in Of(u0) : pc[r] # "new" /\ job[r].user = u0
    BY DEF Of, Active, Steps
  <2>2. QED
    BY <1>1, <2>1 DEF Alone
<1>4. \A u \in Users \ {u0} : Untouched(u)
  BY DEF Untouched, TypeOK
<1>5. Settled'
  <2> SUFFICES ASSUME NEW u \in Users, u \notin broken', Served(u)' PROVE Agree(u)'
    BY DEF Settled
  <2>1. u # u0 /\ Served(u)
    BY <1>1 DEF Served, Of
  <2>2. QED
    BY <1>4, <2>1, AgreeKept DEF Settled
<1>6. OnTheWay'
  <2> SUFFICES ASSUME NEW r \in Active
               PROVE  /\ r \notin spoilt' => Progress(r)'
                      /\ job[r].user \notin broken' => Kept(r)'
    BY <1>1 DEF OnTheWay
  <2>1. job[r].user \in Users
    BY DEF HasJob, Jobs
  <2>2. CASE job[r].user = u0
    BY <2>2 DEF Of
  <2>3. CASE job[r].user # u0
    BY <1>4, <2>1, <2>3, ProgressKept DEF OnTheWay
  <2>4. QED
    BY <2>2, <2>3
<1>7. QED
  BY <1>2, <1>3, <1>5, <1>6

LEMMA StutterInv == ASSUME IInv, UNCHANGED vars PROVE IInv'
BY DEF IInv, vars, TypeOK, HasJob, Alone, Settled, OnTheWay, Progress, Kept, Agree, Served,
       Of, Active, At

-----------------------------------------------------------------------------
\* The three stores agree about every settled user, and every request that is
\* alone leaves them so at each of its ends (userHandlers in handlers.go).
THEOREM Invariance == Spec => []IInv
<1>1. ASSUME IInv, [Next]_vars PROVE IInv'
  BY <1>1, BeginInv, ContinueInv, AdminInv, CrashInv, StutterInv DEF Next
<1>2. QED
  BY InitInv, <1>1, PTL DEF Spec

\* Every variable keeps its type.
THEOREM TypeCorrect == Spec => []TypeOK
<1>1. IInv => TypeOK
  BY DEF IInv
<1>2. QED
  BY <1>1, Invariance, PTL

\* A user of the web interface enters the shares with the same password
\* (handlers.go:163-167), from the first request for that user on that was served
\* alone and whose steps all worked, until a failure, an overlap or create-admin.
THEOREM StoresAgree == Spec => []PasswordsAgree
<1>1. IInv => PasswordsAgree
  BY DEF IInv, Settled, Agree, PasswordsAgree
<1>2. QED
  BY <1>1, Invariance, PTL

\* On the same condition no system account outlives its web account, nor a
\* deletion that is repeated after its userdel failed (userHandlers.delete).
THEOREM NoAccountIsLeft == Spec => []NoOrphans
<1>1. IInv => NoOrphans
  BY DEF IInv, Settled, Agree, NoOrphans
<1>2. QED
  BY <1>1, Invariance, PTL
-----------------------------------------------------------------------------
(* Sessions, for any number of tabs, users and logins                      *)

\* A token, if there is one, has been issued, and its session, while it lives, is
\* of the user (None: of any).
Vouches(token, user) ==
  token = None \/ (token \in 1 .. created /\ (user = None \/ sessions[token] \in {user, None}))

\* What a request carries and what a response brings.
Honest(m) ==
  /\ m.stage = "sent" => Vouches(m.cookie, None) /\ Vouches(m.csrf, m.user)
  /\ m.stage = "answered" => Vouches(m.token, m.user) /\ (m.status # 200 => m.user = None)

\* The token that a tab sends is of the user whom it shows.
Shows(t) == Vouches(csrf[t], view[t])

SessionsInv ==
  /\ SessionsTypeOK
  /\ Vouches(cookie, None)
  /\ \A t \in Tabs : Shows(t)
  /\ \A t \in Tabs, k \in Kinds : Honest(wire[t][k])
  /\ \A t \in Tabs : Sent(t, "change") => wire[t]["change"].user # None

LEMMA SessionsBegin == ASSUME SessionsInit PROVE SessionsInv
<1> USE DEF SessionsInit, Idle, Blank, Tokens
<1>1. SessionsTypeOK
  BY SessionsAssumption DEF SessionsTypeOK, Request
<1>2. Vouches(cookie, None) /\ \A t \in Tabs : Shows(t)
  BY DEF Vouches, Shows
<1>3. \A t \in Tabs, k \in Kinds : Honest(wire[t][k])
  BY DEF Honest, Vouches
<1>4. \A t \in Tabs : ~Sent(t, "change")
  BY DEF Sent, Kinds
<1>5. QED
  BY <1>1, <1>2, <1>3, <1>4 DEF SessionsInv

\* A session is created with a token that nobody has, and never changes its user.
LEMMA SessionsEnd ==
  ASSUME SessionsTypeOK, [SessionsNext]_sessionsVars
  PROVE  /\ created' \in created .. MaxLogins
         /\ sessions' \in [Tokens -> Users \cup {None}]
         /\ \A token \in 1 .. created : sessions'[token] \in {sessions[token], None}
<1> USE SessionsAssumption DEF SessionsTypeOK, Tokens
<1>1. CASE UNCHANGED <<sessions, created>>
  BY <1>1
<1>2. CASE \E t \in Tabs : ServeLogin(t)
  <2>1. PICK t \in Tabs : ServeLogin(t)
    BY <1>2
  <2>2. Sent(t, "login") => wire[t]["login"].user \in Users \cup {None}
    BY DEF Sent, Kinds, Idle, Request, Response
  <2>3. QED
    BY <1>1, <2>1, <2>2 DEF ServeLogin, serverVars
<1>3. CASE \E t \in Tabs : ServeLogout(t)
  <2>1. PICK t \in Tabs : ServeLogout(t)
    BY <1>3
  <2>2. PICK c : c = wire[t]["logout"].cookie
    OBVIOUS
  <2>3. created' = created /\ (sessions' = sessions \/ sessions' = [sessions EXCEPT ![c] = None])
    BY <2>1, <2>2 DEF ServeLogout
  <2>4. QED
    BY <2>3
<1>4. CASE (\E token \in Tokens : Expire(token)) \/ Restart
  BY <1>4 DEF Expire, Restart
<1>5. CASE UNCHANGED sessionsVars
  BY <1>1, <1>5 DEF sessionsVars, serverVars
<1>6. ASSUME NEW t \in Tabs,
             \/ Browser(t) \/ ServeMe(t) \/ (\E k \in {"poll", "change"} : Serve(t, k))
             \/ Arrive(t) \/ \E k \in Kinds : Lose(t, k)
      PROVE  UNCHANGED <<sessions, created>>
  BY <1>6 DEF Browser, Open, Submit, Poll, Ask, Send, ServeMe, Serve, Arrive,
              ReceiveLogin, ReceiveMe, ReceiveLogout, Receive, Lose, serverVars
<1>7. QED
  BY <1>1, <1>2, <1>3, <1>4, <1>5, <1>6 DEF SessionsNext, Nasd

LEMMA VouchesStays ==
  ASSUME SessionsTypeOK, [SessionsNext]_sessionsVars,
         NEW token, NEW user, Vouches(token, user)
  PROVE  Vouches(token, user)'
BY SessionsEnd, SessionsAssumption DEF Vouches, SessionsTypeOK

LEMMA HonestStays ==
  ASSUME SessionsTypeOK, [SessionsNext]_sessionsVars, NEW m, Honest(m)
  PROVE  Honest(m)'
BY VouchesStays DEF Honest

Messages == {Idle} \cup Request \cup Response

\* A step of a tab: one message of it comes, changes or goes, and it may show
\* another user.
LEMMA TabStep ==
  ASSUME SessionsInv, [SessionsNext]_sessionsVars,
         NEW t \in Tabs, NEW k \in Kinds, NEW m \in Messages,
         wire' = [wire EXCEPT ![t][k] = m], Honest(m)',
         k = "change" /\ m.stage = "sent" => m.user # None,
         view' \in [Tabs -> Users \cup {None}], csrf' \in [Tabs -> Tokens \cup {None}], Shows(t)',
         \A s \in Tabs \ {t} : view'[s] = view[s] /\ csrf'[s] = csrf[s],
         cookie' \in Tokens \cup {None}, Vouches(cookie, None)'
  PROVE  SessionsInv'
<1>1. SessionsTypeOK /\ wire \in [Tabs -> [Kinds -> Messages]]
  BY DEF SessionsInv, SessionsTypeOK, Messages
<1>2. wire' \in [Tabs -> [Kinds -> Messages]]
  BY <1>1
<1>3. SessionsTypeOK'
  BY <1>1, <1>2, SessionsEnd, SessionsAssumption DEF SessionsTypeOK, Messages
<1>4. ASSUME NEW s \in Tabs PROVE Shows(s)'
  <2>1. CASE s = t
    BY <2>1
  <2>2. CASE s # t
    <3>1. PICK token, user : token = csrf[s] /\ user = view[s]
      OBVIOUS
    <3>2. Vouches(token, user)
      BY <3>1 DEF SessionsInv, Shows
    <3>3. Vouches(token, user)'
      BY <1>1, <3>2, VouchesStays
    <3>4. csrf'[s] = token /\ view'[s] = user
      BY <2>2, <3>1
    <3>5. QED
      BY <3>3, <3>4 DEF Shows
  <2>3. QED
    BY <2>1, <2>2
<1>5. ASSUME NEW s \in Tabs, NEW j \in Kinds PROVE Honest(wire[s][j])'
  <2>1. PICK n : n = wire[s][j]
    OBVIOUS
  <2>2. Honest(n)
    BY <2>1 DEF SessionsInv
  <2>3. Honest(n)'
    BY <1>1, <2>2, HonestStays
  <2>4. wire'[s][j] = n \/ wire'[s][j] = m
    BY <1>1, <2>1
  <2>5. QED
    BY <2>3, <2>4
<1>6. ASSUME NEW s \in Tabs, Sent(s, "change")' PROVE wire'[s]["change"].user # None
  <2>1. wire'[s]["change"] = wire[s]["change"] \/ (wire'[s]["change"] = m /\ k = "change")
    BY <1>1 DEF Kinds
  <2>2. QED
    BY <1>6, <2>1 DEF SessionsInv, Sent
<1>7. QED
  BY <1>3, <1>4, <1>5, <1>6 DEF SessionsInv

\* The browser sends a message, or loads the page again.
LEMMA BrowserHonest ==
  ASSUME SessionsInv, [SessionsNext]_sessionsVars, NEW t \in Tabs, Browser(t)
  PROVE  SessionsInv'
<1>1. /\ SessionsTypeOK /\ cookie \in Tokens \cup {None} /\ Vouches(cookie, None) /\ Shows(t)
      /\ view \in [Tabs -> Users \cup {None}] /\ csrf \in [Tabs -> Tokens \cup {None}]
  BY DEF SessionsInv, SessionsTypeOK
<1>2. PICK c, shown, token : c = cookie /\ shown = view[t] /\ token = csrf[t]
  OBVIOUS
<1>3. Vouches(c, None)' /\ Vouches(token, shown)' /\ Vouches(None, None)'
  BY <1>1, <1>2, VouchesStays DEF Shows, Vouches
<1>4. CASE Open(t)
  <2>1. /\ wire' = [wire EXCEPT ![t]["me"] = WhoAmI]
        /\ view' = [view EXCEPT ![t] = None] /\ csrf' = [csrf EXCEPT ![t] = None]
        /\ cookie' = cookie
    BY <1>4 DEF Open
  <2>2. WhoAmI = [stage |-> "sent", cookie |-> c, csrf |-> None, user |-> None]
    BY <1>2 DEF WhoAmI, Blank
  <2>3. PICK m : m = WhoAmI
    OBVIOUS
  <2>4. m \in Messages /\ Honest(m)'
    BY <1>1, <1>2, <1>3, <2>2, <2>3 DEF Messages, Request, Honest, Vouches
  <2>5. Shows(t)' /\ Vouches(cookie, None)'
    BY <1>1, <1>2, <1>3, <2>1 DEF Shows, Vouches
  <2>6. QED
    BY <1>1, <2>1, <2>3, <2>4, <2>5, TabStep DEF Kinds
<1>5. ASSUME NEW k \in Kinds, NEW m \in Messages, Honest(m)', wire' = [wire EXCEPT ![t][k] = m],
             k = "change" => m.user # None, UNCHANGED <<cookie, view, csrf>>
      PROVE  SessionsInv'
  <2>1. Shows(t)' /\ Vouches(cookie, None)'
    BY <1>2, <1>3, <1>5 DEF Shows
  <2>2. QED
    BY <1>1, <1>5, <2>1, TabStep
<1>6. CASE \E u \in Users : Submit(t, u)
  <2>1. PICK u \in Users : Submit(t, u)
    BY <1>6
  <2>2. PICK m : m = [stage |-> "sent", cookie |-> None, csrf |-> None, user |-> u]
    OBVIOUS
  <2>3. [Blank EXCEPT !.user = u] = m
    BY <2>2 DEF Blank
  <2>4. wire' = [wire EXCEPT ![t]["login"] = m] /\ UNCHANGED <<cookie, view, csrf>>
    BY <2>1, <2>3 DEF Submit, Send
  <2>5. m \in Messages /\ Honest(m)'
    BY <2>2 DEF Messages, Request, Honest, Vouches
  <2>6. QED
    BY <1>5, <2>4, <2>5 DEF Kinds
<1>7. CASE Poll(t)
  <2>1. PICK m : m = [stage |-> "sent", cookie |-> c, csrf |-> None, user |-> None]
    OBVIOUS
  <2>2. [Blank EXCEPT !.cookie = cookie] = m
    BY <1>2, <2>1 DEF Blank
  <2>3. wire' = [wire EXCEPT ![t]["poll"] = m] /\ UNCHANGED <<cookie, view, csrf>>
    BY <1>7, <2>2 DEF Poll, Send
  <2>4. m \in Messages /\ Honest(m)'
    BY <1>1, <1>2, <1>3, <2>1 DEF Messages, Request, Honest, Vouches
  <2>5. QED
    BY <1>5, <2>3, <2>4 DEF Kinds
<1>8. CASE \E k \in {"logout", "change"} : Ask(t, k)
  <2>1. PICK k \in {"logout", "change"} : Ask(t, k)
    BY <1>8
  <2>2. PICK m : m = [stage |-> "sent", cookie |-> c, csrf |-> token, user |-> shown]
    OBVIOUS
  <2>3. wire' = [wire EXCEPT ![t][k] = m] /\ UNCHANGED <<cookie, view, csrf>> /\ m.user # None
    BY <1>2, <2>1, <2>2 DEF Ask, Send
  <2>4. m \in Messages /\ Honest(m)'
    BY <1>1, <1>2, <1>3, <2>2 DEF Messages, Request, Honest
  <2>5. QED
    BY <1>5, <2>3, <2>4 DEF Kinds
<1>9. QED
  BY <1>4, <1>6, <1>7, <1>8 DEF Browser

\* nasd answers: a token that it sends is a new one or that of a live session.
LEMMA NasdHonest ==
  ASSUME SessionsInv, [SessionsNext]_sessionsVars, NEW t \in Tabs, Nasd(t)
  PROVE  SessionsInv'
<1>1. /\ SessionsTypeOK /\ cookie \in Tokens \cup {None} /\ Vouches(cookie, None) /\ Shows(t)
      /\ view \in [Tabs -> Users \cup {None}] /\ csrf \in [Tabs -> Tokens \cup {None}]
      /\ sessions \in [Tokens -> Users \cup {None}] /\ created \in 0 .. MaxLogins
      /\ \A k \in Kinds : wire[t][k] \in Messages /\ Honest(wire[t][k])
  BY DEF SessionsInv, SessionsTypeOK, Messages
<1>2. PICK c, shown, token : c = cookie /\ shown = view[t] /\ token = csrf[t]
  OBVIOUS
<1>3. Vouches(c, None)' /\ Vouches(token, shown)'
  BY <1>1, <1>2, VouchesStays DEF Shows
<1>4. ASSUME NEW k \in Kinds, NEW m \in Messages, Honest(m)', m.stage = "answered",
             wire' = [wire EXCEPT ![t][k] = m], UNCHANGED <<cookie, view, csrf>>
      PROVE  SessionsInv'
  <2>1. Shows(t)' /\ Vouches(cookie, None)'
    BY <1>2, <1>3, <1>4 DEF Shows
  <2>2. QED
    BY <1>1, <1>4, <2>1, TabStep
<1>5. ASSUME NEW k \in Kinds, NEW status \in {200, 401, 403},
             NEW given \in Tokens \cup {None}, NEW user \in Users \cup {None},
             Vouches(given, user)', status # 200 => user = None,
             Answer(t, k, status, given, user), UNCHANGED <<cookie, view, csrf>>
      PROVE  SessionsInv'
  <2> DEFINE m == [stage |-> "answered", status |-> status, token |-> given, user |-> user]
  <2>1. wire' = [wire EXCEPT ![t][k] = m]
    BY <1>5 DEF Answer
  <2>2. m \in Messages /\ Honest(m)' /\ m.stage = "answered"
    BY <1>5 DEF Messages, Response, Honest
  <2> HIDE DEF m
  <2>3. QED
    BY <1>4, <1>5, <2>1, <2>2
<1>6. \A k : Status(t, k) \in {200, 401, 403} /\ Vouches(None, None)'
  BY DEF Status, Vouches
<1>7. CASE ServeLogin(t)
  <2>1. CASE Answer(t, "login", 401, None, None)
    BY <1>5, <1>6, <1>7, <2>1 DEF ServeLogin, Kinds
  <2>2. CASE /\ created < MaxLogins /\ created' = created + 1
             /\ sessions' = [sessions EXCEPT ![created + 1] = wire[t]["login"].user]
             /\ Answer(t, "login", 200, created + 1, wire[t]["login"].user)
    <3>1. PICK user : user = wire[t]["login"].user
      OBVIOUS
    <3>2. user \in Users \cup {None}
      BY <1>1, <1>7, <3>1 DEF ServeLogin, Sent, Messages, Kinds, Idle, Request, Response
    <3>3. PICK n : n = created + 1
      OBVIOUS
    <3>4. n \in Tokens /\ sessions'[n] = user /\ created' = n /\ n \in 1 .. n
      BY <1>1, <2>2, <3>1, <3>3, SessionsAssumption DEF Tokens
    <3>5. Vouches(n, user)'
      BY <3>4 DEF Vouches
    <3>6. Answer(t, "login", 200, n, user) /\ UNCHANGED <<cookie, view, csrf>>
      BY <1>7, <2>2, <3>1, <3>3 DEF ServeLogin
    <3>7. QED
      BY <1>5, <3>2, <3>4, <3>5, <3>6 DEF Kinds
  <2>3. QED
    BY <1>7, <2>1, <2>2 DEF ServeLogin
<1>8. CASE ServeLogout(t)
  BY <1>5, <1>6, <1>8 DEF ServeLogout, Kinds
<1>9. CASE ServeMe(t)
  <2>1. PICK n : n = wire[t]["me"].cookie
    OBVIOUS
  <2>2. UNCHANGED <<sessions, created, cookie, view, csrf>> /\ wire[t]["me"].stage = "sent"
    BY <1>9 DEF ServeMe, serverVars, Sent
  <2>3. Vouches(n, None)
    BY <1>1, <2>1, <2>2 DEF Honest, Kinds
  <2>4. CASE Live(n)
    <3>1. n \in 1 .. created /\ n \in Tokens
      BY <1>1, <2>3, <2>4, SessionsAssumption DEF Live, Vouches, Tokens
    <3>2. PICK user : user = sessions[n]
      OBVIOUS
    <3>3. user \in Users \cup {None} /\ Vouches(n, user)'
      BY <1>1, <2>2, <3>1, <3>2 DEF Vouches
    <3>4. Answer(t, "me", 200, n, user)
      BY <1>9, <2>1, <2>4, <3>2 DEF ServeMe
    <3>5. QED
      BY <1>5, <2>2, <3>1, <3>3, <3>4 DEF Kinds
  <2>5. CASE ~Live(n)
    <3>1. Answer(t, "me", 401, None, None)
      BY <1>9, <2>1, <2>5 DEF ServeMe
    <3>2. QED
      BY <1>5, <1>6, <2>2, <3>1 DEF Kinds
  <2>6. QED
    BY <2>4, <2>5
<1>10. CASE \E k \in {"poll", "change"} : Serve(t, k)
  BY <1>5, <1>6, <1>10 DEF Serve, Kinds
<1>11. QED
  BY <1>7, <1>8, <1>9, <1>10 DEF Nasd

\* A message arrives, or is lost: only an answer with status 200 gives a tab a user,
\* and with the user the token.
LEMMA ArrivalHonest ==
  ASSUME SessionsInv, [SessionsNext]_sessionsVars, NEW t \in Tabs,
         Arrive(t) \/ \E k \in Kinds : Lose(t, k)
  PROVE  SessionsInv'
<1>1. /\ SessionsTypeOK /\ cookie \in Tokens \cup {None} /\ Vouches(cookie, None) /\ Shows(t)
      /\ view \in [Tabs -> Users \cup {None}] /\ csrf \in [Tabs -> Tokens \cup {None}]
      /\ \A k \in Kinds : wire[t][k] \in Messages /\ Honest(wire[t][k])
  BY DEF SessionsInv, SessionsTypeOK, Messages
<1>2. PICK c, shown, token : c = cookie /\ shown = view[t] /\ token = csrf[t]
  OBVIOUS
<1>3. Vouches(c, None)' /\ Vouches(token, shown)' /\ Vouches(token, None)' /\ Vouches(None, None)'
  BY <1>1, <1>2, VouchesStays DEF Shows, Vouches
<1>4. ASSUME NEW k \in Kinds, Done(t, k), NEW user \in Users \cup {None},
             NEW given \in Tokens \cup {None}, NEW kept \in Tokens \cup {None},
             Vouches(given, user)', Vouches(kept, None)',
             Show(t, user), csrf' = [csrf EXCEPT ![t] = given], cookie' = kept
      PROVE  SessionsInv'
  <2>1. PICK m : m = Idle
    OBVIOUS
  <2>2. m \in Messages /\ Honest(m)' /\ wire' = [wire EXCEPT ![t][k] = m] /\ m.stage # "sent"
    BY <1>4, <2>1 DEF Done, Messages, Honest, Idle
  <2>3. Shows(t)' /\ Vouches(cookie, None)'
    BY <1>1, <1>4 DEF Shows, Show
  <2>4. QED
    BY <1>1, <1>4, <2>2, <2>3, TabStep DEF Show
<1>5. /\ csrf = [csrf EXCEPT ![t] = token]
      /\ c \in Tokens \cup {None} /\ token \in Tokens \cup {None}
      /\ shown \in Users \cup {None}
  BY <1>1, <1>2
<1>6. ASSUME NEW k \in Kinds, Done(t, k), Show(t, None) \/ Show(t, shown),
             UNCHANGED <<cookie, csrf>> \/ (cookie' = None /\ csrf' = csrf)
      PROVE  SessionsInv'
  <2>1. csrf' = [csrf EXCEPT ![t] = token]
    BY <1>5, <1>6
  <2>2. cookie' = c \/ cookie' = None
    BY <1>2, <1>6
  <2>3. QED
    BY <1>3, <1>4, <1>5, <1>6, <2>1, <2>2
<1>7. ASSUME NEW k \in Kinds, Answered(t, k)
      PROVE  /\ wire[t][k].token \in Tokens \cup {None} /\ wire[t][k].user \in Users \cup {None}
             /\ Vouches(wire[t][k].token, wire[t][k].user)
             /\ wire[t][k].status # 200 => wire[t][k].user = None
  BY <1>1, <1>7 DEF Answered, Messages, Idle, Request, Response, Honest
<1>8. CASE ReceiveLogin(t)
  <2>1. CASE Show(t, None) /\ UNCHANGED <<cookie, csrf>>
    BY <1>6, <1>8, <2>1 DEF ReceiveLogin, Kinds
  <2>2. CASE /\ cookie' = wire[t]["login"].token
             /\ csrf' = [csrf EXCEPT ![t] = wire[t]["login"].token]
             /\ Show(t, wire[t]["login"].user)
    <3>1. PICK given, user : given = wire[t]["login"].token /\ user = wire[t]["login"].user
      OBVIOUS
    <3>2. /\ given \in Tokens \cup {None} /\ user \in Users \cup {None} /\ Vouches(given, user)
          /\ Done(t, "login")
      BY <1>7, <1>8, <3>1 DEF ReceiveLogin, Kinds
    <3>3. Vouches(given, user)' /\ Vouches(given, None)'
      BY <1>1, <3>2, VouchesStays DEF Vouches
    <3>4. QED
      BY <1>4, <2>2, <3>1, <3>2, <3>3 DEF Kinds
  <2>3. QED
    BY <1>8, <2>1, <2>2 DEF ReceiveLogin
<1>9. CASE ReceiveMe(t)
  <2>1. PICK given, user : given = wire[t]["me"].token /\ user = wire[t]["me"].user
    OBVIOUS
  <2>2. /\ given \in Tokens \cup {None} /\ user \in Users \cup {None} /\ Vouches(given, user)
        /\ wire[t]["me"].status # 200 => user = None
        /\ Done(t, "me") /\ Show(t, user) /\ cookie' = c
    BY <1>2, <1>7, <1>9, <2>1 DEF ReceiveMe, Kinds
  <2>3. Vouches(given, user)'
    BY <1>1, <2>2, VouchesStays
  <2>4. CASE csrf' = [csrf EXCEPT ![t] = given]
    BY <1>3, <1>4, <1>5, <2>2, <2>3, <2>4 DEF Kinds
  <2>5. CASE wire[t]["me"].status # 200
    BY <1>2, <1>6, <1>9, <2>2, <2>5 DEF ReceiveMe, Kinds
  <2>6. QED
    BY <1>9, <2>1, <2>4, <2>5 DEF ReceiveMe
<1>10. CASE ReceiveLogout(t)
  BY <1>6, <1>10 DEF ReceiveLogout, Kinds
<1>11. CASE \E k \in {"poll", "change"} : Receive(t, k)
  BY <1>2, <1>6, <1>11 DEF Receive, Kinds
<1>12. CASE \E k \in Kinds : Lose(t, k)
  BY <1>2, <1>6, <1>12 DEF Lose
<1>13. QED
  BY <1>8, <1>9, <1>10, <1>11, <1>12 DEF Arrive

\* A session ends, or nothing happens.
LEMMA EndHonest ==
  ASSUME SessionsInv, [SessionsNext]_sessionsVars,
         UNCHANGED <<cookie, view, csrf, wire>>
  PROVE  SessionsInv'
<1>1. SessionsTypeOK
  BY DEF SessionsInv
<1>2. SessionsTypeOK'
  BY <1>1, SessionsEnd, SessionsAssumption DEF SessionsTypeOK
<1>3. PICK c : c = cookie
  OBVIOUS
<1>4. Vouches(cookie, None)'
  BY <1>1, <1>3, VouchesStays DEF SessionsInv
<1>5. ASSUME NEW t \in Tabs PROVE Shows(t)'
  <2>1. PICK token, user : token = csrf[t] /\ user = view[t]
    OBVIOUS
  <2>2. Vouches(token, user)'
    BY <1>1, <2>1, VouchesStays DEF SessionsInv, Shows
  <2>3. QED
    BY <2>1, <2>2 DEF Shows
<1>6. ASSUME NEW t \in Tabs, NEW k \in Kinds PROVE Honest(wire[t][k])'
  <2>1. PICK m : m = wire[t][k]
    OBVIOUS
  <2>2. Honest(m)'
    BY <1>1, <2>1, HonestStays DEF SessionsInv
  <2>3. QED
    BY <2>1, <2>2
<1>7. \A t \in Tabs : Sent(t, "change")' => wire'[t]["change"].user # None
  BY DEF SessionsInv, Sent
<1>8. QED
  BY <1>2, <1>4, <1>5, <1>6, <1>7 DEF SessionsInv

\* The inductive invariant: a token that is anywhere - in the cookie, in a tab, on
\* its way - was issued, and where a user comes with it, its session is that
\* user's as long as it lives (auth.go SessionStore, api.js, app.js App).
THEOREM SessionsInvariance == SessionsSpec => []SessionsInv
<1>1. SessionsInit => SessionsInv
  BY SessionsBegin
<1>2. SessionsInv /\ [SessionsNext]_sessionsVars => SessionsInv'
  <2> SUFFICES ASSUME SessionsInv, [SessionsNext]_sessionsVars PROVE SessionsInv'
    OBVIOUS
  <2>1. CASE \E t \in Tabs :
               Browser(t) \/ Nasd(t) \/ Arrive(t) \/ \E k \in Kinds : Lose(t, k)
    BY <2>1, BrowserHonest, NasdHonest, ArrivalHonest
  <2>2. CASE (\E token \in Tokens : Expire(token)) \/ Restart \/ UNCHANGED sessionsVars
    <3>1. UNCHANGED <<cookie, view, csrf, wire>>
      BY <2>2 DEF Expire, Restart, sessionsVars
    <3>2. QED
      BY <3>1, EndHonest
  <2>3. QED
    BY <2>1, <2>2 DEF SessionsNext
<1>3. QED
  BY <1>1, <1>2, PTL DEF SessionsSpec

\* The store, the cookie, the tabs and the messages keep their types.
THEOREM SessionsTypeCorrect == SessionsSpec => []SessionsTypeOK
<1>1. SessionsInv => SessionsTypeOK
  BY DEF SessionsInv
<1>2. QED
  BY <1>1, SessionsInvariance, PTL

\* A change that nasd makes is made for the user whom the tab showed when it was
\* asked for, whoever has logged in in another tab since (middleware.go CSRF).
THEOREM ChangesAreOwn == SessionsSpec => []ChangesAreByTheShownUser
<1>1. SessionsInv => ChangesAreByTheShownUser
  <2> SUFFICES ASSUME SessionsInv, NEW t \in Tabs, Sent(t, "change"), Status(t, "change") = 200
               PROVE  sessions[wire[t]["change"].cookie] = wire[t]["change"].user
    BY DEF ChangesAreByTheShownUser
  <2>1. PICK m : m = wire[t]["change"]
    OBVIOUS
  <2>2. Vouches(m.csrf, m.user) /\ m.user # None
    BY <2>1 DEF SessionsInv, Honest, Sent, Kinds
  <2>3. m.cookie # None /\ sessions[m.cookie] # None /\ m.csrf = m.cookie
    BY <2>1 DEF Status, Live
  <2>4. QED
    BY <2>1, <2>2, <2>3 DEF Vouches
<1>2. QED
  BY <1>1, SessionsInvariance, PTL
=============================================================================
