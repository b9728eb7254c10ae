--------------------------- MODULE Accounts_proofs ---------------------------
(***************************************************************************)
(* What holds of accounts whatever the accounts, thresholds and bounds,    *)
(* with requests about every account at once: an account has its wallet,   *)
(* approval rests on an approved submission, and automated reports on      *)
(* evidence.  Then, of a host's payout methods, when one is primary.       *)
(***************************************************************************)
EXTENDS Accounts, PayoutMethods, FiniteSetTheorems, TLAPS

\* Handlers in flight.
AccountTask ==
    {Idle}
    \cup [at : {"createUser", "createWallet", "previousLogin", "countAccounts",
                "reportDevice", "issue", "readStatus", "revokeAll", "reportCapture"},
          of : Accounts]
    \cup [at : {"recordLogin"}, of : Accounts, known : BOOLEAN]
    \cup [at : {"revokeOld"}, of : Accounts, key : Keys]
    \cup [at : {"setStatus"}, of : Accounts, to : Statuses \ {"none"}]
    \cup [at : {"insertSubmission"}, of : Accounts, n : Nat]
    \cup [at : {"readSubmission", "decideRow", "decideUser"}, of : Accounts, row : Nat,
          to : {"approved", "rejected"}]
    \cup [at : {"countCaptures"}, of : Accounts, type : EventTypes]
    \cup [at : {"resolve"}, row : Nat, action : {"resolved", "dismissed"},
          to : AccountActions]

RowTypes ==
    /\ status \in [Accounts -> Statuses]
    /\ wallet \subseteq Accounts
    /\ token \in [Keys -> Accounts \cup {"none"}]
    /\ kyc \in [Accounts -> {"none", "pending", "approved", "rejected"}]
    /\ submission \in [Accounts -> Seq(SubmissionRow)]
    /\ login \in [Accounts -> 0..1]
    /\ capture \in [Accounts -> [EventTypes -> 0..MaxCaptures]]
    /\ report \in Seq(ReportRow)
    /\ crashes \in Nat

\* The accounts that used the shared device.
Sharing == {u \in Accounts : login[u] > 0}

\* A submission decided that way, or by two admins at once.
Decided(u, i, to) ==
    /\ i \in DOMAIN submission[u]
    /\ \/ submission[u][i].status = to /\ submission[u][i].decisions >= 1
       \/ submission[u][i].decisions > 1

\* What a handler in flight relies on.
ExistingSteps == {"createWallet", "previousLogin", "recordLogin", "countAccounts",
                  "reportDevice", "setStatus", "countCaptures", "reportCapture"}
Sound(x) ==
    /\ x.at \in ExistingSteps => status[x.of] # "none"
    /\ x.at \in {"readSubmission", "decideRow"} => x.row \in DOMAIN submission[x.of]
    /\ x.at = "decideUser" => Decided(x.of, x.row, x.to)
    /\ x.at = "reportDevice" => distinctAccounts >= DeviceThreshold
    /\ x.at = "reportCapture" => totalCaptureEvents(x.of) >= CaptureThreshold
    /\ x.at = "resolve" => x.row \in DOMAIN report

\* Reports are about existing accounts and have their evidence.
Evident(row) ==
    /\ status[row.about] # "none"
    /\ row.why = "device" => distinctAccounts >= DeviceThreshold
    /\ row.why = "capture" => totalCaptureEvents(row.about) >= CaptureThreshold
Reports == \A r \in DOMAIN report : Evident(report[r])

Approvals == \A u \in Accounts :
    kyc[u] = "approved" => \E i \in DOMAIN submission[u] : Decided(u, i, "approved")

Wallets == \A u \in Accounts : status[u] # "none" /\ u \notin wallet
    => crashes > 0 \/ \E t \in Busy({"createWallet"}) : task[t].of = u

IInv ==
    /\ task \in [Tasks -> AccountTask]
    /\ RowTypes
    /\ IsFiniteSet(Sharing)
    /\ \A t \in Tasks : Sound(task[t])
    /\ Reports /\ Approvals /\ Wallets

-----------------------------------------------------------------------------
(* What a task is, from the step it is at *)

LEMMA TaskKinds ==
    ASSUME NEW x \in AccountTask
    PROVE  /\ x.at \notin {"idle", "resolve"} => x.of \in Accounts
           /\ x.at \in {"createUser", "createWallet", "previousLogin", "countAccounts",
                        "reportDevice", "issue", "readStatus", "revokeAll",
                        "reportCapture"}
                  => x \in [at : {"createUser", "createWallet", "previousLogin",
                                  "countAccounts", "reportDevice", "issue",
                                  "readStatus", "revokeAll", "reportCapture"},
                            of : Accounts]
           /\ x.at = "recordLogin"
                  => x \in [at : {"recordLogin"}, of : Accounts, known : BOOLEAN]
           /\ x.at = "revokeOld"
                  => x \in [at : {"revokeOld"}, of : Accounts, key : Keys]
           /\ x.at = "setStatus"
                  => x \in [at : {"setStatus"}, of : Accounts, to : Statuses \ {"none"}]
           /\ x.at = "insertSubmission"
                  => x \in [at : {"insertSubmission"}, of : Accounts, n : Nat]
           /\ x.at \in {"readSubmission", "decideRow", "decideUser"}
                  => x \in [at : {"readSubmission", "decideRow", "decideUser"},
                            of : Accounts, row : Nat, to : {"approved", "rejected"}]
           /\ x.at = "countCaptures"
                  => x \in [at : {"countCaptures"}, of : Accounts, type : EventTypes]
           /\ x.at = "resolve"
                  => x \in [at : {"resolve"}, row : Nat,
                            action : {"resolved", "dismissed"}, to : AccountActions]
  BY DEF AccountTask, Idle

LEMMA IdleTask == Idle \in AccountTask /\ Idle.at = "idle" /\ Sound(Idle)
  BY DEF AccountTask, Idle, Sound, ExistingSteps

\* A task begun for an account.
LEMMA ForTask ==
    ASSUME NEW u \in Accounts,
           NEW step \in {"createUser", "createWallet", "previousLogin", "countAccounts",
                         "reportDevice", "issue", "readStatus", "revokeAll",
                         "reportCapture"}
    PROVE  For(step, u) \in AccountTask /\ For(step, u).at = step /\ For(step, u).of = u
  BY DEF For, AccountTask

-----------------------------------------------------------------------------
(* What stays as accounts go on *)

\* Accounts, submissions, decisions, logins, captures and reports only come to be.
Grew ==
    /\ \A u \in Accounts : status[u] # "none" => status'[u] # "none"
    /\ \A u \in Accounts : DOMAIN submission[u] \subseteq DOMAIN submission'[u]
    /\ \A u \in Accounts : \A i, to : Decided(u, i, to) => Decided(u, i, to)'
    /\ distinctAccounts >= DeviceThreshold => distinctAccounts' >= DeviceThreshold
    /\ \A u \in Accounts : totalCaptureEvents(u) >= CaptureThreshold
                               => totalCaptureEvents(u)' >= CaptureThreshold
    /\ DOMAIN report \subseteq DOMAIN report'

\* What a handler relies on stays so.
LEMMA SoundStays ==
    ASSUME Grew, NEW x \in AccountTask, Sound(x)
    PROVE  Sound(x)'
  <1>1. x.at \notin {"idle", "resolve"} => x.of \in Accounts
    BY TaskKinds
  <1> QED BY <1>1 DEF Sound, Grew, ExistingSteps

\* What each step has to show for itself.
LEMMA StepKeeps ==
    ASSUME IInv, NEW t \in Tasks, NEW new \in AccountTask, Goto(t, new), Grew,
           RowTypes', IsFiniteSet(Sharing)', Sound(new)',
           Reports', Approvals', Wallets'
    PROVE  IInv'
  <1>1. task' \in [Tasks -> AccountTask]
    BY DEF IInv, Goto
  <1>2. ASSUME NEW u \in Tasks
        PROVE  Sound(task[u])'
    <2>1. CASE u = t
      <3>1. task'[u] = new
        BY <2>1 DEF Goto, IInv
      <3> QED BY <3>1
    <2>2. CASE u # t
      <3>1. task'[u] = task[u] /\ task[u] \in AccountTask /\ Sound(task[u])
        BY <2>2 DEF Goto, IInv
      <3>2. \A x \in AccountTask : Sound(x) => Sound(x)'
        BY SoundStays
      <3> QED BY <3>1, <3>2
    <2> QED BY <2>1, <2>2
  <1> QED BY <1>1, <1>2 DEF IInv

\* Wallets, when no account is created and no wallet was about to be.
LEMMA WalletsKept ==
    ASSUME IInv, NEW t \in Tasks, NEW new, Goto(t, new), task[t].at # "createWallet",
           wallet \subseteq wallet', crashes' = crashes,
           \A u \in Accounts : status'[u] # "none"
               => status[u] # "none" \/ (new.at = "createWallet" /\ new.of = u)
    PROVE  Wallets'
  <1> SUFFICES ASSUME NEW u \in Accounts, status'[u] # "none", u \notin wallet',
                      ~ crashes > 0
               PROVE  \E v \in Tasks : task'[v].at = "createWallet" /\ task'[v].of = u
    BY DEF Wallets, Busy
  <1>1. CASE new.at = "createWallet" /\ new.of = u
    BY <1>1 DEF Goto, IInv
  <1>2. CASE status[u] # "none"
    <2>1. PICK v \in Tasks : task[v].at = "createWallet" /\ task[v].of = u
      BY <1>2 DEF IInv, Wallets, Busy
    <2>2. task'[v] = task[v]
      BY <2>1 DEF Goto, IInv
    <2> QED BY <2>1, <2>2
  <1> QED BY <1>1, <1>2

\* A step that reads, or changes whose tokens are valid.
LEMMA TokenStep ==
    ASSUME IInv, NEW t \in Tasks, NEW new \in AccountTask, Goto(t, new),
           UNCHANGED <<status, wallet, review, signal, crashes>>,
           token' \in [Keys -> Accounts \cup {"none"}],
           task[t].at # "createWallet", Sound(new)
    PROVE  IInv'
  <1> USE DEF review, signal
  <1>1. Grew
    BY DEF Grew, Decided, distinctAccounts, totalCaptureEvents
  <1>2. RowTypes'
    BY DEF IInv, RowTypes
  <1>3. IsFiniteSet(Sharing)'
    BY DEF IInv, Sharing
  <1>4. Sound(new)'
    BY <1>1, SoundStays
  <1>5. Reports'
    BY DEF IInv, Reports, Evident, distinctAccounts, totalCaptureEvents
  <1>6. Approvals'
    BY DEF IInv, Approvals, Decided
  <1>7. Wallets'
    BY WalletsKept
  <1> QED BY <1>1, <1>2, <1>3, <1>4, <1>5, <1>6, <1>7, StepKeeps

\* A step that changes an account's status.
LEMMA StatusStep ==
    ASSUME IInv, NEW t \in Tasks, NEW new \in AccountTask, Goto(t, new),
           UNCHANGED <<token, review, signal, crashes>>,
           status' \in [Accounts -> Statuses], wallet' \subseteq Accounts,
           \A u \in Accounts : status[u] # "none" => status'[u] # "none",
           Sound(new)', Wallets'
    PROVE  IInv'
  <1> USE DEF review, signal
  <1>1. Grew
    BY DEF Grew, Decided, distinctAccounts, totalCaptureEvents
  <1>2. RowTypes'
    BY DEF IInv, RowTypes
  <1>3. IsFiniteSet(Sharing)'
    BY DEF IInv, Sharing
  <1>4. Reports'
    <2> SUFFICES ASSUME NEW r \in DOMAIN report PROVE Evident(report[r])'
      BY DEF Reports
    <2>1. Evident(report[r]) /\ report[r].about \in Accounts
      <3>1. report[r] \in ReportRow
        BY DEF IInv, RowTypes
      <3> QED BY <3>1 DEF IInv, Reports, ReportRow
    <2> QED BY <2>1 DEF Evident, distinctAccounts, totalCaptureEvents
  <1>5. Approvals'
    BY DEF IInv, Approvals, Decided
  <1> QED BY <1>1, <1>2, <1>3, <1>4, <1>5, StepKeeps

\* A step that changes what the review of an account rests on.
LEMMA ReviewStep ==
    ASSUME IInv, NEW t \in Tasks, NEW new \in AccountTask, Goto(t, new),
           UNCHANGED <<session, signal, crashes>>, task[t].at # "createWallet",
           kyc' \in [Accounts -> {"none", "pending", "approved", "rejected"}],
           submission' \in [Accounts -> Seq(SubmissionRow)],
           \A u \in Accounts : DOMAIN submission[u] \subseteq DOMAIN submission'[u],
           \A u \in Accounts : \A i, to : Decided(u, i, to) => Decided(u, i, to)',
           new.at # "createWallet", Sound(new)', Approvals'
    PROVE  IInv'
  <1> USE DEF session, signal
  <1>1. Grew
    BY DEF Grew, distinctAccounts, totalCaptureEvents
  <1>2. RowTypes'
    BY DEF IInv, RowTypes
  <1>3. IsFiniteSet(Sharing)'
    BY DEF IInv, Sharing
  <1>4. Reports'
    BY DEF IInv, Reports, Evident, distinctAccounts, totalCaptureEvents
  <1>5. Wallets'
    BY WalletsKept
  <1> QED BY <1>1, <1>2, <1>3, <1>4, <1>5, StepKeeps

\* A step that changes the signals: more accounts share the device, more attempts
\* are seen, reports are added or resolved.
LEMMA SignalStep ==
    ASSUME IInv, NEW t \in Tasks, NEW new \in AccountTask, Goto(t, new),
           UNCHANGED <<session, review, crashes>>, task[t].at # "createWallet",
           login' \in [Accounts -> 0..1], Sharing \subseteq Sharing', IsFiniteSet(Sharing)',
           capture' \in [Accounts -> [EventTypes -> 0..MaxCaptures]],
           \A u \in Accounts : totalCaptureEvents(u)' >= totalCaptureEvents(u),
           report' \in Seq(ReportRow), DOMAIN report \subseteq DOMAIN report',
           \A r \in DOMAIN report' :
               \/ /\ r \in DOMAIN report /\ report'[r].about = report[r].about
                  /\ report'[r].why = report[r].why
               \/ Evident(report'[r]),
           Sound(new)
    PROVE  IInv'
  <1> USE DEF session, review
  <1>1. distinctAccounts >= DeviceThreshold => distinctAccounts' >= DeviceThreshold
    <2>1. /\ Cardinality(Sharing) <= Cardinality(Sharing')
          /\ Cardinality(Sharing) \in Nat /\ Cardinality(Sharing') \in Nat
      BY FS_Subset, FS_CardinalityType DEF IInv
    <2>2. distinctAccounts = Cardinality(Sharing)
      BY DEF distinctAccounts, Sharing
    <2>3. distinctAccounts' = Cardinality(Sharing')
      BY DEF distinctAccounts, Sharing
    <2>4. DeviceThreshold \in Nat
      BY AccountConstants DEF AccountConstants
    <2> QED BY <2>1, <2>2, <2>3, <2>4
  <1>2. ASSUME NEW u \in Accounts, totalCaptureEvents(u) >= CaptureThreshold
        PROVE  totalCaptureEvents(u)' >= CaptureThreshold
    <2>1. capture[u] \in [EventTypes -> 0..MaxCaptures] /\ MaxCaptures \in Nat
          /\ capture'[u] \in [EventTypes -> 0..MaxCaptures] /\ CaptureThreshold \in Nat
      BY AccountConstants DEF AccountConstants, IInv, RowTypes
    <2>2. totalCaptureEvents(u) \in Nat /\ totalCaptureEvents(u)' \in Nat
      BY <2>1 DEF totalCaptureEvents, EventTypes
    <2>3. totalCaptureEvents(u)' >= totalCaptureEvents(u)
      OBVIOUS
    <2> QED BY <1>2, <2>1, <2>2, <2>3
  <1>3. Grew
    BY <1>1, <1>2 DEF Grew, Decided
  <1>4. RowTypes'
    BY DEF IInv, RowTypes
  <1>5. Sound(new)'
    BY <1>3, SoundStays
  <1>6. Reports'
    <2> SUFFICES ASSUME NEW r \in DOMAIN report' PROVE Evident(report[r])'
      BY DEF Reports
    <2>1. \A row \in ReportRow : Evident(row) => Evident(row)'
      BY <1>1, <1>2 DEF Evident, ReportRow
    <2>2. \A s \in DOMAIN report : report[s] \in ReportRow
      BY DEF IInv, RowTypes
    <2>3. \A s \in DOMAIN report' : report'[s] \in ReportRow
      OBVIOUS
    <2>4. CASE /\ r \in DOMAIN report /\ report'[r].about = report[r].about
               /\ report'[r].why = report[r].why
      <3>1. Evident(report[r])
        BY <2>4 DEF IInv, Reports
      <3>2. Evident(report'[r])
        BY <2>4, <3>1 DEF Evident
      <3> QED BY <2>1, <2>3, <3>2
    <2>5. CASE Evident(report'[r])
      BY <2>1, <2>3, <2>5
    <2> QED BY <2>4, <2>5
  <1>7. Approvals'
    BY DEF IInv, Approvals, Decided
  <1>8. Wallets'
    BY WalletsKept
  <1> QED BY <1>3, <1>4, <1>5, <1>6, <1>7, <1>8, StepKeeps

-----------------------------------------------------------------------------
(* Logging in *)

LEMMA InFlight ==
    ASSUME IInv, NEW t \in Tasks
    PROVE  task[t] \in AccountTask /\ Sound(task[t])
  BY DEF IInv

\* A step from one of these to another keeps the account it is about.
PlainSteps == {"createUser", "createWallet", "previousLogin", "countAccounts",
               "reportDevice", "issue", "readStatus", "revokeAll", "reportCapture"}
LEMMA PlainStep ==
    ASSUME NEW x \in AccountTask, x.at \in PlainSteps, NEW step \in PlainSteps,
           NEW new, new = [x EXCEPT !.at = step]
    PROVE  /\ new \in AccountTask /\ new.at = step /\ new.of = x.of
           /\ x.of \in Accounts
  <1>1. x \in [at : PlainSteps, of : Accounts]
    BY TaskKinds DEF PlainSteps
  <1> QED BY <1>1 DEF AccountTask, PlainSteps

LEMMA LogInKeeps ==
    ASSUME AccountConstants, IInv, NEW t \in Tasks, NEW u \in Accounts,
           logInVerifiedPhone(t, u)
    PROVE  IInv'
  <1>1. /\ task[t] = Idle /\ UNCHANGED accountVars
        /\ \E step \in {"createUser", "previousLogin"} :
               /\ Goto(t, For(step, u))
               /\ step = "previousLogin" => status[u] # "none"
    BY DEF logInVerifiedPhone, Start, Goto
  <1>2. PICK new \in AccountTask : Goto(t, new) /\ Sound(new)
    BY <1>1, ForTask DEF Sound, ExistingSteps
  <1>3. token' \in [Keys -> Accounts \cup {"none"}]
    BY <1>1 DEF IInv, RowTypes, accountVars, session
  <1> QED BY <1>1, <1>2, <1>3, IdleTask, TokenStep DEF accountVars, session

LEMMA CreateUserKeeps ==
    ASSUME AccountConstants, IInv, NEW t \in Tasks, CreateUser(t)
    PROVE  IInv'
  <1>1. /\ task[t].at = "createUser"
        /\ UNCHANGED <<wallet, token, review, signal, crashes>>
    BY DEF CreateUser, At
  <1>2. task[t] \in AccountTask
    BY InFlight
  <1>3. PICK u \in Accounts : u = task[t].of
    BY <1>1, <1>2, TaskKinds
  <1>4. CASE status[u] = "none"
    <2>1. /\ status' = [status EXCEPT ![u] = "active"]
          /\ Goto(t, [task[t] EXCEPT !.at = "createWallet"])
      BY <1>3, <1>4 DEF CreateUser, Step, Goto, IInv
    <2>2. PICK new \in AccountTask : Goto(t, new) /\ new.at = "createWallet" /\ new.of = u
      BY <1>1, <1>2, <1>3, <2>1, PlainStep DEF PlainSteps
    <2>3. /\ status' \in [Accounts -> Statuses]
          /\ \A v \in Accounts : status'[v] = IF v = u THEN "active" ELSE status[v]
      BY <2>1 DEF IInv, RowTypes, Statuses
    <2>4. Sound(new)'
      BY <2>2, <2>3 DEF Sound, ExistingSteps
    <2>5. Wallets'
      BY <1>1, <2>2, <2>3, WalletsKept
    <2>6. wallet' \subseteq Accounts
      BY <1>1 DEF IInv, RowTypes
    <2> QED BY <1>1, <2>2, <2>3, <2>4, <2>5, <2>6, StatusStep
  <1>5. CASE status[u] # "none"
    <2>1. Goto(t, Idle) /\ UNCHANGED status
      BY <1>3, <1>5 DEF CreateUser, Done
    <2>2. token' \in [Keys -> Accounts \cup {"none"}]
      BY <1>1 DEF IInv, RowTypes
    <2> QED BY <1>1, <2>1, <2>2, IdleTask, TokenStep
  <1> QED BY <1>4, <1>5

LEMMA CreateWalletKeeps ==
    ASSUME AccountConstants, IInv, NEW t \in Tasks, CreateWallet(t)
    PROVE  IInv'
  <1>1. /\ task[t].at = "createWallet"
        /\ wallet' = wallet \cup {task[t].of}
        /\ Goto(t, [task[t] EXCEPT !.at = "previousLogin"])
        /\ UNCHANGED <<status, token, review, signal, crashes>>
    BY DEF CreateWallet, At, Step, Goto, IInv
  <1>2. task[t] \in AccountTask /\ task[t].of \in Accounts /\ status[task[t].of] # "none"
    BY <1>1, InFlight, TaskKinds DEF Sound, ExistingSteps
  <1>3. PICK new \in AccountTask : /\ Goto(t, new) /\ new.at = "previousLogin"
                                   /\ new.of = task[t].of
    BY <1>1, <1>2, PlainStep DEF PlainSteps
  <1>4. Sound(new)'
    BY <1>1, <1>2, <1>3 DEF Sound, ExistingSteps
  <1>5. Wallets'
    <2> SUFFICES ASSUME NEW u \in Accounts, status'[u] # "none", u \notin wallet',
                        ~ crashes' > 0
                 PROVE  \E v \in Tasks : task'[v].at = "createWallet" /\ task'[v].of = u
      BY DEF Wallets, Busy
    <2>1. u # task[t].of /\ u \notin wallet /\ status[u] # "none" /\ ~ crashes > 0
      BY <1>1
    <2>2. PICK v \in Tasks : task[v].at = "createWallet" /\ task[v].of = u
      BY <2>1 DEF IInv, Wallets, Busy
    <2>3. task'[v] = task[v]
      BY <1>3, <2>1, <2>2 DEF Goto, IInv
    <2> QED BY <2>2, <2>3
  <1>6. status' \in [Accounts -> Statuses] /\ wallet' \subseteq Accounts
    BY <1>1, <1>2 DEF IInv, RowTypes
  <1> QED BY <1>1, <1>3, <1>4, <1>5, <1>6, StatusStep

LEMMA PreviousLoginKeeps ==
    ASSUME AccountConstants, IInv, NEW t \in Tasks, PreviousLogin(t)
    PROVE  IInv'
  <1>1. /\ task[t].at = "previousLogin" /\ UNCHANGED accountVars
    BY DEF PreviousLogin, At
  <1>2. PICK u \in Accounts : u = task[t].of /\ status[u] # "none"
    BY <1>1, InFlight, TaskKinds DEF Sound, ExistingSteps
  <1>3. PICK new \in AccountTask : Goto(t, new) /\ Sound(new)
    <2>1. CASE Goto(t, [at |-> "recordLogin", of |-> u, known |-> login[u] > 0])
      <3> DEFINE x == [at |-> "recordLogin", of |-> u, known |-> login[u] > 0]
      <3>1. (login[u] > 0) \in BOOLEAN
        BY DEF IInv, RowTypes
      <3>2. x \in AccountTask /\ x.at = "recordLogin" /\ x.of = u
        BY <3>1 DEF AccountTask
      <3>3. Sound(x)
        BY <1>2, <3>2 DEF Sound
      <3> QED BY <2>1, <3>2, <3>3
    <2>2. CASE Goto(t, For("issue", u))
      <3>1. Sound(For("issue", u))
        BY ForTask DEF Sound, ExistingSteps
      <3> QED BY <2>2, <3>1, ForTask
    <2> QED BY <1>2, <2>1, <2>2 DEF PreviousLogin
  <1>4. token' \in [Keys -> Accounts \cup {"none"}]
    BY <1>1 DEF IInv, RowTypes, accountVars, session
  <1> QED BY <1>1, <1>3, <1>4, TokenStep DEF accountVars, session

LEMMA RecordLoginKeeps ==
    ASSUME AccountConstants, IInv, NEW t \in Tasks, RecordLogin(t)
    PROVE  IInv'
  <1>1. /\ task[t].at = "recordLogin"
        /\ UNCHANGED <<session, review, capture, report, crashes>>
    BY DEF RecordLogin, At
  <1>2. PICK u \in Accounts : u = task[t].of /\ status[u] # "none"
    BY <1>1, InFlight, TaskKinds DEF Sound, ExistingSteps
  <1>3. login' = [login EXCEPT ![u] = 1]
    BY <1>2 DEF RecordLogin
  <1>4. PICK step \in {"issue", "countAccounts"} : Goto(t, For(step, u))
    BY <1>2 DEF RecordLogin
  <1>5. Sound(For(step, u))
    BY <1>2, ForTask DEF Sound, ExistingSteps
  <1>6. PICK new \in AccountTask : Goto(t, new) /\ Sound(new)
    BY <1>4, <1>5, ForTask
  <1>7. login' \in [Accounts -> 0..1] /\ Sharing' = Sharing \cup {u}
    BY <1>3 DEF IInv, RowTypes, Sharing
  <1>8. IsFiniteSet(Sharing')
    BY <1>7, FS_AddElement DEF IInv
  <1>9. /\ \A v \in Accounts : totalCaptureEvents(v)' >= totalCaptureEvents(v)
        /\ capture' \in [Accounts -> [EventTypes -> 0..MaxCaptures]]
        /\ report' \in Seq(ReportRow)
    BY <1>1, AccountConstants
    DEF totalCaptureEvents, EventTypes, IInv, RowTypes, AccountConstants
  <1> QED BY <1>1, <1>6, <1>7, <1>8, <1>9, SignalStep

LEMMA CountAccountsKeeps ==
    ASSUME AccountConstants, IInv, NEW t \in Tasks, CountAccounts(t)
    PROVE  IInv'
  <1>1. /\ task[t].at = "countAccounts" /\ UNCHANGED accountVars
    BY DEF CountAccounts, At
  <1>2. task[t] \in AccountTask /\ status[task[t].of] # "none"
    BY <1>1, InFlight DEF Sound, ExistingSteps
  <1>3. PICK step \in {"reportDevice", "issue"} :
            /\ Goto(t, [task[t] EXCEPT !.at = step])
            /\ step = "reportDevice" => distinctAccounts = DeviceThreshold
    BY DEF CountAccounts, Step, Goto, IInv
  <1>4. PICK new \in AccountTask : Goto(t, new) /\ new.at = step /\ new.of = task[t].of
    BY <1>1, <1>2, <1>3, PlainStep DEF PlainSteps
  <1>5. Sound(new)
    BY <1>2, <1>3, <1>4, AccountConstants DEF Sound, ExistingSteps, AccountConstants
  <1>6. token' \in [Keys -> Accounts \cup {"none"}]
    BY <1>1 DEF IInv, RowTypes, accountVars, session
  <1> QED BY <1>1, <1>4, <1>5, <1>6, TokenStep DEF accountVars, session

\* A report added with its evidence.
LEMMA ReportAdded ==
    ASSUME AccountConstants, IInv, NEW t \in Tasks, task[t].at # "createWallet",
           NEW new \in AccountTask, Goto(t, new), Sound(new),
           UNCHANGED <<session, review, login, capture, crashes>>,
           NEW u \in Accounts, NEW why \in {"device", "capture", "report"},
           createReport(u, why),
           Evident([about |-> u, why |-> why, status |-> "pending"])
    PROVE  IInv'
  <1> DEFINE row == [about |-> u, why |-> why, status |-> "pending"]
  <1>1. row \in ReportRow /\ report \in Seq(ReportRow) /\ report' = Append(report, row)
    BY DEF ReportRow, IInv, RowTypes, createReport
  <1> HIDE DEF row
  <1>2. /\ report' \in Seq(ReportRow) /\ DOMAIN report \subseteq DOMAIN report'
        /\ \A r \in DOMAIN report' : \/ r \in DOMAIN report /\ report'[r] = report[r]
                                     \/ report'[r] = row
    BY <1>1
  <1>3. Evident(row)
    BY DEF row
  <1>4. /\ login' \in [Accounts -> 0..1] /\ Sharing' = Sharing /\ IsFiniteSet(Sharing')
        /\ capture' \in [Accounts -> [EventTypes -> 0..MaxCaptures]]
    BY DEF IInv, RowTypes, Sharing
  <1>5. \A v \in Accounts : totalCaptureEvents(v)' >= totalCaptureEvents(v)
    BY AccountConstants DEF totalCaptureEvents, EventTypes, IInv, RowTypes, AccountConstants
  <1>6. \A r \in DOMAIN report' :
            \/ /\ r \in DOMAIN report /\ report'[r].about = report[r].about
               /\ report'[r].why = report[r].why
            \/ Evident(report'[r])
    BY <1>2, <1>3
  <1> QED BY <1>2, <1>4, <1>5, <1>6, SignalStep

LEMMA ReportDeviceKeeps ==
    ASSUME AccountConstants, IInv, NEW t \in Tasks, ReportDevice(t)
    PROVE  IInv'
  <1>1. /\ task[t].at = "reportDevice"
        /\ Goto(t, [task[t] EXCEPT !.at = "issue"])
        /\ UNCHANGED <<session, review, login, capture, crashes>>
    BY DEF ReportDevice, At, Step, Goto, IInv
  <1>2. task[t] \in AccountTask /\ Sound(task[t])
    BY InFlight
  <1>3. PICK u \in Accounts : u = task[t].of /\ createReport(u, "device")
    BY <1>1, <1>2, TaskKinds DEF ReportDevice
  <1>4. PICK new \in AccountTask : Goto(t, new) /\ new.at = "issue"
    BY <1>1, <1>2, PlainStep DEF PlainSteps
  <1>5. Sound(new)
    BY <1>4 DEF Sound, ExistingSteps
  <1>6. Evident([about |-> u, why |-> "device", status |-> "pending"])
    BY <1>1, <1>2, <1>3 DEF Sound, ExistingSteps, Evident
  <1> QED BY <1>1, <1>3, <1>4, <1>5, <1>6, ReportAdded

LEMMA IssueKeeps ==
    ASSUME AccountConstants, IInv, NEW t \in Tasks, issueTokenPair(t)
    PROVE  IInv'
  <1>1. /\ task[t].at = "issue" /\ Goto(t, Idle)
        /\ token' = [token EXCEPT ![NewKey] = task[t].of]
        /\ UNCHANGED <<status, wallet, review, signal, crashes>>
    BY DEF issueTokenPair, At, Done
  <1>2. task[t].of \in Accounts
    BY <1>1, InFlight, TaskKinds
  <1>3. token' \in [Keys -> Accounts \cup {"none"}]
    BY <1>1, <1>2 DEF IInv, RowTypes
  <1> QED BY <1>1, <1>3, IdleTask, TokenStep

-----------------------------------------------------------------------------
(* Refresh tokens and account status *)

LEMMA RotateKeeps ==
    ASSUME AccountConstants, IInv, NEW t \in Tasks, NEW k \in Keys,
           rotateRefreshToken(t, k)
    PROVE  IInv'
  <1> DEFINE x == [at |-> "revokeOld", of |-> token[k], key |-> k]
  <1>1. /\ task[t] = Idle /\ Goto(t, x) /\ token[k] # "none" /\ UNCHANGED accountVars
    BY DEF rotateRefreshToken, Start, Goto, Valid
  <1>2. token[k] \in Accounts
    BY <1>1 DEF IInv, RowTypes
  <1>3. x \in AccountTask /\ Sound(x)
    BY <1>2 DEF AccountTask, Sound, ExistingSteps
  <1>4. token' \in [Keys -> Accounts \cup {"none"}]
    BY <1>1 DEF IInv, RowTypes, accountVars, session
  <1> HIDE DEF x
  <1> QED BY <1>1, <1>3, <1>4, IdleTask, TokenStep DEF accountVars, session

LEMMA RevokeOldKeeps ==
    ASSUME AccountConstants, IInv, NEW t \in Tasks, RevokeOld(t)
    PROVE  IInv'
  <1>1. /\ task[t].at = "revokeOld" /\ Goto(t, For("readStatus", task[t].of))
        /\ token' = [token EXCEPT ![task[t].key] = "none"]
        /\ UNCHANGED <<status, wallet, review, signal, crashes>>
    BY DEF RevokeOld, At
  <1>2. task[t].of \in Accounts
    BY <1>1, InFlight, TaskKinds
  <1>3. PICK new \in AccountTask : Goto(t, new) /\ new.at = "readStatus"
    BY <1>1, <1>2, ForTask
  <1>4. Sound(new)
    BY <1>3 DEF Sound, ExistingSteps
  <1>5. token' \in [Keys -> Accounts \cup {"none"}]
    BY <1>1 DEF IInv, RowTypes
  <1> QED BY <1>1, <1>3, <1>4, <1>5, TokenStep

LEMMA ReadStatusKeeps ==
    ASSUME AccountConstants, IInv, NEW t \in Tasks, ReadStatus(t)
    PROVE  IInv'
  <1>1. /\ task[t].at = "readStatus" /\ UNCHANGED accountVars /\ task[t] \in AccountTask
    BY InFlight DEF ReadStatus, At
  <1>2. PICK new \in AccountTask : Goto(t, new) /\ Sound(new)
    <2>1. CASE Goto(t, [task[t] EXCEPT !.at = "issue"])
      <3>1. PICK new \in AccountTask : Goto(t, new) /\ new.at = "issue"
        BY <1>1, <2>1, PlainStep DEF PlainSteps
      <3>2. Sound(new)
        BY <3>1 DEF Sound, ExistingSteps
      <3> QED BY <3>1, <3>2
    <2>2. CASE Goto(t, Idle)
      BY <2>2, IdleTask
    <2> QED BY <2>1, <2>2 DEF ReadStatus, Step, Goto, Done, IInv
  <1>3. token' \in [Keys -> Accounts \cup {"none"}]
    BY <1>1 DEF IInv, RowTypes, accountVars, session
  <1> QED BY <1>1, <1>2, <1>3, TokenStep DEF accountVars, session

LEMMA SetAccountStatusKeeps ==
    ASSUME AccountConstants, IInv, NEW t \in Tasks, NEW u \in Accounts,
           NEW to \in Statuses \ {"none"}, setAccountStatus(t, u, to)
    PROVE  IInv'
  <1> DEFINE x == [at |-> "setStatus", of |-> u, to |-> to]
  <1>1. /\ task[t] = Idle /\ Goto(t, x) /\ status[u] # "none" /\ UNCHANGED accountVars
    BY DEF setAccountStatus, Start, Goto
  <1>2. x \in AccountTask /\ Sound(x)
    BY <1>1 DEF AccountTask, Sound, ExistingSteps
  <1>3. token' \in [Keys -> Accounts \cup {"none"}]
    BY <1>1 DEF IInv, RowTypes, accountVars, session
  <1> HIDE DEF x
  <1> QED BY <1>1, <1>2, <1>3, IdleTask, TokenStep DEF accountVars, session

LEMMA SetStatusKeeps ==
    ASSUME AccountConstants, IInv, NEW t \in Tasks, SetStatus(t)
    PROVE  IInv'
  <1>1. /\ task[t].at = "setStatus"
        /\ status' = [status EXCEPT ![task[t].of] = task[t].to]
        /\ UNCHANGED <<wallet, token, review, signal, crashes>>
    BY DEF SetStatus, At
  <1>2. PICK u \in Accounts : /\ u = task[t].of /\ status[u] # "none"
                              /\ task[t].to \in Statuses \ {"none"}
    BY <1>1, InFlight, TaskKinds DEF Sound, ExistingSteps
  <1>3. PICK step \in {"idle", "revokeAll"} :
            Goto(t, IF step = "idle" THEN Idle ELSE For("revokeAll", u))
    BY <1>2 DEF SetStatus, Done
  <1>4. PICK new \in AccountTask : Goto(t, new) /\ new.at \in {"idle", "revokeAll"}
    BY <1>3, IdleTask, ForTask
  <1>5. /\ status' \in [Accounts -> Statuses]
        /\ \A v \in Accounts : status'[v] = IF v = u THEN task[t].to ELSE status[v]
    BY <1>1, <1>2 DEF IInv, RowTypes
  <1>6. \A v \in Accounts : status'[v] # "none" <=> status[v] # "none"
    BY <1>2, <1>5
  <1>7. Sound(new)'
    BY <1>4 DEF Sound, ExistingSteps
  <1>8. Wallets'
    BY <1>1, <1>4, <1>6, WalletsKept
  <1>9. wallet' \subseteq Accounts
    BY <1>1 DEF IInv, RowTypes
  <1> QED BY <1>1, <1>4, <1>5, <1>6, <1>7, <1>8, <1>9, StatusStep

LEMMA RevokeAllKeeps ==
    ASSUME AccountConstants, IInv, NEW t \in Tasks, revokeAllRefreshTokensForUser(t)
    PROVE  IInv'
  <1>1. /\ task[t].at = "revokeAll" /\ Goto(t, Idle)
        /\ UNCHANGED <<status, wallet, review, signal, crashes>>
    BY DEF revokeAllRefreshTokensForUser, At, Done
  <1>2. token' \in [Keys -> Accounts \cup {"none"}]
    BY DEF revokeAllRefreshTokensForUser, IInv, RowTypes
  <1> QED BY <1>1, <1>2, IdleTask, TokenStep

-----------------------------------------------------------------------------
(* KYC *)

\* What a submission's rows are.
LEMMA Submissions ==
    ASSUME IInv, NEW u \in Accounts
    PROVE  /\ submission[u] \in Seq(SubmissionRow)
           /\ \A i \in DOMAIN submission[u] :
                  i \in Nat /\ submission[u][i] \in SubmissionRow
  BY DEF IInv, RowTypes

LEMMA CreateSubmissionKeeps ==
    ASSUME AccountConstants, IInv, NEW t \in Tasks, NEW u \in Accounts,
           createSubmission(t, u)
    PROVE  IInv'
  <1> DEFINE x == [at |-> "insertSubmission", of |-> u, n |-> Len(submission[u])]
  <1>1. task[t] = Idle /\ Goto(t, x) /\ UNCHANGED accountVars
    BY DEF createSubmission, Start, Goto
  <1>2. x \in AccountTask /\ Sound(x)
    BY Submissions DEF AccountTask, Sound, ExistingSteps
  <1>3. token' \in [Keys -> Accounts \cup {"none"}]
    BY <1>1 DEF IInv, RowTypes, accountVars, session
  <1> HIDE DEF x
  <1> QED BY <1>1, <1>2, <1>3, IdleTask, TokenStep DEF accountVars, session

LEMMA InsertSubmissionKeeps ==
    ASSUME AccountConstants, IInv, NEW t \in Tasks, InsertSubmission(t)
    PROVE  IInv'
  <1>1. /\ task[t].at = "insertSubmission" /\ Goto(t, Idle)
        /\ UNCHANGED <<session, signal, crashes>>
    BY DEF InsertSubmission, At, Done
  <1>2. PICK u \in Accounts : u = task[t].of /\ task[t].n \in Nat
    BY <1>1, InFlight, TaskKinds
  <1> DEFINE row == [attempt |-> task[t].n + 1, status |-> "pending", decisions |-> 0]
  <1>3. /\ submission' = [submission EXCEPT ![u] = Append(@, row)]
        /\ kyc' = [kyc EXCEPT ![u] = "pending"] /\ row \in SubmissionRow
    BY <1>2 DEF InsertSubmission, SubmissionRow
  <1> HIDE DEF row
  <1>4. /\ submission' \in [Accounts -> Seq(SubmissionRow)]
        /\ \A v \in Accounts : /\ DOMAIN submission[v] \subseteq DOMAIN submission'[v]
                               /\ \A i \in DOMAIN submission[v] :
                                      submission'[v][i] = submission[v][i]
    <2>1. /\ Append(submission[u], row) \in Seq(SubmissionRow)
          /\ DOMAIN submission[u] \subseteq DOMAIN Append(submission[u], row)
          /\ \A i \in DOMAIN submission[u] :
                 Append(submission[u], row)[i] = submission[u][i]
      BY <1>3, Submissions
    <2> QED BY <1>3, <2>1 DEF IInv, RowTypes
  <1>5. /\ kyc' \in [Accounts -> {"none", "pending", "approved", "rejected"}]
        /\ \A v \in Accounts : kyc'[v] = "approved" => kyc[v] = "approved"
    BY <1>3 DEF IInv, RowTypes
  <1>6. \A v \in Accounts : \A i, to : Decided(v, i, to) => Decided(v, i, to)'
    BY <1>4 DEF Decided
  <1>7. Approvals'
    BY <1>4, <1>5, <1>6 DEF IInv, Approvals
  <1>8. Sound(Idle)'
    BY IdleTask DEF Sound, ExistingSteps
  <1> QED BY <1>1, <1>4, <1>5, <1>6, <1>7, <1>8, IdleTask, ReviewStep

\* A decision that goes on with the row it has.
DecisionSteps == {"readSubmission", "decideRow", "decideUser"}
LEMMA DecisionStep ==
    ASSUME NEW x \in AccountTask, x.at \in DecisionSteps, NEW step \in DecisionSteps,
           NEW new, new = [x EXCEPT !.at = step]
    PROVE  /\ new \in AccountTask /\ new.at = step
           /\ new.of = x.of /\ new.row = x.row /\ new.to = x.to
           /\ x.of \in Accounts /\ x.to \in {"approved", "rejected"}
  <1>1. x \in [at : DecisionSteps, of : Accounts, row : Nat, to : {"approved", "rejected"}]
    BY TaskKinds DEF DecisionSteps
  <1> QED BY <1>1 DEF AccountTask, DecisionSteps

LEMMA DecideKycKeeps ==
    ASSUME AccountConstants, IInv, NEW t \in Tasks, NEW u \in Accounts,
           NEW to \in {"approved", "rejected"}, decideKyc(t, u, to)
    PROVE  IInv'
  <1>1. PICK i \in DOMAIN submission[u] :
            Start(t, [at |-> "readSubmission", of |-> u, row |-> i, to |-> to])
    BY DEF decideKyc, LatestPending, Pending
  <1> DEFINE x == [at |-> "readSubmission", of |-> u, row |-> i, to |-> to]
  <1>2. task[t] = Idle /\ Goto(t, x) /\ UNCHANGED accountVars
    BY <1>1 DEF decideKyc, Start, Goto
  <1>3. x \in AccountTask /\ Sound(x)
    BY Submissions DEF AccountTask, Sound, ExistingSteps
  <1>4. token' \in [Keys -> Accounts \cup {"none"}]
    BY <1>2 DEF IInv, RowTypes, accountVars, session
  <1> HIDE DEF x
  <1> QED BY <1>2, <1>3, <1>4, IdleTask, TokenStep DEF accountVars, session

LEMMA DecideSubmissionKeeps ==
    ASSUME AccountConstants, IInv, NEW t \in Tasks, decideSubmission(t)
    PROVE  IInv'
  <1>1. /\ task[t].at = "readSubmission" /\ UNCHANGED accountVars
        /\ task[t] \in AccountTask /\ Sound(task[t])
    BY InFlight DEF decideSubmission, At
  <1>2. PICK new \in AccountTask : Goto(t, new) /\ Sound(new)
    <2>1. CASE Goto(t, [task[t] EXCEPT !.at = "decideRow"])
      <3>1. PICK new \in AccountTask : /\ Goto(t, new) /\ new.at = "decideRow"
                                       /\ new.of = task[t].of /\ new.row = task[t].row
        BY <1>1, <2>1, DecisionStep DEF DecisionSteps
      <3>2. Sound(new)
        BY <1>1, <3>1 DEF Sound, ExistingSteps
      <3> QED BY <3>1, <3>2
    <2>2. CASE Goto(t, Idle)
      BY <2>2, IdleTask
    <2> QED BY <2>1, <2>2 DEF decideSubmission, Step, Goto, Done, IInv
  <1>3. token' \in [Keys -> Accounts \cup {"none"}]
    BY <1>1 DEF IInv, RowTypes, accountVars, session
  <1> QED BY <1>1, <1>2, <1>3, TokenStep DEF accountVars, session

LEMMA DecideRowKeeps ==
    ASSUME AccountConstants, IInv, NEW t \in Tasks, DecideRow(t)
    PROVE  IInv'
  <1>1. /\ task[t].at = "decideRow" /\ Goto(t, [task[t] EXCEPT !.at = "decideUser"])
        /\ UNCHANGED <<session, kyc, signal, crashes>>
    BY DEF DecideRow, At, Step, Goto, IInv
  <1>2. task[t] \in AccountTask /\ Sound(task[t])
    BY InFlight
  <1>3. PICK new \in AccountTask : /\ Goto(t, new) /\ new.at = "decideUser"
                                   /\ new.of = task[t].of /\ new.row = task[t].row
                                   /\ new.to = task[t].to
    BY <1>1, <1>2, DecisionStep DEF DecisionSteps
  <1>4. /\ task[t].of \in Accounts /\ task[t].row \in Nat
        /\ task[t].to \in {"approved", "rejected"}
    BY <1>1, <1>2, TaskKinds
  <1>5. PICK u \in Accounts, i \in Nat, to \in {"approved", "rejected"} :
            u = task[t].of /\ i = task[t].row /\ to = task[t].to
    BY <1>4
  <1>0. i \in DOMAIN submission[u]
    BY <1>1, <1>2, <1>5 DEF Sound
  <1>6. PICK old \in SubmissionRow : old = submission[u][i]
    BY <1>0, Submissions
  <1>7. submission' = [submission EXCEPT ![u][i].status = to, ![u][i].decisions = @ + 1]
    BY <1>5 DEF DecideRow
  <1>8. submission \in [Accounts -> Seq(SubmissionRow)]
    BY DEF IInv, RowTypes
  <1>9. PICK row : row = submission'[u][i]
    OBVIOUS
  <1>10. /\ row \in SubmissionRow /\ row.status = to
         /\ row.decisions = old.decisions + 1 /\ old.decisions \in Nat
    <2>1. row.status = to /\ row.decisions = old.decisions + 1 /\ old.decisions \in Nat
      BY <1>0, <1>6, <1>7, <1>8, <1>9 DEF SubmissionRow
    <2>2. row = [old EXCEPT !.status = to, !.decisions = old.decisions + 1]
      BY <1>0, <1>6, <1>7, <1>8, <1>9 DEF SubmissionRow
    <2>3. PICK half : half = [old EXCEPT !.status = to]
      OBVIOUS
    <2>4. half \in SubmissionRow /\ row = [half EXCEPT !.decisions = @ + 1]
      BY <2>2, <2>3 DEF SubmissionRow
    <2> QED BY <2>1, <2>4 DEF SubmissionRow
  <1>11. /\ submission' \in [Accounts -> Seq(SubmissionRow)]
         /\ \A v \in Accounts : v # u => submission'[v] = submission[v]
         /\ DOMAIN submission'[u] = DOMAIN submission[u]
         /\ \A j \in DOMAIN submission[u] : j # i => submission'[u][j] = submission[u][j]
    <2>1. /\ \A v \in Accounts : v # u => submission'[v] = submission[v]
          /\ submission' = [v \in Accounts |-> submission'[v]]
      BY <1>7, <1>8
    <2>2. /\ DOMAIN submission'[u] = DOMAIN submission[u]
          /\ \A j \in DOMAIN submission[u] : j # i => submission'[u][j] = submission[u][j]
      BY <1>0, <1>7, <1>8
    <2>3. submission'[u] \in [DOMAIN submission[u] -> SubmissionRow]
      <3>1. submission'[u] = [j \in DOMAIN submission[u] |-> submission'[u][j]]
        BY <1>0, <1>7, <1>8
      <3>2. \A j \in DOMAIN submission[u] : submission[u][j] \in SubmissionRow
        BY Submissions
      <3> QED BY <1>9, <1>10, <2>2, <3>1, <3>2
    <2>4. Len(submission[u]) \in Nat /\ DOMAIN submission[u] = 1..Len(submission[u])
      BY Submissions
    <2>5. submission'[u] \in Seq(SubmissionRow)
      BY <2>3, <2>4
    <2> QED BY <1>8, <2>1, <2>2, <2>5
  <1>12. \A v \in Accounts : DOMAIN submission[v] \subseteq DOMAIN submission'[v]
    BY <1>11
  <1>13. ASSUME NEW v \in Accounts, NEW j, NEW d, Decided(v, j, d)
         PROVE  Decided(v, j, d)'
    <2>1. CASE v = u /\ j = i
      <3>1. submission'[v][j] = row /\ j \in DOMAIN submission'[v]
        BY <1>0, <1>9, <1>11, <2>1
      <3>2. old.decisions >= 1
        BY <1>6, <1>10, <1>13, <2>1 DEF Decided
      <3>3. row.decisions > 1
        BY <1>10, <3>2
      <3> QED BY <3>1, <3>3 DEF Decided
    <2>2. CASE ~(v = u /\ j = i)
      <3>1. j \in DOMAIN submission[v]
        BY <1>13 DEF Decided
      <3>2. submission'[v][j] = submission[v][j] /\ j \in DOMAIN submission'[v]
        BY <1>11, <2>2, <3>1
      <3> QED BY <1>13, <3>2 DEF Decided
    <2> QED BY <2>1, <2>2
  <1>14. Decided(u, i, to)'
    <2>1. submission'[u][i] = row /\ i \in DOMAIN submission'[u]
      BY <1>0, <1>9, <1>11
    <2>2. row.decisions >= 1
      BY <1>10
    <2> QED BY <1>10, <2>1, <2>2 DEF Decided
  <1>15. Approvals'
    BY <1>1, <1>12, <1>13 DEF IInv, Approvals
  <1>16. Sound(new)'
    BY <1>3, <1>5, <1>14 DEF Sound, ExistingSteps
  <1>17. kyc' \in [Accounts -> {"none", "pending", "approved", "rejected"}]
    BY <1>1 DEF IInv, RowTypes
  <1>18. \A v \in Accounts : \A j, d : Decided(v, j, d) => Decided(v, j, d)'
    BY <1>13
  <1> QED BY <1>1, <1>3, <1>11, <1>12, <1>15, <1>16, <1>17, <1>18, ReviewStep

LEMMA DecideUserKeeps ==
    ASSUME AccountConstants, IInv, NEW t \in Tasks, DecideUser(t)
    PROVE  IInv'
  <1>1. /\ task[t].at = "decideUser" /\ Goto(t, Idle)
        /\ kyc' = [kyc EXCEPT ![task[t].of] = task[t].to]
        /\ UNCHANGED <<session, submission, signal, crashes>>
    BY DEF DecideUser, At, Done
  <1>2. task[t] \in AccountTask /\ Decided(task[t].of, task[t].row, task[t].to)
    BY <1>1, InFlight DEF Sound
  <1>3. task[t].of \in Accounts /\ task[t].to \in {"approved", "rejected"}
    BY <1>1, <1>2, TaskKinds
  <1>0. PICK u, i, to : u = task[t].of /\ i = task[t].row /\ to = task[t].to
    OBVIOUS
  <1>4. /\ u \in Accounts /\ i \in DOMAIN submission[u] /\ to \in {"approved", "rejected"}
        /\ u = task[t].of /\ to = task[t].to /\ Decided(u, i, to)
    BY <1>0, <1>2, <1>3 DEF Decided
  <1>5. /\ kyc' \in [Accounts -> {"none", "pending", "approved", "rejected"}]
        /\ \A v \in Accounts : kyc'[v] = IF v = u THEN to ELSE kyc[v]
    BY <1>1, <1>4 DEF IInv, RowTypes
  <1>6. \A v \in Accounts : \A j, d : Decided(v, j, d) => Decided(v, j, d)'
    BY <1>1 DEF Decided
  <1>7. Approvals'
    BY <1>1, <1>4, <1>5, <1>6 DEF IInv, Approvals
  <1>8. Sound(Idle)'
    BY IdleTask DEF Sound, ExistingSteps
  <1>9. submission' \in [Accounts -> Seq(SubmissionRow)]
        /\ \A v \in Accounts : DOMAIN submission[v] \subseteq DOMAIN submission'[v]
    BY <1>1 DEF IInv, RowTypes
  <1> QED BY <1>1, <1>5, <1>6, <1>7, <1>8, <1>9, IdleTask, ReviewStep

-----------------------------------------------------------------------------
(* Captures and reports *)

LEMMA LogCaptureKeeps ==
    ASSUME AccountConstants, IInv, NEW t \in Tasks, NEW u \in Accounts,
           NEW e \in EventTypes, logCaptureEvent(t, u, e)
    PROVE  IInv'
  <1> DEFINE x == [at |-> "countCaptures", of |-> u, type |-> e]
  <1>1. /\ task[t] = Idle /\ Goto(t, x) /\ status[u] # "none"
        /\ capture[u]["evidence"] + capture[u]["other"] < MaxCaptures
        /\ capture' = [capture EXCEPT ![u][e] = @ + 1]
        /\ UNCHANGED <<session, review, login, report, crashes>>
    BY DEF logCaptureEvent, Start, Goto
  <1>2. x \in AccountTask /\ Sound(x)
    BY <1>1 DEF AccountTask, Sound, ExistingSteps
  <1> HIDE DEF x
  <1>3. /\ capture \in [Accounts -> [EventTypes -> 0..MaxCaptures]] /\ MaxCaptures \in Nat
    BY AccountConstants DEF AccountConstants, IInv, RowTypes
  <1>4. PICK f : f = [capture[u] EXCEPT ![e] = @ + 1]
    OBVIOUS
  <1>5. capture' = [capture EXCEPT ![u] = f]
    BY <1>1, <1>4
  <1>6. /\ capture[u] \in [EventTypes -> 0..MaxCaptures]
        /\ capture[u]["evidence"] \in Nat /\ capture[u]["other"] \in Nat
    BY <1>3 DEF EventTypes
  <1>7. /\ f \in [EventTypes -> 0..MaxCaptures]
        /\ f["evidence"] >= capture[u]["evidence"]
    BY <1>1, <1>3, <1>4, <1>6 DEF EventTypes
  <1>8. /\ capture' \in [Accounts -> [EventTypes -> 0..MaxCaptures]]
        /\ \A v \in Accounts : capture'[v] = IF v = u THEN f ELSE capture[v]
    BY <1>3, <1>5, <1>7
  <1>9. ASSUME NEW v \in Accounts
        PROVE  totalCaptureEvents(v)' >= totalCaptureEvents(v)
    <2>1. capture[v]["evidence"] \in Nat
      BY <1>3 DEF EventTypes
    <2> QED BY <1>7, <1>8, <2>1 DEF totalCaptureEvents
  <1>10. /\ login' \in [Accounts -> 0..1] /\ Sharing' = Sharing /\ IsFiniteSet(Sharing')
         /\ report' \in Seq(ReportRow)
    BY <1>1 DEF IInv, RowTypes, Sharing
  <1> QED BY <1>1, <1>2, <1>8, <1>9, <1>10, IdleTask, SignalStep

LEMMA CountCapturesKeeps ==
    ASSUME AccountConstants, IInv, NEW t \in Tasks, CountCaptures(t)
    PROVE  IInv'
  <1>1. /\ task[t].at = "countCaptures" /\ UNCHANGED accountVars
    BY DEF CountCaptures, At
  <1>2. PICK u \in Accounts : u = task[t].of /\ status[u] # "none"
    BY <1>1, InFlight, TaskKinds DEF Sound, ExistingSteps
  <1>3. PICK new \in AccountTask : Goto(t, new) /\ Sound(new)
    <2>1. CASE /\ totalCaptureEvents(u) = CaptureThreshold
               /\ Goto(t, For("reportCapture", u))
      <3>1. Sound(For("reportCapture", u))
        BY <1>2, <2>1, ForTask, AccountConstants
        DEF Sound, ExistingSteps, AccountConstants
      <3> QED BY <2>1, <3>1, ForTask
    <2>2. CASE Goto(t, Idle)
      BY <2>2, IdleTask
    <2> QED BY <1>2, <2>1, <2>2 DEF CountCaptures, Done
  <1>4. token' \in [Keys -> Accounts \cup {"none"}]
    BY <1>1 DEF IInv, RowTypes, accountVars, session
  <1> QED BY <1>1, <1>3, <1>4, TokenStep DEF accountVars, session

LEMMA ReportCaptureKeeps ==
    ASSUME AccountConstants, IInv, NEW t \in Tasks, ReportCapture(t)
    PROVE  IInv'
  <1>1. /\ task[t].at = "reportCapture" /\ Goto(t, Idle)
        /\ UNCHANGED <<session, review, login, capture, crashes>>
    BY DEF ReportCapture, At, Done
  <1>2. task[t] \in AccountTask /\ Sound(task[t])
    BY InFlight
  <1>3. PICK u \in Accounts : u = task[t].of /\ createReport(u, "capture")
    BY <1>1, <1>2, TaskKinds DEF ReportCapture
  <1>4. Evident([about |-> u, why |-> "capture", status |-> "pending"])
    BY <1>1, <1>2, <1>3 DEF Sound, ExistingSteps, Evident
  <1> QED BY <1>1, <1>3, <1>4, IdleTask, ReportAdded

LEMMA ResolveKeeps ==
    ASSUME AccountConstants, IInv, NEW t \in Tasks, NEW r \in DOMAIN report,
           NEW action \in {"resolved", "dismissed"}, NEW account \in AccountActions,
           resolveReport(t, r, action, account)
    PROVE  IInv'
  <1> DEFINE x == [at |-> "resolve", row |-> r, action |-> action, to |-> account]
  <1>1. task[t] = Idle /\ Goto(t, x) /\ UNCHANGED accountVars
    BY DEF resolveReport, Start, Goto
  <1>2. r \in Nat
    BY DEF IInv, RowTypes
  <1>3. x \in AccountTask /\ Sound(x)
    BY <1>2 DEF AccountTask, Sound, ExistingSteps
  <1>4. token' \in [Keys -> Accounts \cup {"none"}]
    BY <1>1 DEF IInv, RowTypes, accountVars, session
  <1> HIDE DEF x
  <1> QED BY <1>1, <1>3, <1>4, IdleTask, TokenStep DEF accountVars, session

LEMMA WriteResolutionKeeps ==
    ASSUME AccountConstants, IInv, NEW t \in Tasks, WriteResolution(t)
    PROVE  IInv'
  <1>1. /\ task[t].at = "resolve"
        /\ UNCHANGED <<session, review, login, capture, crashes>>
    BY DEF WriteResolution, At
  <1>2. /\ task[t] \in [at : {"resolve"}, row : Nat, action : {"resolved", "dismissed"},
                        to : AccountActions]
        /\ task[t].row \in DOMAIN report
    BY <1>1, InFlight, TaskKinds DEF Sound
  <1>3. PICK r \in DOMAIN report : r = task[t].row
    BY <1>2
  <1>4. PICK row : row = [report[r] EXCEPT !.status = task[t].action]
    OBVIOUS
  <1>5. report' = [report EXCEPT ![r] = row]
    BY <1>3, <1>4 DEF WriteResolution
  <1>6. report[r] \in ReportRow /\ report[r].about \in Accounts
    <2>1. report[r] \in ReportRow
      BY DEF IInv, RowTypes
    <2> QED BY <2>1 DEF ReportRow
  <1>7. /\ row \in ReportRow /\ row.about = report[r].about /\ row.why = report[r].why
    BY <1>2, <1>3, <1>4, <1>6 DEF ReportRow
  <1>8. /\ DOMAIN report' = DOMAIN report
        /\ \A s \in DOMAIN report : report'[s] = IF s = r THEN row ELSE report[s]
    BY <1>5 DEF IInv, RowTypes
  <1>9. report' \in Seq(ReportRow)
    <2>1. /\ Len(report) \in Nat /\ DOMAIN report = 1..Len(report)
          /\ \A s \in 1..Len(report) : report[s] \in ReportRow
      BY DEF IInv, RowTypes
    <2>2. report' \in [1..Len(report) -> ReportRow]
      BY <1>5, <1>7, <2>1
    <2> QED BY <2>1, <2>2
  <1>10. PICK new \in AccountTask : Goto(t, new) /\ Sound(new)
    <2>1. CASE Goto(t, Idle)
      BY <2>1, IdleTask
    <2>2. CASE /\ task[t].to # "none"
               /\ Goto(t, [at |-> "setStatus", of |-> report[r].about, to |-> task[t].to])
      <3> DEFINE x == [at |-> "setStatus", of |-> report[r].about, to |-> task[t].to]
      <3>1. status[report[r].about] # "none"
        BY DEF IInv, Reports, Evident
      <3>2. x \in AccountTask /\ Sound(x)
        BY <1>2, <1>6, <2>2, <3>1
        DEF AccountTask, Sound, ExistingSteps, AccountActions, Statuses
      <3> QED BY <2>2, <3>2
    <2> QED BY <1>3, <1>4, <2>1, <2>2 DEF WriteResolution, Done
  <1>11. /\ login' \in [Accounts -> 0..1] /\ Sharing' = Sharing /\ IsFiniteSet(Sharing')
         /\ capture' \in [Accounts -> [EventTypes -> 0..MaxCaptures]]
    BY <1>1 DEF IInv, RowTypes, Sharing
  <1>12. \A v \in Accounts : totalCaptureEvents(v)' >= totalCaptureEvents(v)
    BY <1>1, AccountConstants
    DEF totalCaptureEvents, EventTypes, IInv, RowTypes, AccountConstants
  <1>13. \A s \in DOMAIN report' : /\ s \in DOMAIN report
                                   /\ report'[s].about = report[s].about
                                   /\ report'[s].why = report[s].why
    BY <1>7, <1>8
  <1>14. DOMAIN report \subseteq DOMAIN report'
    BY <1>8
  <1> QED BY <1>1, <1>9, <1>10, <1>11, <1>12, <1>13, <1>14, SignalStep

-----------------------------------------------------------------------------
(* The steps of no handler *)

\* Reports by hand need no handler: one that is already idle stays so.
LEMMA FileReportKeeps ==
    ASSUME AccountConstants, IInv, NEW u \in Accounts, fileReport(u)
    PROVE  IInv'
  <1> DEFINE row == [about |-> u, why |-> "report", status |-> "pending"]
  <1>1. /\ status[u] # "none" /\ report' = Append(report, row)
        /\ UNCHANGED <<session, review, login, capture, crashes, task>>
    BY DEF fileReport, createReport
  <1>2. row \in ReportRow /\ Evident(row) /\ report \in Seq(ReportRow)
    BY <1>1 DEF ReportRow, Evident, IInv, RowTypes
  <1> HIDE DEF row
  <1>3. /\ report' \in Seq(ReportRow) /\ DOMAIN report \subseteq DOMAIN report'
        /\ \A r \in DOMAIN report' : \/ r \in DOMAIN report /\ report'[r] = report[r]
                                     \/ report'[r] = row
    BY <1>1, <1>2
  <1>4. Grew
    BY <1>1, <1>3
    DEF Grew, Decided, distinctAccounts, totalCaptureEvents, session, review
  <1>5. RowTypes'
    BY <1>1, <1>3 DEF IInv, RowTypes, session, review
  <1>6. IsFiniteSet(Sharing)' /\ Wallets' /\ Approvals'
    BY <1>1 DEF IInv, Sharing, Wallets, Busy, Approvals, Decided, session, review
  <1>7. Reports'
    <2>1. \A x : Evident(x) => Evident(x)'
      BY <1>1 DEF Evident, distinctAccounts, totalCaptureEvents, session
    <2>2. \A r \in DOMAIN report' : Evident(report'[r])
      BY <1>2, <1>3 DEF IInv, Reports
    <2> QED BY <2>1, <2>2 DEF Reports
  <1>8. \A t \in Tasks : Sound(task[t])'
    <2>1. \A x \in AccountTask : Sound(x) => Sound(x)'
      BY <1>4, SoundStays
    <2> QED BY <1>1, <2>1 DEF IInv
  <1> QED BY <1>1, <1>5, <1>6, <1>7, <1>8 DEF IInv

\* Logging out revokes a token, which nothing here rests on.
LEMMA TokensAlone ==
    ASSUME IInv, UNCHANGED <<status, wallet, review, signal, task>>,
           crashes' = crashes, token' \in [Keys -> Accounts \cup {"none"}]
    PROVE  IInv'
  <1> USE DEF review, signal
  <1>1. RowTypes'
    BY DEF IInv, RowTypes
  <1>2. IsFiniteSet(Sharing)' /\ Approvals' /\ Reports' /\ Wallets'
    BY DEF IInv, Sharing, Approvals, Decided, Reports, Evident, distinctAccounts,
           totalCaptureEvents, Wallets, Busy
  <1>3. \A t \in Tasks : Sound(task[t])'
    BY DEF IInv, Sound, Decided, distinctAccounts, totalCaptureEvents
  <1> QED BY <1>1, <1>2, <1>3 DEF IInv

LEMMA RevokeTokenKeeps ==
    ASSUME IInv, NEW k \in Keys, revokeRefreshToken(k)
    PROVE  IInv'
  <1>1. token' \in [Keys -> Accounts \cup {"none"}]
    BY DEF revokeRefreshToken, IInv, RowTypes
  <1> QED BY <1>1, TokensAlone DEF revokeRefreshToken

LEMMA StutterKeeps ==
    ASSUME IInv, UNCHANGED <<accountVars, task>>
    PROVE  IInv'
  <1>1. token' \in [Keys -> Accounts \cup {"none"}]
    BY DEF accountVars, session, IInv, RowTypes
  <1> QED BY <1>1, TokensAlone DEF accountVars, session

LEMMA CrashKeeps ==
    ASSUME AccountConstants, IInv, Crash
    PROVE  IInv'
  <1>1. /\ task' = [t \in Tasks |-> Idle] /\ crashes' = crashes + 1
        /\ UNCHANGED <<session, review, signal>>
    BY DEF Crash, TasksLost
  <1> USE DEF session, review, signal
  <1>2. crashes \in Nat
    BY DEF IInv, RowTypes
  <1>3. RowTypes'
    BY <1>1, <1>2 DEF IInv, RowTypes
  <1>4. IsFiniteSet(Sharing)' /\ Approvals' /\ Reports'
    BY <1>1 DEF IInv, Sharing, Approvals, Decided, Reports, Evident, distinctAccounts,
                totalCaptureEvents
  <1>5. Wallets'
    BY <1>1, <1>2 DEF Wallets
  <1>6. \A t \in Tasks : Sound(task[t])'
    BY <1>1, IdleTask DEF Sound, ExistingSteps
  <1>7. task' \in [Tasks -> AccountTask]
    BY <1>1, IdleTask
  <1> QED BY <1>3, <1>4, <1>5, <1>6, <1>7 DEF IInv

-----------------------------------------------------------------------------
(* The invariant *)

LEMMA InitHolds ==
    ASSUME AccountConstants, NEW existing \in SUBSET Accounts, AccountInit(existing),
           NoTasks
    PROVE  IInv
  <1> USE DEF AccountInit, NoTasks
  <1>1. task \in [Tasks -> AccountTask] /\ \A t \in Tasks : Sound(task[t])
    BY IdleTask
  <1>2. RowTypes
    <2>1. MaxCaptures \in Nat
      BY DEF AccountConstants
    <2>2. capture \in [Accounts -> [EventTypes -> 0..MaxCaptures]]
      BY <2>1
    <2>3. report \in Seq(ReportRow) /\ submission \in [Accounts -> Seq(SubmissionRow)]
      OBVIOUS
    <2>4. status \in [Accounts -> Statuses]
      BY DEF Statuses
    <2>5. login \in [Accounts -> 0..1]
      OBVIOUS
    <2> QED BY <2>2, <2>3, <2>4, <2>5 DEF RowTypes
  <1>3. IsFiniteSet(Sharing)
    <2>1. Sharing = {}
      BY DEF Sharing
    <2> QED BY <2>1, FS_EmptySet
  <1>4. Reports /\ Approvals /\ Wallets
    BY DEF Reports, Approvals, Wallets
  <1> QED BY <1>1, <1>2, <1>3, <1>4 DEF IInv

LEMMA StepsKeep ==
    ASSUME AccountConstants, IInv, NEW t \in Tasks, AccountStep(t)
    PROVE  IInv'
  BY CreateUserKeeps, CreateWalletKeeps, PreviousLoginKeeps, RecordLoginKeeps,
     CountAccountsKeeps, ReportDeviceKeeps, IssueKeeps, RevokeOldKeeps, ReadStatusKeeps,
     SetStatusKeeps, RevokeAllKeeps, InsertSubmissionKeeps, DecideSubmissionKeeps,
     DecideRowKeeps, DecideUserKeeps, CountCapturesKeeps, ReportCaptureKeeps,
     WriteResolutionKeeps
  DEF AccountStep

LEMMA RequestsKeep ==
    ASSUME AccountConstants, IInv, NEW u \in Accounts,
           LogIn(u) \/ StatusRequest(u) \/ KycRequest(u) \/ ModerationRequest(u)
    PROVE  IInv'
  <1>1. CASE LogIn(u)
    BY <1>1, LogInKeeps DEF LogIn
  <1>2. CASE StatusRequest(u)
    BY <1>2, SetAccountStatusKeeps DEF StatusRequest, deleteOwnAccount, Statuses
  <1>3. CASE KycRequest(u)
    BY <1>3, CreateSubmissionKeeps, DecideKycKeeps DEF KycRequest
  <1>4. CASE ModerationRequest(u)
    BY <1>4, FileReportKeeps, LogCaptureKeeps, ResolveKeeps DEF ModerationRequest
  <1> QED BY <1>1, <1>2, <1>3, <1>4

\* The invariant the theorems below rest on holds in every state.
THEOREM Invariance == AccountSpec => []IInv
  <1>1. (\E existing \in SUBSET Accounts : AccountInit(existing)) /\ NoTasks => IInv
    BY AccountConstants, InitHolds
  <1>2. IInv /\ [AccountNext]_<<accountVars, task>> => IInv'
    BY AccountConstants, RequestsKeep, RotateKeeps, RevokeTokenKeeps, StepsKeep,
       CrashKeeps, StutterKeeps DEF AccountNext, Refresh
  <1> QED BY <1>1, <1>2, PTL DEF AccountSpec

-----------------------------------------------------------------------------
(* What follows from it *)

\* Rows keep their types; without a restart, only an account still being created
\* is without its wallet, whatever else happens to accounts meanwhile.
THEOREM WalletsFollow == AccountSpec => []EveryAccountHasItsWallet
  <1>1. IInv => EveryAccountHasItsWallet
    <2> SUFFICES ASSUME IInv PROVE EveryAccountHasItsWallet
      OBVIOUS
    <2>1. /\ \A u \in Accounts : \A i \in DOMAIN submission[u] :
                 submission[u][i] \in SubmissionRow
          /\ \A r \in DOMAIN report : report[r] \in ReportRow
      BY DEF IInv, RowTypes
    <2>2. AccountTypeOK
      BY <2>1 DEF IInv, RowTypes, AccountTypeOK
    <2> QED BY <2>2 DEF IInv, Wallets, EveryAccountHasItsWallet
  <1> QED BY <1>1, Invariance, PTL

\* An approved account has a submission an admin approved, or one that two admins
\* decided on at once.
THEOREM ApprovalsRest == AccountSpec => []ApprovedWasApproved
  <1>1. IInv => ApprovedWasApproved
    BY DEF IInv, Approvals, Decided, ApprovedWasApproved
  <1> QED BY <1>1, Invariance, PTL

\* Automated reports have their evidence, for any thresholds.
THEOREM ReportsRest == AccountSpec => []SignalsHaveEvidence
  <1>1. IInv => SignalsHaveEvidence
    BY DEF IInv, Reports, Evident, SignalsHaveEvidence
  <1> QED BY <1>1, Invariance, PTL

-----------------------------------------------------------------------------
(* Payout methods: what holds while requests come one by one, and what holds   *)
(* of a host who deletes none                                                  *)

PayoutTask ==
    {Idle}
    \cup [at : {"addMethod"}, id : Methods, first : BOOLEAN]
    \cup [at : {"deleteMethod"}, id : Methods, primary : BOOLEAN]
    \cup [at : {"promote", "setPrimary"}, id : Methods]
    \cup [at : {"listLeft"}]

PayoutTypes ==
    /\ task \in [Tasks -> PayoutTask]
    /\ method \in Seq(MethodRow) /\ restarts \in 0..MaxRestarts
    /\ disturbed \in BOOLEAN /\ deleted \in BOOLEAN

\* No two rows have an id, and none has that of a row to come.
Distinct == \A i, j \in DOMAIN method : method[i].id = method[j].id => i = j
IsAdding(x) == x.at = "addMethod"
Fresh == \A t \in Tasks : IsAdding(task[t]) =>
    /\ task[t].id \notin Ids
    /\ \A u \in Tasks : IsAdding(task[u]) /\ task[u].id = task[t].id => u = t

\* As long as no requests cross, there is one handler, and what it has read of
\* the rows is still true.
StillTrue(x) ==
    /\ x.at = "addMethod" => (x.first <=> method = <<>>)
    /\ x.at = "deleteMethod" =>
           \E i \in DOMAIN method : method[i].id = x.id /\ method[i].primary = x.primary
    /\ x.at \in {"listLeft", "promote"} => Primaries = {}
    /\ x.at \in {"promote", "setPrimary"} => x.id \in Ids
Alone == \A s, t \in Tasks : task[s] # Idle /\ task[t] # Idle => s = t
OnlyOne == \A i, j \in Primaries : i = j
\* A host with methods and no primary is being given one.
Promoting == Primaries = {} /\ method # <<>> => Busy({"listLeft", "promote"}) # {}
Calm == Alone /\ (\A t \in Tasks : StillTrue(task[t])) /\ OnlyOne /\ Promoting

\* As long as the host deletes nothing, rows stay, so that a handler that saw
\* some is right about that.
Deleting(x) == x.at \in {"deleteMethod", "listLeft", "promote"}
StillThere(x) ==
    /\ x.at = "addMethod" => x.first \/ method # <<>>
    /\ x.at = "setPrimary" => x.id \in Ids
Kept ==
    /\ \A t \in Tasks : ~Deleting(task[t]) /\ StillThere(task[t])
    /\ method # <<>> => Primaries # {}

PayoutInv ==
    /\ PayoutTypes /\ Distinct /\ Fresh
    /\ disturbed \/ Calm
    /\ deleted \/ Kept

LEMMA Joined ==
    ASSUME NEW S, NEW a \in Seq(S), NEW b \in Seq(S)
    PROVE  /\ a \o b \in Seq(S) /\ Len(a \o b) = Len(a) + Len(b)
           /\ \A j \in 1..Len(a) + Len(b) :
                  (a \o b)[j] = IF j <= Len(a) THEN a[j] ELSE b[j - Len(a)]
  OBVIOUS

\* A sequence without its i-th element.
LEMMA Removed ==
    ASSUME NEW S, NEW s \in Seq(S), NEW i \in DOMAIN s
    PROVE  /\ RemoveAt(s, i) \in Seq(S)
           /\ Len(RemoveAt(s, i)) = Len(s) - 1
           /\ \A j \in 1..Len(s)-1 : RemoveAt(s, i)[j] = IF j < i THEN s[j] ELSE s[j + 1]
  <1>0. PICK a, b : a = SubSeq(s, 1, i - 1) /\ b = SubSeq(s, i + 1, Len(s))
    OBVIOUS
  <1>1. a \in Seq(S) /\ Len(a) = i - 1 /\ \A j \in 1..i-1 : a[j] = s[j]
    BY <1>0
  <1>2. /\ b \in Seq(S) /\ Len(b) = Len(s) - i
        /\ \A j \in 1..Len(s) - i : b[j] = s[i + j]
    BY <1>0
  <1>3. RemoveAt(s, i) = a \o b
    BY <1>0 DEF RemoveAt
  <1>4. i \in 1..Len(s) /\ Len(s) \in Nat
    OBVIOUS
  <1>5. Len(a) + Len(b) = Len(s) - 1
    BY <1>1, <1>2, <1>4
  <1>6. /\ a \o b \in Seq(S) /\ Len(a \o b) = Len(s) - 1
        /\ \A j \in 1..Len(s) - 1 :
               (a \o b)[j] = IF j <= Len(a) THEN a[j] ELSE b[j - Len(a)]
    <2>1. /\ a \o b \in Seq(S) /\ Len(a \o b) = Len(a) + Len(b)
          /\ \A j \in 1..Len(a) + Len(b) :
                 (a \o b)[j] = IF j <= Len(a) THEN a[j] ELSE b[j - Len(a)]
      BY <1>1, <1>2, Joined
    <2> QED BY <1>5, <2>1
  <1>7. ASSUME NEW j \in 1..Len(s) - 1
        PROVE  (a \o b)[j] = IF j < i THEN s[j] ELSE s[j + 1]
    <2>1. CASE j < i
      BY <1>1, <1>4, <1>6, <2>1
    <2>2. CASE j >= i
      <3>1. (a \o b)[j] = b[j - (i - 1)] /\ j - (i - 1) \in 1..Len(s) - i
        BY <1>1, <1>4, <1>6, <2>2
      <3>2. b[j - (i - 1)] = s[i + (j - (i - 1))]
        BY <1>2, <3>1
      <3>3. i + (j - (i - 1)) = j + 1
        BY <1>4
      <3> QED BY <1>4, <2>2, <3>1, <3>2, <3>3
    <2>3. j < i \/ j >= i
      BY <1>4
    <2> QED BY <2>1, <2>2, <2>3
  <1> QED BY <1>3, <1>6, <1>7

LEMMA PayoutTaskKinds ==
    ASSUME NEW x \in PayoutTask
    PROVE  /\ x.at \in {"idle", "addMethod", "deleteMethod", "promote", "setPrimary",
                        "listLeft"}
           /\ x.at = "idle" => x = Idle
           /\ x.at = "addMethod"
                  => x \in [at : {"addMethod"}, id : Methods, first : BOOLEAN]
           /\ x.at = "deleteMethod"
                  => x \in [at : {"deleteMethod"}, id : Methods, primary : BOOLEAN]
           /\ x.at \in {"promote", "setPrimary"}
                  => x \in [at : {"promote", "setPrimary"}, id : Methods]
           /\ x.at = "listLeft" => x \in [at : {"listLeft"}]
  BY DEF PayoutTask, Idle

LEMMA PayoutIdle ==
    /\ Idle \in PayoutTask /\ Idle.at = "idle" /\ StillTrue(Idle)
    /\ ~Deleting(Idle) /\ StillThere(Idle) /\ ~IsAdding(Idle)
  BY DEF PayoutTask, Idle, StillTrue, Deleting, StillThere, IsAdding

\* With no request in flight, every slot is free.
LEMMA FreeToStart ==
    ASSUME PayoutTypes, Underway = {}, NEW s \in Tasks
    PROVE  task[s] = Idle
  <1>1. task[s] \in PayoutTask
    BY DEF PayoutTypes
  <1>2. task[s].at \notin {"addMethod", "deleteMethod", "listLeft", "promote", "setPrimary"}
    BY DEF Underway, NamesMethod, Busy
  <1> QED BY <1>1, <1>2, PayoutTaskKinds

LEMMA MethodRows ==
    ASSUME PayoutTypes
    PROVE  /\ Len(method) \in Nat /\ DOMAIN method = 1..Len(method)
           /\ \A i \in DOMAIN method : method[i] \in MethodRow
           /\ method = <<>> <=> DOMAIN method = {}
  BY DEF PayoutTypes

\* A request that begins: with no other in flight it knows what it has read, and
\* so does one of a host who has deleted nothing.
LEMMA PayoutStarts ==
    ASSUME PayoutInv, NEW t \in Tasks, NEW x \in PayoutTask, Request(t, x),
           StillTrue(x),
           IsAdding(x) => /\ x.id \notin Ids
                          /\ \A u \in Tasks : IsAdding(task[u]) => task[u].id # x.id,
           deleted' \in BOOLEAN, ~deleted' => ~deleted /\ ~Deleting(x) /\ StillThere(x)
    PROVE  PayoutInv'
  <1>1. /\ task[t] = Idle /\ task' = [task EXCEPT ![t] = x]
        /\ UNCHANGED <<method, restarts>>
        /\ disturbed' = (Underway # {} \/ (disturbed /\ ~Right))
    BY DEF Request, Start
  <1>2. /\ \A s \in Tasks : task'[s] = IF s = t THEN x ELSE task[s]
        /\ UNCHANGED <<Ids, Primaries>>
    BY <1>1 DEF PayoutInv, PayoutTypes, Ids, Primaries
  <1>3. PayoutTypes'
    <2>1. task' \in [Tasks -> PayoutTask]
      BY <1>1 DEF PayoutInv, PayoutTypes
    <2>2. disturbed' \in BOOLEAN
      BY <1>1
    <2> QED BY <1>1, <2>1, <2>2 DEF PayoutInv, PayoutTypes
  <1>4. Distinct'
    BY <1>1 DEF PayoutInv, Distinct
  <1>5. Fresh'
    <2> SUFFICES ASSUME NEW s \in Tasks, IsAdding(task'[s])
                 PROVE  /\ task'[s].id \notin Ids
                        /\ \A u \in Tasks : IsAdding(task'[u]) /\ task'[u].id = task'[s].id
                               => u = s
      BY <1>2 DEF Fresh, IsAdding
    <2>1. \A u \in Tasks : IsAdding(task[u]) => /\ task[u].id \notin Ids
              /\ \A w \in Tasks : IsAdding(task[w]) /\ task[w].id = task[u].id => w = u
      BY DEF PayoutInv, Fresh
    <2> QED BY <1>2, <2>1
  <1>6. ASSUME ~disturbed'
        PROVE  Calm'
    <2>1. Underway = {} /\ (~disturbed \/ Right)
      BY <1>1, <1>6
    <2>2. \A s \in Tasks : task[s] = Idle
      BY <2>1, FreeToStart DEF PayoutInv
    <2>3. Busy({"listLeft", "promote"}) = {}
      BY <2>2, PayoutIdle DEF Busy
    <2>4. OnlyOne /\ (Primaries = {} => method = <<>>)
      <3>1. CASE ~disturbed
        BY <2>3, <3>1 DEF PayoutInv, Calm, Promoting
      <3>2. CASE Right
        BY <3>2 DEF Right, OnlyOne, Primaries
      <3> QED BY <2>1, <3>1, <3>2
    <2>5. \A s \in Tasks : task'[s] = IF s = t THEN x ELSE Idle
      BY <1>2, <2>2
    <2>6. \A y : StillTrue(y) => StillTrue(y)'
      BY <1>1, <1>2 DEF StillTrue
    <2>7. \A s \in Tasks : StillTrue(task[s])'
      BY <2>5, <2>6, PayoutIdle
    <2>8. Alone' /\ OnlyOne' /\ Promoting'
      BY <1>1, <1>2, <2>4, <2>5 DEF Alone, OnlyOne, Promoting
    <2> QED BY <2>7, <2>8 DEF Calm
  <1>7. ASSUME ~deleted'
        PROVE  Kept'
    <2>1. ~deleted /\ Kept
      BY <1>7 DEF PayoutInv
    <2>2. \A y : StillThere(y) => StillThere(y)'
      BY <1>1, <1>2 DEF StillThere
    <2>3. \A s \in Tasks : ~Deleting(task'[s]) /\ StillThere(task[s])'
      BY <1>2, <1>7, <2>1, <2>2 DEF Kept
    <2>4. method' # <<>> => Primaries' # {}
      BY <1>1, <1>2, <2>1 DEF Kept
    <2>5. \A s \in Tasks : ~Deleting(task[s])'
      BY <2>3 DEF Deleting
    <2> QED BY <2>3, <2>4, <2>5 DEF Kept
  <1> QED BY <1>3, <1>4, <1>5, <1>6, <1>7 DEF PayoutInv, PayoutTypes

\* A step of a handler, which changes the rows and goes on to x.
LEMMA PayoutSteps ==
    ASSUME PayoutInv, NEW t \in Tasks, task[t] # Idle, NEW x \in PayoutTask, Goto(t, x),
           x.at \in {"idle", "listLeft", "promote"},
           method' \in Seq(MethodRow), UNCHANGED <<restarts, told>>, Distinct',
           \A id \in Ids' : id \in Ids \/ (IsAdding(task[t]) /\ id = task[t].id),
           ~disturbed => /\ StillTrue(x)' /\ OnlyOne'
                         /\ Primaries' = {} /\ method' # <<>>
                                => x.at \in {"listLeft", "promote"},
           ~deleted => /\ ~Deleting(x) /\ Ids \subseteq Ids'
                       /\ method' # <<>> /\ Primaries' # {}
    PROVE  PayoutInv'
  <1>1. /\ task' \in [Tasks -> PayoutTask]
        /\ \A s \in Tasks : task'[s] = IF s = t THEN x ELSE task[s]
    BY DEF PayoutInv, PayoutTypes, Goto
  <1>2. disturbed' = disturbed /\ deleted' = deleted
    BY DEF told
  <1>3. PayoutTypes'
    BY <1>1, <1>2 DEF PayoutInv, PayoutTypes
  <1>4. ~IsAdding(x) /\ x.at # "setPrimary"
    BY DEF IsAdding
  <1>5. Fresh'
    <2> SUFFICES ASSUME NEW s \in Tasks, IsAdding(task'[s])
                 PROVE  /\ task'[s].id \notin Ids'
                        /\ \A u \in Tasks : IsAdding(task'[u]) /\ task'[u].id = task'[s].id
                               => u = s
      BY DEF Fresh, IsAdding
    <2>1. \A u \in Tasks : IsAdding(task[u]) => /\ task[u].id \notin Ids
              /\ \A w \in Tasks : IsAdding(task[w]) /\ task[w].id = task[u].id => w = u
      BY DEF PayoutInv, Fresh
    <2>2. s # t /\ task'[s] = task[s]
      BY <1>1, <1>4
    <2>3. task[s].id \notin Ids'
      BY <2>1, <2>2
    <2> QED BY <1>1, <1>4, <2>1, <2>2, <2>3
  <1>6. ASSUME ~disturbed
        PROVE  Calm'
    <2>1. \A s \in Tasks : s # t => task[s] = Idle /\ task'[s] = Idle
      BY <1>1, <1>6 DEF PayoutInv, Calm, Alone
    <2>2. StillTrue(Idle)'
      BY PayoutIdle DEF StillTrue
    <2>3. \A s \in Tasks : StillTrue(task[s])'
      BY <1>1, <1>6, <2>1, <2>2
    <2>4. Alone'
      BY <2>1 DEF Alone
    <2>5. Promoting'
      BY <1>1, <1>6 DEF Promoting, Busy
    <2> QED BY <1>6, <2>3, <2>4, <2>5 DEF Calm
  <1>7. ASSUME ~deleted
        PROVE  Kept'
    <2>1. \A s \in Tasks : ~Deleting(task[s]) /\ StillThere(task[s])
      BY <1>7 DEF PayoutInv, Kept
    <2>2. /\ ~Deleting(x) /\ Ids \subseteq Ids'
          /\ method' # <<>> /\ Primaries' # {}
      BY <1>7
    <2>3. \A s \in Tasks : ~Deleting(task[s])'
      BY <1>1, <2>1, <2>2 DEF Deleting
    <2>4. \A s \in Tasks : StillThere(task[s])'
      BY <1>1, <1>4, <2>1, <2>2 DEF StillThere, IsAdding
    <2> QED BY <2>2, <2>3, <2>4 DEF Kept
  <1> QED BY <1>2, <1>3, <1>5, <1>6, <1>7 DEF PayoutInv

LEMMA AddMethodKeeps ==
    ASSUME PayoutInv, NEW t \in Tasks, NEW id \in Methods, addPayoutMethod(t, id)
    PROVE  PayoutInv'
  <1>1. PICK x : x = [at |-> "addMethod", id |-> id, first |-> method = <<>>]
    OBVIOUS
  <1>2. x \in PayoutTask
    <2>1. (method = <<>>) \in BOOLEAN
      OBVIOUS
    <2> QED BY <1>1, <2>1, Zenon DEF PayoutTask
  <1>3. x.at = "addMethod" /\ x.id = id /\ (x.first <=> method = <<>>)
    BY <1>1, Zenon
  <1>4. StillTrue(x) /\ StillThere(x) /\ ~Deleting(x)
    BY <1>3 DEF StillTrue, StillThere, Deleting
  <1>5. /\ x.id \notin Ids
        /\ \A u \in Tasks : IsAdding(task[u]) => task[u].id # x.id
    BY <1>3 DEF addPayoutMethod, Busy, NamesMethod, IsAdding
  <1>6. Request(t, x) /\ deleted' = deleted
    BY <1>1 DEF addPayoutMethod
  <1>7. deleted' \in BOOLEAN
    BY <1>6 DEF PayoutInv, PayoutTypes
  <1> QED BY <1>2, <1>4, <1>5, <1>6, <1>7, PayoutStarts

LEMMA DeleteRequestKeeps ==
    ASSUME PayoutInv, NEW t \in Tasks, NEW id \in Methods, deletePayoutMethod(t, id)
    PROVE  PayoutInv'
  <1>1. PICK i \in DOMAIN method :
            /\ method[i].id = id
            /\ Request(t, [at |-> "deleteMethod", id |-> id, primary |-> method[i].primary])
    BY DEF deletePayoutMethod
  <1>2. method[i].primary \in BOOLEAN
    BY MethodRows DEF PayoutInv, MethodRow
  <1>3. PICK x : x = [at |-> "deleteMethod", id |-> id, primary |-> method[i].primary]
    OBVIOUS
  <1>4. x \in PayoutTask
    BY <1>2, <1>3 DEF PayoutTask
  <1>5. StillTrue(x) /\ ~IsAdding(x)
    BY <1>1, <1>3 DEF StillTrue, IsAdding
  <1>6. deleted' = TRUE
    BY DEF deletePayoutMethod
  <1> QED BY <1>1, <1>3, <1>4, <1>5, <1>6, PayoutStarts

LEMMA SetPrimaryRequestKeeps ==
    ASSUME PayoutInv, NEW t \in Tasks, NEW id \in Methods, setPrimaryPayoutMethod(t, id)
    PROVE  PayoutInv'
  <1>1. PICK x : x = [at |-> "setPrimary", id |-> id]
    OBVIOUS
  <1>2. x \in PayoutTask
    BY <1>1 DEF PayoutTask
  <1>3. StillTrue(x) /\ StillThere(x) /\ ~Deleting(x) /\ ~IsAdding(x)
    BY <1>1 DEF StillTrue, StillThere, Deleting, IsAdding, setPrimaryPayoutMethod
  <1>4. Request(t, x) /\ deleted' = deleted /\ deleted' \in BOOLEAN
    BY <1>1 DEF setPrimaryPayoutMethod, PayoutInv, PayoutTypes
  <1> QED BY <1>2, <1>3, <1>4, PayoutStarts

LEMMA InsertMethodKeeps ==
    ASSUME PayoutInv, NEW t \in Tasks, InsertMethod(t)
    PROVE  PayoutInv'
  <1>1. /\ task[t] \in [at : {"addMethod"}, id : Methods, first : BOOLEAN]
        /\ task[t] # Idle /\ task[t].at = "addMethod" /\ IsAdding(task[t])
    BY PayoutTaskKinds, PayoutIdle
    DEF PayoutInv, PayoutTypes, InsertMethod, At, IsAdding
  <1>2. PICK row : row = [id |-> task[t].id, primary |-> task[t].first]
    OBVIOUS
  <1>3. /\ row \in MethodRow /\ row.id = task[t].id /\ row.id \notin Ids
        /\ row.primary = task[t].first
    BY <1>1, <1>2 DEF MethodRow, PayoutInv, Fresh
  <1>4. method' = Append(method, row) /\ method \in Seq(MethodRow)
    BY <1>2 DEF InsertMethod, PayoutInv, PayoutTypes
  <1>5. /\ method' \in Seq(MethodRow) /\ DOMAIN method' = 1..Len(method) + 1
        /\ Len(method) \in Nat /\ DOMAIN method = 1..Len(method)
        /\ method'[Len(method) + 1] = row
        /\ \A i \in DOMAIN method : method'[i] = method[i]
        /\ method = <<>> <=> Len(method) = 0
    BY <1>3, <1>4
  <1>6. Distinct'
    <2>1. \A i \in DOMAIN method : method[i].id # row.id
      BY <1>3 DEF Ids
    <2>2. Distinct
      BY DEF PayoutInv
    <2> QED BY <1>5, <2>1, <2>2 DEF Distinct
  <1>7. \A i \in 1..Len(method) + 1 : method'[i].primary
            <=> IF i \in DOMAIN method THEN method[i].primary ELSE row.primary
    BY <1>5
  <1>8. Primaries' = Primaries \cup (IF row.primary THEN {Len(method) + 1} ELSE {})
    BY <1>5, <1>7 DEF Primaries
  <1>9. /\ \A id \in Ids' : id \in Ids \/ id = task[t].id
        /\ Ids \subseteq Ids'
    BY <1>3, <1>5 DEF Ids
  <1>10. ASSUME ~disturbed
         PROVE  OnlyOne' /\ Primaries' # {}
    <2>1. (row.primary <=> method = <<>>) /\ OnlyOne /\ Promoting
      BY <1>1, <1>3, <1>10 DEF PayoutInv, Calm, StillTrue
    <2>2. Busy({"listLeft", "promote"}) = {}
      BY <1>1, <1>10, PayoutIdle DEF PayoutInv, Calm, Alone, Busy
    <2>3. method = <<>> => Primaries = {}
      BY <1>5 DEF Primaries
    <2> QED BY <1>8, <2>1, <2>2, <2>3 DEF OnlyOne, Promoting
  <1>11. ASSUME ~deleted
         PROVE  Primaries' # {}
    <2>1. task[t].first \/ Primaries # {}
      BY <1>1, <1>11 DEF PayoutInv, Kept, StillThere
    <2> QED BY <1>3, <1>8, <2>1
  <1>12. StillTrue(Idle)'
    BY PayoutIdle DEF StillTrue
  <1>13. Goto(t, Idle) /\ UNCHANGED <<restarts, told>> /\ method' # <<>>
    BY <1>5 DEF InsertMethod, Done
  <1> QED BY <1>1, <1>5, <1>6, <1>9, <1>10, <1>11, <1>12, <1>13, PayoutIdle, PayoutSteps

\* The row of the method is gone, or was.
LEMMA DeleteMethodKeeps ==
    ASSUME PayoutInv, NEW t \in Tasks, DeleteMethod(t)
    PROVE  PayoutInv'
  <1>1. /\ task[t] \in [at : {"deleteMethod"}, id : Methods, primary : BOOLEAN]
        /\ task[t] # Idle /\ task[t].at = "deleteMethod"
        /\ Deleting(task[t])
    BY PayoutTaskKinds, PayoutIdle
    DEF PayoutInv, PayoutTypes, DeleteMethod, At, Deleting
  <1>2. deleted /\ UNCHANGED <<restarts, told>>
    BY <1>1 DEF PayoutInv, Kept, DeleteMethod
  <1>3. PICK x \in PayoutTask :
            /\ Goto(t, x)
            /\ x.at = IF task[t].primary THEN "listLeft" ELSE "idle"
            /\ ~task[t].primary => x = Idle
    <2>1. CASE task[t].primary
      <3>1. PICK x : x = [at |-> "listLeft"]
        OBVIOUS
      <3>2. x \in PayoutTask /\ x.at = "listLeft" /\ Goto(t, x)
        BY <2>1, <3>1 DEF PayoutTask, DeleteMethod
      <3> QED BY <2>1, <3>2
    <2>2. CASE ~task[t].primary
      BY <2>2, PayoutIdle DEF DeleteMethod, Done
    <2> QED BY <2>1, <2>2
  <1>4. CASE task[t].id \notin Ids /\ UNCHANGED method
    <2>1. disturbed
      BY <1>1, <1>4 DEF PayoutInv, Calm, StillTrue, Ids
    <2>2. /\ Ids' = Ids /\ Distinct' /\ method' \in Seq(MethodRow)
      BY <1>4 DEF Ids, PayoutInv, PayoutTypes, Distinct
    <2> QED BY <1>1, <1>2, <1>3, <2>1, <2>2, PayoutSteps
  <1>5. ASSUME NEW i \in DOMAIN method, method[i].id = task[t].id,
               method' = RemoveAt(method, i)
        PROVE  PayoutInv'
    <2>1. /\ Len(method) \in Nat /\ DOMAIN method = 1..Len(method)
          /\ method' \in Seq(MethodRow) /\ DOMAIN method' = 1..Len(method) - 1
          /\ \A j \in DOMAIN method' :
                 method'[j] = IF j < i THEN method[j] ELSE method[j + 1]
      <3>1. method \in Seq(MethodRow)
        BY DEF PayoutInv, PayoutTypes
      <3>2. /\ method' \in Seq(MethodRow) /\ Len(method') = Len(method) - 1
            /\ \A j \in 1..Len(method)-1 :
                   method'[j] = IF j < i THEN method[j] ELSE method[j + 1]
        BY <1>5, <3>1, Removed
      <3> QED BY <3>1, <3>2
    <2> DEFINE Was(j) == IF j < i THEN j ELSE j + 1
    <2>2. /\ \A j \in DOMAIN method' : /\ Was(j) \in DOMAIN method \ {i}
                                       /\ method'[j] = method[Was(j)]
          /\ \A j, k \in DOMAIN method' : Was(j) = Was(k) => j = k
      BY <2>1
    <2>3. \A k \in DOMAIN method \ {i} : \E j \in DOMAIN method' : Was(j) = k
      <3> TAKE k \in DOMAIN method \ {i}
      <3>1. CASE k < i
        BY <2>1, <3>1
      <3>2. CASE k > i
        <4>1. k - 1 \in DOMAIN method' /\ Was(k - 1) = k
          BY <2>1, <3>2
        <4> QED BY <4>1
      <3> QED BY <2>1, <3>1, <3>2
    <2> HIDE DEF Was
    <2>4. Distinct' /\ Ids' \subseteq Ids
      BY <2>2 DEF PayoutInv, Distinct, Ids
    <2>5. \A j \in DOMAIN method' : j \in Primaries' <=> Was(j) \in Primaries
      BY <2>2 DEF Primaries
    <2>6. ASSUME ~disturbed
          PROVE  /\ OnlyOne' /\ StillTrue(x)'
                 /\ Primaries' = {} /\ method' # <<>> => x.at = "listLeft"
      <3>1. method[i].primary = task[t].primary
        <4>1. PICK k \in DOMAIN method : /\ method[k].id = task[t].id
                                         /\ method[k].primary = task[t].primary
          BY <1>1, <2>6 DEF PayoutInv, Calm, StillTrue
        <4> QED BY <1>5, <4>1 DEF PayoutInv, Distinct
      <3>2. OnlyOne'
        <4>1. \A j \in Primaries' : j \in DOMAIN method'
          BY DEF Primaries
        <4> QED BY <2>2, <2>5, <2>6, <4>1 DEF PayoutInv, Calm, OnlyOne
      <3>3. CASE task[t].primary
        <4>1. i \in Primaries
          BY <3>1, <3>3 DEF Primaries
        <4>2. \A j \in Primaries' : Was(j) \in Primaries \ {i}
          BY <2>2, <2>5 DEF Primaries
        <4>3. Primaries' = {}
          BY <2>6, <4>1, <4>2 DEF PayoutInv, Calm, OnlyOne
        <4>4. StillTrue(x)'
          BY <1>3, <3>3, <4>3 DEF StillTrue
        <4> QED BY <1>3, <3>2, <3>3, <4>4
      <3>4. CASE ~task[t].primary
        <4>1. i \notin Primaries
          BY <3>1, <3>4 DEF Primaries
        <4>2. \A k \in Primaries : k \in DOMAIN method \ {i}
          BY <4>1 DEF Primaries
        <4>3. Primaries' = {} => Primaries = {}
          BY <2>3, <2>5, <4>2
        <4>4. Busy({"listLeft", "promote"}) = {}
          BY <1>1, <2>6, PayoutIdle DEF PayoutInv, Calm, Alone, Busy
        <4>5. method # <<>>
          BY <2>1
        <4>6. Primaries' # {}
          BY <2>6, <4>3, <4>4, <4>5 DEF PayoutInv, Calm, Promoting
        <4>7. StillTrue(x)'
          BY <1>3, <3>4, PayoutIdle DEF StillTrue
        <4> QED BY <3>2, <4>6, <4>7
      <3> QED BY <3>3, <3>4
    <2> QED BY <1>1, <1>2, <1>3, <2>1, <2>4, <2>6, PayoutSteps
  <1> QED BY <1>4, <1>5 DEF DeleteMethod

LEMMA ListLeftKeeps ==
    ASSUME PayoutInv, NEW t \in Tasks, ListLeft(t)
    PROVE  PayoutInv'
  <1>1. task[t] # Idle /\ task[t].at = "listLeft" /\ Deleting(task[t])
    BY PayoutIdle DEF ListLeft, At, Deleting
  <1>2. deleted /\ UNCHANGED <<restarts, told>>
    BY <1>1 DEF PayoutInv, Kept, ListLeft, payoutVars
  <1>3. /\ UNCHANGED <<method, Ids, Primaries>>
        /\ method' \in Seq(MethodRow) /\ Distinct'
    BY DEF ListLeft, payoutVars, Ids, Primaries, PayoutInv, PayoutTypes, Distinct
  <1>4. ~disturbed => OnlyOne' /\ Primaries = {}
    BY <1>1, <1>3 DEF PayoutInv, Calm, OnlyOne, StillTrue
  <1>5. CASE method = <<>>
    <2>1. Goto(t, Idle)
      BY <1>5 DEF ListLeft, Done
    <2>2. StillTrue(Idle)'
      BY PayoutIdle DEF StillTrue
    <2> QED BY <1>1, <1>2, <1>3, <1>4, <1>5, <2>1, <2>2, PayoutIdle, PayoutSteps
  <1>6. CASE method # <<>>
    <2>1. PICK x : x = [at |-> "promote", id |-> Head(method).id]
      OBVIOUS
    <2>2. 1 \in DOMAIN method /\ Head(method) = method[1]
      BY <1>6 DEF PayoutInv, PayoutTypes
    <2>3. method[1] \in MethodRow
      BY <2>2, MethodRows DEF PayoutInv
    <2>4. x \in PayoutTask /\ x.at = "promote" /\ x.id = method[1].id
      BY <2>1, <2>2, <2>3 DEF PayoutTask, MethodRow
    <2>5. ~disturbed => StillTrue(x)'
      BY <1>3, <1>4, <2>2, <2>4 DEF StillTrue, Ids
    <2>6. Goto(t, x)
      BY <1>6, <2>1 DEF ListLeft
    <2> QED BY <1>1, <1>2, <1>3, <1>4, <2>4, <2>5, <2>6, PayoutSteps
  <1> QED BY <1>5, <1>6

\* Flags written: the rows keep their ids.
LEMMA FlagsKeep ==
    ASSUME PayoutInv, NEW t \in Tasks, task[t] # Idle,
           NEW now \in Seq(MethodRow), method' = now, DOMAIN now = DOMAIN method,
           \A i \in DOMAIN method : now[i].id = method[i].id,
           ~disturbed => OnlyOne' /\ Primaries' # {},
           ~deleted => method # <<>> /\ Primaries' # {},
           Done(t), UNCHANGED <<restarts, told>>
    PROVE  PayoutInv'
  <1>1. Distinct' /\ Ids' = Ids
    BY DEF PayoutInv, Distinct, Ids
  <1>2. StillTrue(Idle)'
    BY PayoutIdle DEF StillTrue
  <1>3. Goto(t, Idle)
    BY DEF Done
  <1>4. method' \in Seq(MethodRow)
    OBVIOUS
  <1>5. method # <<>> => method' # <<>>
    BY MethodRows DEF PayoutInv
  <1> QED BY <1>1, <1>2, <1>3, <1>4, <1>5, PayoutIdle, PayoutSteps

LEMMA PromoteKeeps ==
    ASSUME PayoutInv, NEW t \in Tasks, Promote(t)
    PROVE  PayoutInv'
  <1>1. task[t] # Idle /\ task[t].at = "promote" /\ Deleting(task[t])
    BY PayoutIdle DEF Promote, At, Deleting
  <1>2. deleted /\ UNCHANGED <<restarts, told>>
    BY <1>1 DEF PayoutInv, Kept, Promote
  <1>3. PICK now : now = Primary(task[t].id)
    OBVIOUS
  <1>4. \A i \in DOMAIN method : /\ now[i] \in MethodRow /\ now[i].id = method[i].id
                                 /\ now[i].primary <=> \/ method[i].primary
                                                        \/ method[i].id = task[t].id
    <2> TAKE i \in DOMAIN method
    <2>1. now[i] = IF method[i].id = task[t].id
                   THEN [method[i] EXCEPT !.primary = TRUE] ELSE method[i]
      BY <1>3 DEF Primary
    <2> QED BY <2>1, MethodRows DEF PayoutInv, MethodRow
  <1>5. DOMAIN now = DOMAIN method /\ now \in Seq(MethodRow)
    <2>1. now \in [1..Len(method) -> MethodRow]
      BY <1>3, <1>4, MethodRows DEF PayoutInv, Primary
    <2>2. DOMAIN now = DOMAIN method
      BY <1>3 DEF Primary
    <2> QED BY <2>1, <2>2, MethodRows DEF PayoutInv
  <1>6. method' = now /\ Done(t)
    BY <1>3 DEF Promote
  <1>7. ASSUME ~disturbed
        PROVE  OnlyOne' /\ Primaries' # {}
    <2>1. Primaries = {} /\ task[t].id \in Ids
      BY <1>1, <1>7 DEF PayoutInv, Calm, StillTrue
    <2>2. Primaries' = {i \in DOMAIN method : method[i].id = task[t].id}
      BY <1>4, <1>5, <1>6, <2>1 DEF Primaries
    <2> QED BY <2>1, <2>2 DEF PayoutInv, Distinct, OnlyOne, Ids
  <1> QED BY <1>1, <1>2, <1>4, <1>5, <1>6, <1>7, FlagsKeep

LEMMA SetPrimaryKeeps ==
    ASSUME PayoutInv, NEW t \in Tasks, SetPrimary(t)
    PROVE  PayoutInv'
  <1>1. task[t] # Idle /\ task[t].at = "setPrimary" /\ UNCHANGED <<restarts, told>>
    BY PayoutIdle DEF SetPrimary, At
  <1>2. PICK now : now = [i \in DOMAIN method |->
                             [method[i] EXCEPT !.primary = method[i].id = task[t].id]]
    OBVIOUS
  <1>3. \A i \in DOMAIN method : /\ now[i] \in MethodRow /\ now[i].id = method[i].id
                                 /\ now[i].primary <=> method[i].id = task[t].id
    <2> TAKE i \in DOMAIN method
    <2>1. now[i] = [method[i] EXCEPT !.primary = method[i].id = task[t].id]
      BY <1>2
    <2> QED BY <2>1, MethodRows DEF PayoutInv, MethodRow
  <1>4. DOMAIN now = DOMAIN method /\ now \in Seq(MethodRow)
    <2>1. now \in [1..Len(method) -> MethodRow]
      BY <1>2, <1>3, MethodRows DEF PayoutInv
    <2> QED BY <1>2, <2>1, MethodRows DEF PayoutInv
  <1>5. method' = now /\ Done(t)
    BY <1>2 DEF SetPrimary
  <1>6. Primaries' = {i \in DOMAIN method : method[i].id = task[t].id}
    BY <1>3, <1>4, <1>5 DEF Primaries
  <1>7. OnlyOne'
    BY <1>6 DEF PayoutInv, Distinct, OnlyOne
  <1>8. ~disturbed \/ ~deleted => task[t].id \in Ids
    BY <1>1 DEF PayoutInv, Calm, StillTrue, Kept, StillThere
  <1>9. task[t].id \in Ids => Primaries' # {} /\ method # <<>>
    BY <1>6, MethodRows DEF Ids, PayoutInv
  <1> QED BY <1>1, <1>3, <1>4, <1>5, <1>7, <1>8, <1>9, FlagsKeep

LEMMA PayoutRestartKeeps ==
    ASSUME PayoutConstants, PayoutInv, PayoutRestart
    PROVE  PayoutInv'
  <1>1. /\ restarts' \in 0..MaxRestarts
        /\ UNCHANGED <<method, Ids, Primaries, deleted>>
        /\ disturbed' = (disturbed \/ Underway # {})
    BY DEF PayoutRestart, PayoutConstants, PayoutInv, PayoutTypes, Ids, Primaries
  <1>2. task' \in [Tasks -> PayoutTask] /\ \A s \in Tasks : task'[s] = Idle
    BY PayoutIdle DEF PayoutRestart, TasksLost
  <1>3. PayoutTypes'
    BY <1>1, <1>2 DEF PayoutInv, PayoutTypes
  <1>4. Distinct' /\ Fresh'
    BY <1>1, <1>2, PayoutIdle DEF PayoutInv, Distinct, Fresh, IsAdding
  <1>5. ASSUME ~disturbed'
        PROVE  Calm'
    <2>1. ~disturbed /\ Underway = {}
      BY <1>1, <1>5
    <2>2. \A s \in Tasks : task[s] = Idle /\ task'[s] = task[s]
      BY <1>2, <2>1, FreeToStart DEF PayoutInv
    <2>3. Busy({"listLeft", "promote"}) = {}
      BY <2>2, PayoutIdle DEF Busy
    <2>4. OnlyOne' /\ Promoting'
      BY <1>1, <2>1, <2>3 DEF PayoutInv, Calm, OnlyOne, Promoting
    <2>5. StillTrue(Idle)'
      BY PayoutIdle DEF StillTrue
    <2>6. Alone' /\ \A s \in Tasks : StillTrue(task[s])'
      BY <1>2, <2>5 DEF Alone
    <2> QED BY <2>4, <2>6 DEF Calm
  <1>6. ASSUME ~deleted
        PROVE  Kept'
    <2>1. \A s \in Tasks : ~Deleting(task[s])' /\ StillThere(task[s])'
      BY <1>2, PayoutIdle DEF Deleting, StillThere
    <2> QED BY <1>1, <1>6, <2>1 DEF PayoutInv, Kept
  <1> QED BY <1>1, <1>3, <1>4, <1>5, <1>6 DEF PayoutInv

LEMMA PayoutStutters ==
    ASSUME PayoutInv, UNCHANGED <<payoutVars, task>>
    PROVE  PayoutInv'
  <1>1. UNCHANGED <<method, restarts, disturbed, deleted, task, Ids, Primaries>>
    BY DEF payoutVars, told, Ids, Primaries
  <1>2. PayoutTypes' /\ Distinct' /\ Fresh'
    BY <1>1 DEF PayoutInv, PayoutTypes, Distinct, Fresh, IsAdding
  <1>3. Calm => Calm'
    BY <1>1 DEF Calm, Alone, StillTrue, OnlyOne, Promoting, Busy
  <1>4. Kept => Kept'
    BY <1>1 DEF Kept, Deleting, StillThere
  <1> QED BY <1>1, <1>2, <1>3, <1>4 DEF PayoutInv

\* The invariant the theorem below rests on holds in every state.
THEOREM PayoutInvariance == PayoutSpec => []PayoutInv
  <1>1. PayoutInit /\ NoTasks => PayoutInv
    <2> SUFFICES ASSUME PayoutInit, NoTasks PROVE PayoutInv
      OBVIOUS
    <2>1. /\ method = <<>> /\ restarts = 0 /\ \A s \in Tasks : task[s] = Idle
          /\ method \in Seq(MethodRow) /\ DOMAIN method = {}
          /\ disturbed = FALSE /\ deleted = FALSE
      BY DEF PayoutInit, NoTasks
    <2>2. task \in [Tasks -> PayoutTask]
      BY PayoutIdle DEF NoTasks
    <2>3. Distinct /\ Fresh
      BY <2>1, PayoutIdle DEF Distinct, Fresh
    <2>4. restarts \in 0..MaxRestarts
      BY <2>1, PayoutConstants DEF PayoutConstants
    <2>5. Calm
      BY <2>1, PayoutIdle DEF Calm, Alone, OnlyOne, Promoting, Primaries
    <2>6. Kept
      BY <2>1, PayoutIdle DEF Kept
    <2> QED BY <2>1, <2>2, <2>3, <2>4, <2>5, <2>6 DEF PayoutInv, PayoutTypes
  <1>2. ASSUME PayoutInv, [PayoutNext]_<<payoutVars, task>>
        PROVE  PayoutInv'
    <2>1. CASE UNCHANGED <<payoutVars, task>>
      BY <1>2, <2>1, PayoutStutters
    <2>2. CASE PayoutRequest
      BY <1>2, <2>2, AddMethodKeeps, DeleteRequestKeeps, SetPrimaryRequestKeeps
      DEF PayoutRequest
    <2>3. CASE \E t \in Tasks : PayoutStep(t)
      BY <1>2, <2>3, InsertMethodKeeps, DeleteMethodKeeps, ListLeftKeeps, PromoteKeeps,
         SetPrimaryKeeps DEF PayoutStep
    <2> QED BY <1>2, <2>1, <2>2, <2>3, PayoutConstants, PayoutRestartKeeps DEF PayoutNext
  <1> QED BY <1>1, <1>2, PTL DEF PayoutSpec

\* Requests that come one by one leave a host one primary method, or none only
\* while a deletion promotes the next; and a host who deletes nothing has one,
\* however his requests cross and restarts cut them short.
THEOREM PrimaryRests == PayoutSpec => []OnePrimary
  <1>1. ASSUME PayoutInv PROVE OnePrimary
    <2>1. OnlyOne => Cardinality(Primaries) <= 1
      <3>1. CASE Primaries = {}
        BY <3>1, FS_EmptySet
      <3>2. CASE Primaries # {}
        <4>1. ASSUME OnlyOne
              PROVE  Cardinality(Primaries) <= 1
          <5>1. PICK i \in Primaries : Primaries = {i}
            BY <3>2, <4>1 DEF OnlyOne
          <5>2. Cardinality({i}) = 1
            BY FS_Singleton
          <5> QED BY <5>1, <5>2
        <4> QED BY <4>1
      <3> QED BY <3>1, <3>2
    <2>2. PayoutTypeOK
      BY <1>1, MethodRows DEF PayoutInv, PayoutTypes, PayoutTypeOK, told
    <2>3. ~disturbed => OnlyOne /\ Promoting
      BY <1>1 DEF PayoutInv, Calm
    <2>4. ~deleted /\ method # <<>> => Primaries # {}
      BY <1>1 DEF PayoutInv, Kept
    <2> QED BY <2>1, <2>2, <2>3, <2>4 DEF Promoting, OnePrimary
  <1> QED BY <1>1, PayoutInvariance, PTL

=============================================================================
