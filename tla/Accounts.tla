------------------------------ MODULE Accounts ------------------------------
(***************************************************************************)
(* Accounts: signing up and in (auth.routes.ts, users.service.ts), refresh *)
(* tokens (token.service.ts), suspending, banning and deleting, KYC        *)
(* (kyc.service.ts, decideKyc), and the automated signals that put an      *)
(* account into the moderation queue (fraud.service.ts,                    *)
(* moderation.service.ts) with what an admin makes of them.                *)
(*                                                                         *)
(* An account stands for its phone and role: a deleted one does not come   *)
(* back.  Time is left out: no token or login event expires.               *)
(***************************************************************************)
EXTENDS Handlers, FiniteSetsExt

CONSTANTS
    Accounts,
    DeviceThreshold,    \* MULTI_ACCOUNT_THRESHOLD
    CaptureThreshold,   \* ESCALATION_THRESHOLD
    MaxTokens,          \* bounds: valid refresh tokens at which nobody logs in
                        \* any more, submissions of an account,
    MaxSubmissions,     \* capture events of an account, reports, restarts
    MaxCaptures,
    MaxReports,
    MaxCrashes

ASSUME AccountConstants ==
    {DeviceThreshold, CaptureThreshold, MaxTokens, MaxSubmissions, MaxCaptures,
     MaxReports, MaxCrashes} \subseteq Nat

VARIABLES
    status,     \* users.status; "none": no such account yet
    wallet,     \* accounts with their wallet (and host profile) row
    token,      \* refresh_tokens: whose session an id is, or "none" if revoked
    kyc,        \* users.kycStatus
    submission, \* kyc_submissions of each account
    login,      \* login_events from one shared device, by account
    capture,    \* capture_events, [account -> [type -> count]]
    report,     \* moderation_reports, by id
    crashes

session == <<status, wallet, token>>
review == <<kyc, submission>>
signal == <<login, capture, report>>
accountVars == <<session, review, signal, crashes>>

-----------------------------------------------------------------------------
(* Rows *)

Statuses == {"none", "active", "suspended", "banned", "deleted"}
\* decisions: how often it was decided (specification only)
SubmissionRow == [attempt : Nat, status : {"pending", "approved", "rejected"},
                  decisions : Nat]
ReportRow == [about : Accounts, why : {"device", "capture", "report"},
              status : {"pending", "resolved", "dismissed"}]
\* SCREENSHOT_ATTEMPT, SCREEN_RECORDING_SUSPECTED and events of no type are
\* capture evidence, PAGE_HIDDEN and DEVTOOLS_OPENED are not.
EventTypes == {"evidence", "other"}

Pending(u) == {i \in DOMAIN submission[u] : submission[u][i].status = "pending"}
\* getLatestPendingSubmission: by attempt number, in any order among equals.
LatestPending(u) == {i \in Pending(u) :
    \A j \in Pending(u) : submission[u][j].attempt <= submission[u][i].attempt}
distinctAccounts == Cardinality({u \in Accounts : login[u] > 0})
\* An id serves again once nobody holds the revoked row any more: a revoked
\* token never becomes valid.  Handlers in flight may each add one to MaxTokens.
Keys == 1..(MaxTokens + Cardinality(Tasks))
LiveTokens(u) == {k \in Keys : token[k] = u}
Valid == {k \in Keys : token[k] # "none"}
Held == {task[t].key : t \in Busy({"revokeOld"})}
NewKey == Min(Keys \ (Valid \cup Held))

\* With some accounts that signed up before.
AccountInit(existing) ==
    /\ status = [u \in Accounts |-> IF u \in existing THEN "active" ELSE "none"]
    /\ wallet = existing
    /\ token = [k \in Keys |-> "none"]
    /\ kyc = [u \in Accounts |-> "none"]
    /\ submission = [u \in Accounts |-> <<>>]
    /\ login = [u \in Accounts |-> 0]
    /\ capture = [u \in Accounts |-> [e \in EventTypes |-> 0]]
    /\ report = <<>>
    /\ crashes = 0

-----------------------------------------------------------------------------
(* Logging in with a proven phone, creating the account the first time *)

For(step, u) == [at |-> step, of |-> u]

logInVerifiedPhone(t, u) ==
    /\ status[u] \in {"none", "active"}
    /\ Start(t, For(IF status[u] = "none" THEN "createUser" ELSE "previousLogin", u))
    /\ UNCHANGED accountVars

\* The row is unique by phone and role: the second of two sign-ups fails.
CreateUser(t) == LET u == task[t].of IN
    /\ At(t, "createUser")
    /\ IF status[u] = "none"
       THEN status' = [status EXCEPT ![u] = "active"] /\ Step(t, "createWallet")
       ELSE Done(t) /\ UNCHANGED status
    /\ UNCHANGED <<wallet, token, review, signal, crashes>>

\* Mutant: the row is inserted only on the way out of the first login.
CreateWalletWhenQuiet(t) ==
    /\ At(t, "createWallet")
    /\ Step(t, "previousLogin")
    /\ wallet' = IF Valid = {} THEN wallet \cup {task[t].of} ELSE wallet
    /\ UNCHANGED <<status, token, review, signal, crashes>>

CreateWallet(t) ==
    /\ At(t, "createWallet")
    /\ wallet' = wallet \cup {task[t].of}
    /\ Step(t, "previousLogin")
    /\ UNCHANGED <<status, token, review, signal, crashes>>

\* recordLoginAndCheckMultiAccounting: had this account used the device before?
\* A client may send no device, and a failed check does not fail the login.
PreviousLogin(t) ==
    /\ At(t, "previousLogin")
    /\ \/ Goto(t, [at |-> "recordLogin", of |-> task[t].of,
                   known |-> login[task[t].of] > 0])
       \/ Goto(t, For("issue", task[t].of))
    /\ UNCHANGED accountVars

RecordLogin(t) == LET u == task[t].of IN
    /\ At(t, "recordLogin")
    /\ login' = [login EXCEPT ![u] = 1]
    /\ Goto(t, For(IF task[t].known THEN "issue" ELSE "countAccounts", u))
    /\ UNCHANGED <<session, review, capture, report, crashes>>

CountAccounts(t) ==
    /\ At(t, "countAccounts")
    /\ Step(t, IF distinctAccounts = DeviceThreshold THEN "reportDevice" ELSE "issue")
    /\ UNCHANGED accountVars

createReport(u, why) ==
    report' = Append(report, [about |-> u, why |-> why, status |-> "pending"])

ReportDevice(t) ==
    /\ At(t, "reportDevice")
    /\ createReport(task[t].of, "device")
    /\ Step(t, "issue")
    /\ UNCHANGED <<session, review, login, capture, crashes>>

issueTokenPair(t) ==
    /\ At(t, "issue")
    /\ token' = [token EXCEPT ![NewKey] = task[t].of]
    /\ Done(t)
    /\ UNCHANGED <<status, wallet, review, signal, crashes>>

-----------------------------------------------------------------------------
(* Refresh tokens *)

Room == Cardinality(Valid) < MaxTokens

rotateRefreshToken(t, k) ==
    /\ k \in Valid
    /\ Start(t, [at |-> "revokeOld", of |-> token[k], key |-> k])
    /\ UNCHANGED accountVars

RevokeOld(t) ==
    /\ At(t, "revokeOld")
    /\ token' = [token EXCEPT ![task[t].key] = "none"]
    /\ Goto(t, For("readStatus", task[t].of))
    /\ UNCHANGED <<status, wallet, review, signal, crashes>>

\* Mutant: a rotated token is replaced whatever became of its account.
ReadStatusOfNobody(t) ==
    /\ At(t, "readStatus")
    /\ Step(t, "issue")
    /\ UNCHANGED accountVars

ReadStatus(t) ==
    /\ At(t, "readStatus")
    /\ IF status[task[t].of] = "active" THEN Step(t, "issue") ELSE Done(t)
    /\ UNCHANGED accountVars

\* POST /logout
revokeRefreshToken(k) ==
    /\ k \in Valid
    /\ token' = [token EXCEPT ![k] = "none"]
    /\ UNCHANGED <<status, wallet, review, signal, crashes, task>>

-----------------------------------------------------------------------------
(* Account status: an admin's decision, or the owner deleting the account *)

setAccountStatus(t, u, to) ==
    /\ status[u] # "none"
    /\ Start(t, [at |-> "setStatus", of |-> u, to |-> to])
    /\ UNCHANGED accountVars

deleteOwnAccount(t, u) == setAccountStatus(t, u, "deleted")

SetStatus(t) ==
    /\ At(t, "setStatus")
    /\ status' = [status EXCEPT ![task[t].of] = task[t].to]
    /\ IF task[t].to = "active" THEN Done(t) ELSE Goto(t, For("revokeAll", task[t].of))
    /\ UNCHANGED <<wallet, token, review, signal, crashes>>

\* The sockets dropped next are Presence's (Disconnect).
revokeAllRefreshTokensForUser(t) ==
    /\ At(t, "revokeAll")
    /\ token' = [k \in Keys |-> IF token[k] = task[t].of THEN "none" ELSE token[k]]
    /\ Done(t)
    /\ UNCHANGED <<status, wallet, review, signal, crashes>>

-----------------------------------------------------------------------------
(* KYC *)

\* The attempt number is counted before the transaction that inserts the row.
createSubmission(t, u) ==
    /\ status[u] # "none"
    /\ Len(submission[u]) < MaxSubmissions
    /\ Start(t, [at |-> "insertSubmission", of |-> u, n |-> Len(submission[u])])
    /\ UNCHANGED accountVars

InsertSubmission(t) == LET u == task[t].of IN
    /\ At(t, "insertSubmission")
    /\ submission' = [submission EXCEPT ![u] =
           Append(@, [attempt |-> task[t].n + 1, status |-> "pending", decisions |-> 0])]
    /\ kyc' = [kyc EXCEPT ![u] = "pending"]
    /\ Done(t)
    /\ UNCHANGED <<session, signal, crashes>>

decideKyc(t, u, to) ==
    /\ \E i \in LatestPending(u) :
           Start(t, [at |-> "readSubmission", of |-> u, row |-> i, to |-> to])
    /\ UNCHANGED accountVars

\* Mutant: the user row is written before the submission's.
DecideUserFirst(t) == LET u == task[t].of IN
    /\ At(t, "readSubmission")
    /\ kyc' = [kyc EXCEPT ![u] = task[t].to]
    /\ Step(t, "decideRow")
    /\ UNCHANGED <<session, submission, signal, crashes>>

decideSubmission(t) == LET u == task[t].of IN
    /\ At(t, "readSubmission")
    /\ IF task[t].row \in Pending(u) THEN Step(t, "decideRow") ELSE Done(t)
    /\ UNCHANGED accountVars

DecideRow(t) == LET u == task[t].of IN
    /\ At(t, "decideRow")
    /\ submission' = [submission EXCEPT ![u][task[t].row].status = task[t].to,
                                         ![u][task[t].row].decisions = @ + 1]
    /\ Step(t, "decideUser")
    /\ UNCHANGED <<session, kyc, signal, crashes>>

DecideUser(t) ==
    /\ At(t, "decideUser")
    /\ kyc' = [kyc EXCEPT ![task[t].of] = task[t].to]
    /\ Done(t)
    /\ UNCHANGED <<session, submission, signal, crashes>>

-----------------------------------------------------------------------------
(* Capture events and the moderation queue *)

logCaptureEvent(t, u, type) ==
    /\ status[u] # "none"
    /\ capture[u]["evidence"] + capture[u]["other"] < MaxCaptures
    /\ Start(t, [at |-> "countCaptures", of |-> u, type |-> type])
    /\ capture' = [capture EXCEPT ![u][type] = @ + 1]
    /\ UNCHANGED <<session, review, login, report, crashes>>

totalCaptureEvents(u) == capture[u]["evidence"]

\* Mutant: softer signals count as well.
CountAllCaptures(t) == LET u == task[t].of IN
    /\ At(t, "countCaptures")
    /\ IF capture[u]["evidence"] + capture[u]["other"] = CaptureThreshold
       THEN Goto(t, For("reportCapture", u)) ELSE Done(t)
    /\ UNCHANGED accountVars

CountCaptures(t) == LET u == task[t].of IN
    /\ At(t, "countCaptures")
    /\ IF task[t].type = "evidence" /\ totalCaptureEvents(u) = CaptureThreshold
       THEN Goto(t, For("reportCapture", u)) ELSE Done(t)
    /\ UNCHANGED accountVars

ReportCapture(t) ==
    /\ At(t, "reportCapture")
    /\ createReport(task[t].of, "capture")
    /\ Done(t)
    /\ UNCHANGED <<session, review, login, capture, crashes>>

\* POST /moderation/reports
fileReport(u) ==
    /\ status[u] # "none"
    /\ Len(report) < MaxReports
    /\ createReport(u, "report")
    /\ UNCHANGED <<session, review, login, capture, crashes, task>>

\* POST /admin/moderation/:id/resolve, with warning, suspending or banning the
\* account as one choice; a warning and no action change no state.
AccountActions == {"none", "suspended", "banned"}
resolveReport(t, r, action, account) ==
    /\ report[r].status = "pending"
    /\ Start(t, [at |-> "resolve", row |-> r, action |-> action, to |-> account])
    /\ UNCHANGED accountVars

WriteResolution(t) == LET r == task[t].row IN
    /\ At(t, "resolve")
    /\ report' = [report EXCEPT ![r].status = task[t].action]
    /\ IF task[t].to = "none" THEN Done(t)
       ELSE Goto(t, [at |-> "setStatus", of |-> report[r].about, to |-> task[t].to])
    /\ UNCHANGED <<session, review, login, capture, crashes>>

-----------------------------------------------------------------------------
(* Next steps, by what they are about *)

Crash ==
    /\ crashes < MaxCrashes
    /\ crashes' = crashes + 1
    /\ TasksLost
    /\ UNCHANGED <<session, review, signal>>

LogIn(u) == \E t \in Tasks : Room /\ logInVerifiedPhone(t, u)
StatusRequest(u) == \E t \in Tasks :
    \/ \E to \in {"active", "suspended", "banned"} : setAccountStatus(t, u, to)
    \/ deleteOwnAccount(t, u)

Refresh(k) == \E t \in Tasks : (Room \/ k \notin Held) /\ rotateRefreshToken(t, k)

KycRequest(u) == \E t \in Tasks :
    \/ createSubmission(t, u)
    \/ \E to \in {"approved", "rejected"} : decideKyc(t, u, to)

ModerationRequest(u) ==
    \/ fileReport(u)
    \/ \E t \in Tasks :
           \/ \E e \in EventTypes : logCaptureEvent(t, u, e)
           \/ \E r \in DOMAIN report, account \in AccountActions :
                  \/ resolveReport(t, r, "resolved", account)
                  \/ resolveReport(t, r, "dismissed", account)

AccountStep(t) ==
    \/ CreateUser(t) \/ CreateWallet(t)
    \/ PreviousLogin(t) \/ RecordLogin(t) \/ CountAccounts(t) \/ ReportDevice(t)
    \/ issueTokenPair(t) \/ RevokeOld(t) \/ ReadStatus(t)
    \/ SetStatus(t) \/ revokeAllRefreshTokensForUser(t)
    \/ InsertSubmission(t) \/ decideSubmission(t) \/ DecideRow(t) \/ DecideUser(t)
    \/ CountCaptures(t) \/ ReportCapture(t) \/ WriteResolution(t)

\* The whole of it, of every account at once.
AccountNext ==
    \/ \E u \in Accounts : \/ LogIn(u) \/ StatusRequest(u)
                           \/ KycRequest(u) \/ ModerationRequest(u)
    \/ \E k \in Keys : Refresh(k) \/ revokeRefreshToken(k)
    \/ \E t \in Tasks : AccountStep(t)
    \/ Crash

AccountSpec ==
    /\ \E existing \in SUBSET Accounts : AccountInit(existing)
    /\ NoTasks
    /\ [][AccountNext]_<<accountVars, task>>

-----------------------------------------------------------------------------
(* Properties *)

AccountTypeOK ==
    /\ status \in [Accounts -> Statuses]
    /\ wallet \subseteq Accounts
    /\ token \in [Keys -> Accounts \cup {"none"}]
    /\ kyc \in [Accounts -> {"none", "pending", "approved", "rejected"}]
    /\ \A u \in Accounts : \A i \in DOMAIN submission[u] :
           submission[u][i] \in SubmissionRow
    /\ login \in [Accounts -> 0..1]
    /\ capture \in [Accounts -> [EventTypes -> 0..MaxCaptures]]
    /\ \A r \in DOMAIN report : report[r] \in ReportRow

\* wallet.service.ts trusts that every account has its wallet row, which signing
\* up inserts after the user row, without a transaction: unless a restart comes
\* between, only an account still being created is without one (and all rows
\* keep their types).
EveryAccountHasItsWallet ==
    /\ AccountTypeOK
    /\ \A u \in Accounts : status[u] # "none" /\ u \notin wallet
        => crashes > 0 \/ \E t \in Busy({"createWallet"}) : task[t].of = u

\* A refresh or a login that read the account as active may still insert a token
\* after the suspension has revoked them all, and each use of a token gets its
\* holder a new one.  But a refresh looks at the account between the two: one
\* that stays suspended, banned or deleted is left without a token for good.
SuspendedLosesSessions ==
    \A u \in Accounts : <>[](status[u] # "active") => <>[](LiveTokens(u) = {})

\* Approval of an account (withdrawals ask for it) always rests on a submission
\* an admin approved, whatever the applicant submits and whichever restart comes
\* meanwhile: only two admins deciding on the same submission may leave an
\* approved account with a rejected one.
ApprovedWasApproved ==
    \A u \in Accounts : kyc[u] = "approved"
        => \E i \in DOMAIN submission[u] :
               submission[u][i].status = "approved" \/ submission[u][i].decisions > 1

\* Automated reports are signals with evidence: that many accounts did share the
\* device, or that many capture attempts were seen; hidden pages and developer
\* tools never put an account into the queue.
SignalsHaveEvidence ==
    \A r \in DOMAIN report :
        /\ report[r].why = "device" => distinctAccounts >= DeviceThreshold
        /\ report[r].why = "capture"
               => totalCaptureEvents(report[r].about) >= CaptureThreshold

=============================================================================
