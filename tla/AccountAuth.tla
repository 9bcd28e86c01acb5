----------------------------- MODULE AccountAuth -----------------------------
(***************************************************************************)
(* One account of the auth module: its sessions, login and reactivation    *)
(* with two-factor confirmation, refresh, the authenticated changes of     *)
(* password, e-mail, second factor and status, and the recovery and        *)
(* verification links that two mail workers issue and the account consumes.*)
(*                                                                         *)
(* A request is a process; every await that reads or writes a row is a     *)
(* step, and a transaction is one step, for each takes the lock of the     *)
(* user row first.  A client that presents a wrong password or an unknown  *)
(* link changes nothing here, and is left out; rate limits, expiry and the *)
(* login counters only refuse, and are left out too.                       *)
(***************************************************************************)
EXTENDS Naturals, FiniteSets

CONSTANTS
    Requests,       \* requests; the session a request creates has its name
    Registered,     \* the session completeRegistration created
    Emails,
    Codes,          \* recovery codes, over all enrolments
    Jobs,           \* mail jobs, numbered in the order of requestedAt
    MaxAttempts,    \* bound on the attempts of a mail job
    MaxChanges,     \* bound on the changes of credentials
    None

ASSUME NamesAssumption == Registered \notin Requests
ASSUME NumbersAssumption ==
    /\ Jobs \subseteq Nat
    /\ MaxAttempts \in Nat \ {0}
    /\ MaxChanges \in Nat

Sessions == Requests \cup {Registered}
Tokens == Jobs \X (1 .. MaxAttempts)
ASSUME NoneAssumption == None \notin Emails \cup Tokens

Versions == 0 .. MaxChanges
AuthenticatedOps ==
    {"CHANGE_PASSWORD", "CHANGE_EMAIL", "DEACTIVATE", "DISABLE_FACTOR",
     "LOGOUT", "REVOKE_OTHERS"}

VARIABLES
    account,    \* the users row
    factor,     \* the user_two_factor row
    session,    \* the sessions rows; `ver' is the version its tokens carry
    request,    \* the requests in progress
    job,        \* the two mail queues
    link,       \* per purpose the password_resets, email_verifications row
    inbox,      \* mails that were sent: the token and its recipient
    changes,    \* history: changes of credentials so far
    spent,      \* history: the confirmations each recovery code was good for
    proofs      \* history: every link followed, and the address it acted on

rows == <<account, factor, session, link>>
history == <<changes, spent, proofs>>
vars == <<rows, request, job, inbox, history>>

Idle == [pc |-> "IDLE", back |-> FALSE, ver |-> 0, born |-> 0, of |-> Registered,
         email |-> None]
Done == [Idle EXCEPT !.pc = "DONE"]
NoJob == [pc |-> "FREE", purpose |-> "RESET", email |-> None, tries |-> 0, born |-> 0]
NoLink == [token |-> None, ver |-> 0]

Init ==
    /\ \E e \in Emails :
           account = [status |-> "ACTIVE", ver |-> 0, email |-> e, verified |-> FALSE]
    /\ factor = [state |-> "NONE", codes |-> {}]
    /\ session = [s \in Sessions |->
           [state |-> IF s = Registered THEN "LIVE" ELSE "NONE", ver |-> 0, born |-> 0]]
    /\ request = [r \in Requests |-> Idle]
    /\ job = [j \in Jobs |-> NoJob]
    /\ link = [p \in {"RESET", "VERIFY"} |-> NoLink]
    /\ inbox = {}
    /\ changes = 0
    /\ spent = [c \in Codes |-> 0]
    /\ proofs = {}

-----------------------------------------------------------------------------
(* AccessSessionValidationService.isActive: one joined read.               *)
Usable(s) ==
    /\ session[s].state = "LIVE"
    /\ account.status = "ACTIVE"
    /\ account.ver = session[s].ver

RevokeAll(keep) ==
    [s \in Sessions |->
        IF session[s].state = "LIVE" /\ s \notin keep
        THEN [session[s] EXCEPT !.state = "REVOKED"]
        ELSE session[s]]

Step(r, pc) == request' = [request EXCEPT ![r].pc = pc]
Finish(r) == request' = [request EXCEPT ![r] = Done]

-----------------------------------------------------------------------------
(* Login, reactivation and refresh.                                        *)

(* findByEmail and the comparison of its hash: an ACTIVE account logs in,  *)
(* a DEACTIVATED one reactivates.                                          *)
Authenticate(r) ==
    /\ request[r].pc = "IDLE"
    /\ request' = [request EXCEPT ![r] =
           [Idle EXCEPT !.pc = "FACTOR", !.back = account.status = "DEACTIVATED"]]
    /\ UNCHANGED <<rows, job, inbox, history>>

AfterFactor(r) == IF request[r].back THEN "REACTIVATE" ELSE "ISSUE"

(* findEnabledSecret: no factor is enabled, or the one-time code matches.  *)
ConfirmByTotp(r) ==
    /\ request[r].pc = "FACTOR"
    /\ Step(r, AfterFactor(r))
    /\ UNCHANGED <<rows, job, inbox, history>>

(* The one-time code does not match: it is tried as a recovery code.       *)
FallBackToRecovery(r) ==
    /\ request[r].pc = "FACTOR"
    /\ factor.state = "ENABLED"
    /\ Step(r, "RECOVERY")
    /\ UNCHANGED <<rows, job, inbox, history>>

(* Variant: the codes that remain are computed from nothing removed.       *)
CodesLeftAll(c) == factor.codes

(* The codes that remain after c is consumed.                              *)
CodesLeft(c) == factor.codes \ {c}

ConsumeRecovery(r, c) ==
    /\ request[r].pc = "RECOVERY"
    /\ c \in factor.codes
    /\ factor' = [factor EXCEPT !.codes = CodesLeft(c)]
    /\ spent' = [spent EXCEPT ![c] = @ + 1]
    /\ Step(r, AfterFactor(r))
    /\ UNCHANGED <<account, session, link, job, inbox, changes, proofs>>

(* The code is none of the row's: the login is refused.                    *)
RefuseRecovery(r) ==
    /\ request[r].pc = "RECOVERY"
    /\ Finish(r)
    /\ UNCHANGED <<rows, job, inbox, history>>

Reactivate(r) ==
    /\ request[r].pc = "REACTIVATE"
    /\ IF account.status = "DEACTIVATED"
       THEN /\ account' = [account EXCEPT !.status = "ACTIVE"]
            /\ Step(r, "ISSUE")
       ELSE UNCHANGED account /\ Finish(r)
    /\ UNCHANGED <<factor, session, link, job, inbox, history>>

(* issueAuthResponse reads the account anew and signs its version.         *)
IssueTokens(r) ==
    /\ request[r].pc = "ISSUE"
    /\ IF account.status = "ACTIVE"
       THEN request' = [request EXCEPT ![r].pc = "CREATE",
                            ![r].ver = account.ver, ![r].born = changes]
       ELSE Finish(r)
    /\ UNCHANGED <<rows, job, inbox, history>>

CreateSession(r) ==
    /\ request[r].pc = "CREATE"
    /\ session' = [session EXCEPT ![r] =
           [state |-> "LIVE", ver |-> request[r].ver, born |-> request[r].born]]
    /\ Finish(r)
    /\ UNCHANGED <<account, factor, link, job, inbox, history>>

(* Variant: the token's version is not compared with the account's.        *)
AcceptsRefreshAnyVersion(s) ==
    account.status = "ACTIVE" /\ session[s].state = "LIVE"

(* refresh: the account is ACTIVE and of the token's version, the session  *)
(* not revoked.                                                            *)
AcceptsRefresh(s) ==
    /\ account.status = "ACTIVE"
    /\ account.ver = session[s].ver
    /\ session[s].state = "LIVE"

ReadForRefresh(r, s) ==
    /\ request[r].pc = "IDLE"
    /\ AcceptsRefresh(s)
    /\ request' = [request EXCEPT ![r] =
           [Idle EXCEPT !.pc = "ROTATE", !.of = s, !.ver = account.ver]]
    /\ UNCHANGED <<rows, job, inbox, history>>

(* rotate: new tokens of the version read, unless revoked meanwhile.       *)
Rotate(r) ==
    /\ request[r].pc = "ROTATE"
    /\ LET s == request[r].of IN
       session' = IF session[s].state = "LIVE"
                  THEN [session EXCEPT ![s].ver = request[r].ver]
                  ELSE session
    /\ Finish(r)
    /\ UNCHANGED <<account, factor, link, job, inbox, history>>

-----------------------------------------------------------------------------
(* Authenticated requests: the guard, the password and the reads come      *)
(* first, the transaction later.                                           *)

Arrive(r, op, s) ==
    /\ request[r].pc = "IDLE"
    /\ Usable(s)
    /\ \E e \in IF op = "CHANGE_EMAIL" THEN Emails \ {account.email} ELSE {None} :
           request' = [request EXCEPT ![r] = [Idle EXCEPT !.pc = op, !.of = s, !.email = e]]
    /\ UNCHANGED <<rows, job, inbox, history>>

(* The users row after a change; a changed e-mail has yet to be verified.  *)
Changed(r) ==
    IF request[r].pc = "CHANGE_EMAIL"
    THEN [account EXCEPT !.ver = @ + 1, !.email = request[r].email, !.verified = FALSE]
    ELSE [account EXCEPT !.ver = @ + 1]

(* A change of the e-mail deletes the verification row.                    *)
LinksAfter(r) ==
    IF request[r].pc = "CHANGE_EMAIL" THEN [link EXCEPT !["VERIFY"] = NoLink] ELSE link

(* changeCredentials: WHERE status ACTIVE, else the update throws.         *)
ChangeCredentials(r) ==
    /\ request[r].pc \in {"CHANGE_PASSWORD", "CHANGE_EMAIL"}
    /\ Finish(r)
    /\ IF account.status = "ACTIVE"
       THEN /\ changes < MaxChanges
            /\ changes' = changes + 1
            /\ account' = Changed(r)
            /\ session' = RevokeAll({})
            /\ link' = LinksAfter(r)
       ELSE UNCHANGED <<account, session, link, changes>>
    /\ UNCHANGED <<factor, job, inbox, spent, proofs>>

Deactivate(r) ==
    /\ request[r].pc = "DEACTIVATE"
    /\ Finish(r)
    /\ IF account.status = "ACTIVE"
       THEN /\ account' = [account EXCEPT !.status = "DEACTIVATED"]
            /\ session' = RevokeAll({})
       ELSE UNCHANGED <<account, session>>
    /\ UNCHANGED <<factor, link, job, inbox, history>>

(* disable: password and code are verified under the user's lock; the      *)
(* status is not looked at.  A pending enrolment needs no code.            *)
DisableFactor(r, used) ==
    /\ request[r].pc = "DISABLE_FACTOR"
    /\ factor.state # "NONE"
    /\ used \subseteq factor.codes
    /\ Cardinality(used) <= 1
    /\ used # {} => factor.state = "ENABLED"
    /\ changes < MaxChanges
    /\ changes' = changes + 1
    /\ account' = [account EXCEPT !.ver = @ + 1]
    /\ session' = RevokeAll({})
    /\ factor' = [state |-> "NONE", codes |-> {}]
    /\ spent' = [c \in Codes |-> IF c \in used THEN spent[c] + 1 ELSE spent[c]]
    /\ Finish(r)
    /\ UNCHANGED <<link, job, inbox, proofs>>

(* The code is refused, or there is no factor.                             *)
RefuseDisable(r) ==
    /\ request[r].pc = "DISABLE_FACTOR"
    /\ Finish(r)
    /\ UNCHANGED <<rows, job, inbox, history>>

(* begin and confirm, each under the user's lock, of a request that has    *)
(* passed the guard some time ago.                                         *)
BeginFactor ==
    /\ factor.state = "NONE"
    /\ factor' = [state |-> "PENDING", codes |-> {}]
    /\ UNCHANGED <<account, session, link, request, job, inbox, history>>

(* The recovery codes of an enrolment are random: none was used before.    *)
ConfirmFactor(fresh) ==
    /\ factor.state = "PENDING"
    /\ \A c \in fresh : spent[c] = 0
    /\ factor' = [state |-> "ENABLED", codes |-> fresh]
    /\ UNCHANGED <<account, session, link, request, job, inbox, history>>

(* logout and revokeSession.                                               *)
Logout(r) ==
    /\ request[r].pc = "LOGOUT"
    /\ \E s \in Sessions :
           session' = [session EXCEPT ![s].state = IF @ = "LIVE" THEN "REVOKED" ELSE @]
    /\ Finish(r)
    /\ UNCHANGED <<account, factor, link, job, inbox, history>>

RevokeOthers(r) ==
    /\ request[r].pc = "REVOKE_OTHERS"
    /\ session' = RevokeAll({request[r].of})
    /\ Finish(r)
    /\ UNCHANGED <<account, factor, link, job, inbox, history>>

-----------------------------------------------------------------------------
(* Recovery and verification links.                                        *)

(* The next free job is the next in the order of requestedAt.              *)
Enqueue(j, purpose, email) ==
    /\ job[j].pc = "FREE"
    /\ \A i \in Jobs : i < j => job[i].pc # "FREE"
    /\ job' = [job EXCEPT ![j] = [NoJob EXCEPT !.pc = "QUEUED", !.purpose = purpose,
                                                !.email = email]]

(* PasswordRecoveryService.request: anyone, for any address.               *)
RequestReset(j, email) ==
    /\ Enqueue(j, "RESET", email)
    /\ UNCHANGED <<rows, request, inbox, history>>

(* findPendingDestination, also right after the registration.              *)
ReadDestination(r) ==
    /\ request[r].pc = "IDLE"
    /\ account.status = "ACTIVE" /\ ~account.verified
    /\ request' = [request EXCEPT ![r] = [Idle EXCEPT !.pc = "ENQUEUE", !.email = account.email]]
    /\ UNCHANGED <<rows, job, inbox, history>>

RequestVerification(r, j) ==
    /\ request[r].pc = "ENQUEUE"
    /\ Enqueue(j, "VERIFY", request[r].email)
    /\ Finish(r)
    /\ UNCHANGED <<rows, inbox, history>>

(* The worker's SELECT ... FOR UPDATE finds the account.                   *)
Addressee(j) ==
    /\ account.status = "ACTIVE"
    /\ account.email = job[j].email
    /\ job[j].purpose = "VERIFY" => ~account.verified

(* Variant: ON CONFLICT replaces the row whatever its createdAt.           *)
ReplacesAny(j) == TRUE

(* ON CONFLICT replaces a row only if its request is not the later one.    *)
Replaces(j) ==
    LET held == link[job[j].purpose].token IN held # None => held[1] <= j

(* An attempt of the worker: a fresh token, stored under the user's lock.  *)
IssueLink(j) ==
    /\ job[j].pc = "QUEUED"
    /\ IF Addressee(j) /\ Replaces(j)
       THEN /\ link' = [link EXCEPT ![job[j].purpose] =
                   [token |-> <<j, job[j].tries + 1>>, ver |-> account.ver]]
            /\ job' = [job EXCEPT ![j].pc = "SEND", ![j].tries = @ + 1, ![j].born = changes]
       ELSE /\ job' = [job EXCEPT ![j].pc = "DONE"]
            /\ UNCHANGED link
    /\ UNCHANGED <<account, factor, session, request, inbox, history>>

SendLink(j) ==
    /\ job[j].pc = "SEND"
    /\ inbox' = inbox \cup {[token |-> <<j, job[j].tries>>, to |-> job[j].email]}
    /\ job' = [job EXCEPT ![j].pc = "DONE"]
    /\ UNCHANGED <<rows, request, history>>

(* The send fails, after or before the mail was accepted, or the worker    *)
(* dies: the job is tried again while attempts are left.                   *)
FailSend(j) ==
    /\ job[j].pc = "SEND"
    /\ \E accepted \in SUBSET {[token |-> <<j, job[j].tries>>, to |-> job[j].email]} :
           inbox' = inbox \cup accepted
    /\ job' = [job EXCEPT ![j].pc = IF job[j].tries < MaxAttempts THEN "QUEUED" ELSE "DONE"]
    /\ UNCHANGED <<rows, request, history>>

Followed(mail, purpose) ==
    [purpose |-> purpose, token |-> mail.token, to |-> mail.to, at |-> account.email]

(* Variant: the version the link was issued for is not compared.           *)
ResetMatchesToken(token) == link["RESET"].token = token

(* The row of this token, issued for the credentials the account has.      *)
ResetMatches(token) ==
    link["RESET"].token = token /\ link["RESET"].ver = account.ver

(* PasswordReset consume, under the user's lock.                           *)
FollowReset(mail) ==
    /\ ResetMatches(mail.token)
    /\ account.status = "ACTIVE"
    /\ changes < MaxChanges
    /\ changes' = changes + 1
    /\ account' = [account EXCEPT !.ver = @ + 1]
    /\ session' = RevokeAll({})
    /\ link' = [link EXCEPT !["RESET"] = NoLink]
    /\ proofs' = proofs \cup {Followed(mail, "RESET")}
    /\ UNCHANGED <<factor, request, job, inbox, spent>>

(* EmailVerification consume, under the user's lock.                       *)
FollowVerification(mail) ==
    /\ link["VERIFY"].token = mail.token
    /\ account' = [account EXCEPT !.verified = TRUE]
    /\ link' = [link EXCEPT !["VERIFY"] = NoLink]
    /\ proofs' = proofs \cup {Followed(mail, "VERIFY")}
    /\ UNCHANGED <<factor, session, request, job, inbox, changes, spent>>

-----------------------------------------------------------------------------
Entering(r) ==
    \/ Authenticate(r) \/ ConfirmByTotp(r) \/ FallBackToRecovery(r)
    \/ \E c \in Codes : ConsumeRecovery(r, c)
    \/ RefuseRecovery(r) \/ Reactivate(r) \/ IssueTokens(r) \/ CreateSession(r)
    \/ \E s \in Sessions : ReadForRefresh(r, s)
    \/ Rotate(r)

Changing(r) ==
    \/ \E op \in AuthenticatedOps, s \in Sessions : Arrive(r, op, s)
    \/ ChangeCredentials(r) \/ Deactivate(r)
    \/ \E used \in SUBSET Codes : DisableFactor(r, used)
    \/ RefuseDisable(r)
    \/ Logout(r) \/ RevokeOthers(r)
    \/ ReadDestination(r) \/ \E j \in Jobs : RequestVerification(r, j)

Mailing(j) ==
    \/ \E e \in Emails : RequestReset(j, e)
    \/ IssueLink(j) \/ SendLink(j) \/ FailSend(j)

Next ==
    \/ \E r \in Requests : Entering(r) \/ Changing(r)
    \/ \E j \in Jobs : Mailing(j)
    \/ \E mail \in inbox : FollowReset(mail) \/ FollowVerification(mail)
    \/ BeginFactor
    \/ \E fresh \in SUBSET Codes : ConfirmFactor(fresh)

Spec == Init /\ [][Next]_vars

-----------------------------------------------------------------------------
Pcs == {"IDLE", "FACTOR", "RECOVERY", "REACTIVATE", "ISSUE", "CREATE", "ROTATE",
        "ENQUEUE", "DONE"} \cup AuthenticatedOps
Mails == [token : Tokens, to : Emails]

TypeOK ==
    /\ account \in [status : {"ACTIVE", "DEACTIVATED"}, ver : Versions, email : Emails,
                    verified : BOOLEAN]
    /\ factor \in [state : {"NONE", "PENDING", "ENABLED"}, codes : SUBSET Codes]
    /\ session \in [Sessions -> [state : {"NONE", "LIVE", "REVOKED"}, ver : Versions,
                                 born : Versions]]
    /\ request \in [Requests -> [pc : Pcs, back : BOOLEAN, ver : Versions, born : Versions,
                                 of : Sessions, email : Emails \cup {None}]]
    /\ job \in [Jobs -> [pc : {"FREE", "QUEUED", "SEND", "DONE"}, purpose : {"RESET", "VERIFY"},
                         email : Emails \cup {None}, tries : 0 .. MaxAttempts,
                         born : Versions]]
    /\ link \in [{"RESET", "VERIFY"} -> [token : Tokens \cup {None}, ver : Versions]]
    /\ inbox \subseteq Mails
    /\ changes \in Versions
    /\ spent \in [Codes -> Nat]
    /\ proofs \subseteq [purpose : {"RESET", "VERIFY"}, token : Tokens, to : Emails, at : Emails]

(* A change of password, e-mail or second factor ends everything signed    *)
(* before it: the tokens of a session that is accepted were signed from    *)
(* the account as it is since the last change, even if its creation or a   *)
(* refresh of it was under way while the change committed.  It does not    *)
(* say that the password of its login is the present one: a login compares *)
(* the password first, and issueAuthResponse reads the account anew.       *)
UsableIsCurrent ==
    \A s \in Sessions : Usable(s) => session[s].born = changes

(* A recovery code confirms one login or one removal of the factor, even   *)
(* if several present it at once or the factor is enrolled anew meanwhile. *)
RecoveryCodeOnce ==
    \A c \in Codes : spent[c] <= 1

(* A link acts on an account only under the address it was mailed to, and  *)
(* an address counts as verified only after a link mailed to it, whatever  *)
(* e-mail changes, late jobs and repeated attempts came between.           *)
LinksProveTheAddress ==
    /\ \A p \in proofs : p.to = p.at
    /\ account.verified =>
           \E p \in proofs : p.purpose = "VERIFY" /\ p.at = account.email

(* Of the links mailed for one purpose that of the newest request works:   *)
(* late attempts of older jobs never replace it.                           *)
NewestLinkWorks ==
    \A mail \in inbox :
        LET j == mail.token[1]
            purpose == job[j].purpose
        IN  (/\ mail.token[2] = job[j].tries
             /\ job[j].born = changes
             /\ \A i \in Jobs : i > j /\ job[i].purpose = purpose => job[i].tries = 0
             /\ \A p \in proofs : p.token # mail.token)
            => link[purpose].token = mail.token
=============================================================================
