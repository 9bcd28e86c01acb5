-------------------------- MODULE AccountAuthProofs --------------------------
(***************************************************************************)
(* Proofs about AccountAuth for any requests, addresses, recovery codes    *)
(* and mail jobs, and any bounds on attempts and changes.                  *)
(***************************************************************************)
EXTENDS AccountAuth, TLAPS

-----------------------------------------------------------------------------
(* The inductive invariant.                                                *)

(* The version of the account counts its changes, and the version of a     *)
(* token is the number of changes at its issue.                            *)
VersionsAreDates ==
    /\ account.ver = changes
    /\ \A s \in Sessions : session[s].ver = session[s].born

(* What a request knows at each of its awaits; the session it creates is   *)
(* new, and a session it rotates keeps the version that was read of it.    *)
RequestsAreSound ==
    \A r \in Requests :
        /\ request[r].pc # "DONE" => session[r].state = "NONE"
        /\ request[r].pc = "CREATE" => request[r].ver = request[r].born
        /\ request[r].pc = "ROTATE" =>
             /\ session[request[r].of].state # "NONE"
             /\ session[request[r].of].ver = request[r].ver
        /\ request[r].pc \in {"CHANGE_EMAIL", "ENQUEUE"} => request[r].email \in Emails

(* A stored recovery code has confirmed nothing yet.                       *)
StoredCodesUnspent ==
    \A c \in Codes : spent[c] <= 1 /\ (c \in factor.codes => spent[c] = 0)

(* What a mail job has behind it at each of its states.                    *)
JobsAreSound ==
    \A j \in Jobs :
        /\ job[j].pc = "FREE" => job[j].tries = 0
        /\ job[j].pc # "FREE" => job[j].email \in Emails
        /\ job[j].pc = "QUEUED" => job[j].tries < MaxAttempts
        /\ job[j].pc = "SEND" => job[j].tries > 0
        /\ job[j].born <= changes

(* The purpose and the address of a started job.                           *)
IssuedFor(token, purpose, email) ==
    /\ job[token[1]].pc # "FREE"
    /\ job[token[1]].purpose = purpose
    /\ job[token[1]].email = email

(* A mail went to the address of its job.  A stored verification link, and *)
(* a stored reset link of the account's version, were issued for the       *)
(* address the account has.                                                *)
LinksAreAddressed ==
    /\ \A mail \in inbox :
         job[mail.token[1]].pc # "FREE" /\ job[mail.token[1]].email = mail.to
    /\ link["RESET"].ver <= account.ver
    /\ link["RESET"].token # None /\ link["RESET"].ver = account.ver =>
         IssuedFor(link["RESET"].token, "RESET", account.email)
    /\ link["VERIFY"].token # None =>
         IssuedFor(link["VERIFY"].token, "VERIFY", account.email)

(* The link of the newest job that issued one is the stored one, until it  *)
(* is followed or the credentials change.                                  *)
Newest(j) ==
    /\ job[j].tries > 0
    /\ job[j].born = changes
    /\ \A i \in Jobs : i > j /\ job[i].purpose = job[j].purpose => job[i].tries = 0
    /\ \A p \in proofs : p.token # <<j, job[j].tries>>

NewestIsStored ==
    \A j \in Jobs : Newest(j) => link[job[j].purpose].token = <<j, job[j].tries>>

IInv ==
    /\ TypeOK
    /\ VersionsAreDates
    /\ RequestsAreSound
    /\ StoredCodesUnspent
    /\ JobsAreSound
    /\ LinksAreAddressed
    /\ LinksProveTheAddress
    /\ NewestIsStored

-----------------------------------------------------------------------------
(* Rows.                                                                   *)

RequestRows == [pc : Pcs, back : BOOLEAN, ver : Versions, born : Versions, of : Sessions,
                email : Emails \cup {None}]
SessionRows == [state : {"NONE", "LIVE", "REVOKED"}, ver : Versions, born : Versions]

LEMMA RestingTypes ==
    /\ Idle \in RequestRows /\ Idle.pc = "IDLE" /\ Done \in RequestRows /\ Done.pc = "DONE"
    <1>1. 0 \in Versions /\ "IDLE" \in Pcs /\ "DONE" \in Pcs /\ Registered \in Sessions
        BY NumbersAssumption DEF Pcs, Versions, Sessions
    <1>2. Idle \in RequestRows /\ Idle.pc = "IDLE"
        BY <1>1 DEF Idle, RequestRows
    <1>3. Done \in RequestRows /\ Done.pc = "DONE"
        BY <1>1, <1>2 DEF Done, RequestRows
    <1> QED  BY <1>2, <1>3

(* A request moves on by itself.                                           *)
LEMMA RequestMoves ==
    ASSUME TypeOK, RequestsAreSound, NEW r \in Requests, NEW q \in RequestRows,
           request' = [request EXCEPT ![r] = q], session' = session,
           request[r].pc # "DONE",
           q.pc = "CREATE" => q.ver = q.born,
           q.pc = "ROTATE" => session[q.of].state # "NONE" /\ session[q.of].ver = q.ver,
           q.pc \in {"CHANGE_EMAIL", "ENQUEUE"} => q.email \in Emails
    PROVE  request' \in [Requests -> RequestRows] /\ RequestsAreSound'
    <1>1. request' \in [Requests -> RequestRows]
        BY DEF TypeOK, RequestRows
    <1>2. \A o \in Requests : request'[o] = IF o = r THEN q ELSE request[o]
        BY DEF TypeOK
    <1>3. RequestsAreSound'
        BY <1>2 DEF RequestsAreSound
    <1> QED  BY <1>1, <1>3

(* It ends; sessions are revoked at most.                                  *)
OnlyRevoked ==
    /\ session' \in [Sessions -> SessionRows]
    /\ \A s \in Sessions :
         /\ session'[s].ver = session[s].ver /\ session'[s].born = session[s].born
         /\ session'[s].state = session[s].state
              \/ (session[s].state = "LIVE" /\ session'[s].state = "REVOKED")

LEMMA RevokeAllRevokes ==
    ASSUME TypeOK, NEW keep, session' = RevokeAll(keep)
    PROVE  OnlyRevoked
    <1>1. \A s \in Sessions : [session[s] EXCEPT !.state = "REVOKED"] \in SessionRows
        BY DEF TypeOK, SessionRows
    <1> QED  BY <1>1 DEF TypeOK, RevokeAll, OnlyRevoked, SessionRows

LEMMA RequestEnds ==
    ASSUME TypeOK, RequestsAreSound, VersionsAreDates, NEW r \in Requests,
           Finish(r), session' = session \/ OnlyRevoked
    PROVE  /\ request' \in [Requests -> RequestRows]
           /\ session' \in [Sessions -> SessionRows]
           /\ RequestsAreSound'
           /\ \A s \in Sessions : session'[s].ver = session'[s].born
    <1>1. request' \in [Requests -> RequestRows] /\ session' \in [Sessions -> SessionRows]
        BY RestingTypes DEF TypeOK, RequestRows, SessionRows, Finish, OnlyRevoked
    <1>2. \A o \in Requests : request'[o] = IF o = r THEN Done ELSE request[o]
        BY DEF TypeOK, Finish
    <1>3. \A s \in Sessions :
            /\ session'[s].ver = session[s].ver /\ session'[s].born = session[s].born
            /\ session'[s].state = session[s].state
                 \/ (session[s].state = "LIVE" /\ session'[s].state = "REVOKED")
        BY DEF OnlyRevoked
    <1>4. \A o \in Requests : request[o].of \in Sessions /\ o \in Sessions
        BY DEF TypeOK, Sessions
    <1>5. RequestsAreSound'
        BY <1>2, <1>3, <1>4, RestingTypes DEF RequestsAreSound
    <1>6. \A s \in Sessions : session'[s].ver = session'[s].born
        BY <1>3 DEF VersionsAreDates
    <1> QED  BY <1>1, <1>5, <1>6

-----------------------------------------------------------------------------
(* Steps of requests that write no row.                                    *)

LEMMA RequestOnly ==
    ASSUME IInv, NEW r \in Requests, NEW q \in RequestRows,
           request' = [request EXCEPT ![r] = q], request[r].pc # "DONE",
           q.pc = "CREATE" => q.ver = q.born,
           q.pc = "ROTATE" => session[q.of].state # "NONE" /\ session[q.of].ver = q.ver,
           q.pc \in {"CHANGE_EMAIL", "ENQUEUE"} => q.email \in Emails,
           UNCHANGED <<rows, job, inbox, history>>
    PROVE  IInv'
    <1>1. request' \in [Requests -> RequestRows] /\ RequestsAreSound'
        BY RequestMoves DEF IInv, rows
    <1>2. TypeOK'
        BY <1>1 DEF IInv, TypeOK, rows, history, RequestRows
    <1>3. VersionsAreDates' /\ StoredCodesUnspent' /\ JobsAreSound' /\ LinksAreAddressed'
        BY DEF IInv, VersionsAreDates, StoredCodesUnspent, JobsAreSound, LinksAreAddressed,
               IssuedFor, rows, history
    <1>4. LinksProveTheAddress' /\ NewestIsStored'
        BY DEF IInv, LinksProveTheAddress, NewestIsStored, Newest, rows, history
    <1> QED  BY <1>1, <1>2, <1>3, <1>4 DEF IInv

LEMMA QuietStep ==
    ASSUME IInv, NEW r \in Requests,
           \/ Authenticate(r) \/ ConfirmByTotp(r) \/ FallBackToRecovery(r)
           \/ RefuseRecovery(r) \/ IssueTokens(r) \/ RefuseDisable(r) \/ ReadDestination(r)
           \/ \E s \in Sessions : ReadForRefresh(r, s)
           \/ \E op \in AuthenticatedOps, s \in Sessions : Arrive(r, op, s)
    PROVE  IInv'
    <1>1. /\ request \in [Requests -> RequestRows]
          /\ account.ver \in Versions /\ account.email \in Emails /\ changes \in Versions
          /\ account.ver = changes
        BY DEF IInv, TypeOK, RequestRows, VersionsAreDates
    <1>2. ASSUME NEW pc \in {"FACTOR", "REACTIVATE", "ISSUE", "RECOVERY"}, Step(r, pc),
                 request[r].pc # "DONE", UNCHANGED <<rows, job, inbox, history>>
          PROVE  IInv'
        <2> DEFINE q == [request[r] EXCEPT !.pc = pc]
        <2>1. q \in RequestRows /\ q.pc = pc
            BY <1>1 DEF RequestRows, Pcs
        <2>2. request' = [request EXCEPT ![r] = q]
            BY <1>2 DEF Step
        <2> HIDE DEF q
        <2> QED  BY <1>2, <2>1, <2>2, RequestOnly
    <1>3. ASSUME Finish(r), request[r].pc # "DONE", UNCHANGED <<rows, job, inbox, history>>
          PROVE  IInv'
        BY <1>3, RestingTypes, RequestOnly DEF Finish
    <1>4. CASE Authenticate(r)
        <2>1. PICK back \in BOOLEAN : back = (account.status = "DEACTIVATED")
            OBVIOUS
        <2> DEFINE q == [Idle EXCEPT !.pc = "FACTOR", !.back = back]
        <2>2. q \in RequestRows /\ q.pc = "FACTOR"
            BY RestingTypes DEF RequestRows, Pcs
        <2>3. request' = [request EXCEPT ![r] = q]
            BY <1>4, <2>1 DEF Authenticate
        <2> HIDE DEF q
        <2> QED  BY <1>4, <2>2, <2>3, RequestOnly DEF Authenticate
    <1>5. CASE ConfirmByTotp(r) \/ FallBackToRecovery(r)
        BY <1>2, <1>5 DEF ConfirmByTotp, FallBackToRecovery, AfterFactor
    <1>6. CASE RefuseRecovery(r) \/ RefuseDisable(r)
        BY <1>3, <1>6 DEF RefuseRecovery, RefuseDisable
    <1>7. CASE IssueTokens(r)
        <2> DEFINE q == [request[r] EXCEPT !.pc = "CREATE", !.ver = account.ver, !.born = changes]
        <2>1. q \in RequestRows /\ q.pc = "CREATE" /\ q.ver = q.born
            BY <1>1 DEF RequestRows, Pcs
        <2>2. CASE request' = [request EXCEPT ![r] = q]
            <3> HIDE DEF q
            <3> QED  BY <1>7, <2>1, <2>2, RequestOnly DEF IssueTokens
        <2> QED  BY <1>1, <1>3, <1>7, <2>2 DEF IssueTokens, RequestRows
    <1>8. ASSUME NEW s \in Sessions, ReadForRefresh(r, s)
          PROVE  IInv'
        <2> DEFINE q == [Idle EXCEPT !.pc = "ROTATE", !.of = s, !.ver = account.ver]
        <2>1. q \in RequestRows /\ q.pc = "ROTATE" /\ q.of = s /\ q.ver = account.ver
            BY <1>1, RestingTypes DEF RequestRows, Pcs
        <2>2. session[s].state # "NONE" /\ session[s].ver = account.ver
            BY <1>8 DEF ReadForRefresh, AcceptsRefresh
        <2>3. request' = [request EXCEPT ![r] = q]
            BY <1>8 DEF ReadForRefresh
        <2> HIDE DEF q
        <2> QED  BY <1>8, <2>1, <2>2, <2>3, RequestOnly DEF ReadForRefresh
    <1>9. ASSUME NEW op \in AuthenticatedOps, NEW s \in Sessions, Arrive(r, op, s)
          PROVE  IInv'
        <2>1. PICK e \in IF op = "CHANGE_EMAIL" THEN Emails \ {account.email} ELSE {None} :
                     request' = [request EXCEPT ![r] = [Idle EXCEPT !.pc = op, !.of = s, !.email = e]]
            BY <1>9 DEF Arrive
        <2> DEFINE q == [Idle EXCEPT !.pc = op, !.of = s, !.email = e]
        <2>2. q \in RequestRows /\ q.pc = op /\ q.email = e
            BY <1>9, <2>1, RestingTypes DEF RequestRows, Pcs
        <2>3. request' = [request EXCEPT ![r] = q]
            BY <2>1
        <2> HIDE DEF q
        <2> QED  BY <1>9, <2>1, <2>2, <2>3, RequestOnly DEF Arrive, AuthenticatedOps
    <1>10. CASE ReadDestination(r)
        <2> DEFINE q == [Idle EXCEPT !.pc = "ENQUEUE", !.email = account.email]
        <2>1. q \in RequestRows /\ q.pc = "ENQUEUE" /\ q.email \in Emails
            BY <1>1, RestingTypes DEF RequestRows, Pcs
        <2>2. request' = [request EXCEPT ![r] = q]
            BY <1>10 DEF ReadDestination
        <2> HIDE DEF q
        <2> QED  BY <1>10, <2>1, <2>2, RequestOnly DEF ReadDestination
    <1> QED  BY <1>4, <1>5, <1>6, <1>7, <1>8, <1>9, <1>10

-----------------------------------------------------------------------------
(* Steps that write sessions, the status or the second factor.             *)

LEMMA MailsUnaffected ==
    ASSUME IInv, UNCHANGED <<link, job, inbox, changes, proofs>>,
           account'.ver = account.ver, account'.email = account.email,
           account'.verified = account.verified
    PROVE  JobsAreSound' /\ LinksAreAddressed' /\ LinksProveTheAddress' /\ NewestIsStored'
    <1>1. JobsAreSound' /\ LinksAreAddressed'
        BY DEF IInv, JobsAreSound, LinksAreAddressed, IssuedFor
    <1>2. LinksProveTheAddress' /\ NewestIsStored'
        BY DEF IInv, LinksProveTheAddress, NewestIsStored, Newest
    <1> QED  BY <1>1, <1>2

LEMMA SessionStep ==
    ASSUME IInv, NEW r \in Requests,
           Reactivate(r) \/ CreateSession(r) \/ Rotate(r) \/ Deactivate(r)
             \/ Logout(r) \/ RevokeOthers(r)
    PROVE  IInv'
    <1> USE DEF IInv
    <1>1. /\ request \in [Requests -> RequestRows] /\ session \in [Sessions -> SessionRows]
          /\ r \in Sessions /\ request[r].of \in Sessions
        BY DEF TypeOK, RequestRows, SessionRows, Sessions
    <1>2. ASSUME TypeOK', VersionsAreDates', RequestsAreSound',
                 UNCHANGED <<factor, link, job, inbox, history>>,
                 account' = account \/ \E st : account' = [account EXCEPT !.status = st]
          PROVE  IInv'
        <2>1. /\ account'.ver = account.ver /\ account'.email = account.email
              /\ account'.verified = account.verified
            BY <1>2 DEF TypeOK
        <2>2. StoredCodesUnspent'
            BY <1>2 DEF StoredCodesUnspent, history
        <2> QED  BY <1>2, <2>1, <2>2, MailsUnaffected DEF history
    <1>3. CASE Reactivate(r)
        <2>1. CASE account.status = "DEACTIVATED"
            <3> DEFINE q == [request[r] EXCEPT !.pc = "ISSUE"]
            <3>1. q \in RequestRows /\ q.pc = "ISSUE"
                BY <1>1 DEF RequestRows, Pcs
            <3>2. request' = [request EXCEPT ![r] = q] /\ request[r].pc # "DONE"
                BY <1>3, <2>1 DEF Reactivate, Step
            <3> HIDE DEF q
            <3>3. request' \in [Requests -> RequestRows] /\ RequestsAreSound'
                BY <1>3, <3>1, <3>2, RequestMoves DEF Reactivate
            <3>4. TypeOK' /\ VersionsAreDates'
                BY <1>3, <2>1, <3>3
                   DEF Reactivate, TypeOK, VersionsAreDates, history, RequestRows
            <3> QED  BY <1>2, <1>3, <2>1, <3>3, <3>4 DEF Reactivate
        <2>2. CASE account.status # "DEACTIVATED"
            <3>1. Finish(r) /\ UNCHANGED <<account, session>>
                BY <1>3, <2>2 DEF Reactivate
            <3>2. TypeOK' /\ VersionsAreDates' /\ RequestsAreSound'
                BY <1>3, <3>1, RequestEnds
                   DEF Reactivate, TypeOK, VersionsAreDates, history, RequestRows
            <3> QED  BY <1>2, <1>3, <3>1, <3>2 DEF Reactivate
        <2> QED  BY <2>1, <2>2
    <1>4. CASE CreateSession(r)
        <2> DEFINE new == [state |-> "LIVE", ver |-> request[r].ver, born |-> request[r].born]
        <2>1. new \in SessionRows /\ session' = [session EXCEPT ![r] = new]
            BY <1>1, <1>4 DEF CreateSession, RequestRows, SessionRows
        <2>2. request' = [request EXCEPT ![r] = Done]
            BY <1>4 DEF CreateSession, Finish
        <2>3. new.ver = new.born /\ session[r].state = "NONE"
            BY <1>4 DEF CreateSession, RequestsAreSound
        <2>4. TypeOK'
            BY <1>1, <1>4, <2>1, <2>2, RestingTypes
               DEF TypeOK, CreateSession, history, RequestRows, SessionRows
        <2>5. \A s \in Sessions : session'[s] = IF s = r THEN new ELSE session[s]
            BY <1>1, <2>1
        <2>6. VersionsAreDates'
            BY <1>4, <2>3, <2>5 DEF VersionsAreDates, CreateSession, history
        <2>7. \A o \in Requests : request'[o] = IF o = r THEN Done ELSE request[o]
            BY <1>1, <2>2
        <2>8. \A o \in Requests : o \in Sessions /\ request[o].of \in Sessions
            BY DEF TypeOK, Sessions
        <2> HIDE DEF new
        <2>9. RequestsAreSound'
            BY <2>3, <2>5, <2>7, <2>8, RestingTypes DEF RequestsAreSound
        <2> QED  BY <1>2, <1>4, <2>4, <2>6, <2>9 DEF CreateSession
    <1>5. CASE Rotate(r)
        <2>1. session' = session
            <3> DEFINE s == request[r].of
            <3>1. session[s] \in SessionRows /\ session[s].ver = request[r].ver
                BY <1>1, <1>5 DEF Rotate, RequestsAreSound
            <3>2. [session[s] EXCEPT !.ver = request[r].ver] = session[s]
                BY <3>1 DEF SessionRows
            <3>3. [session EXCEPT ![s].ver = request[r].ver] = session
                BY <1>1, <3>2
            <3> QED  BY <1>5, <3>3 DEF Rotate
        <2>2. Finish(r)
            BY <1>5 DEF Rotate
        <2>3. TypeOK' /\ VersionsAreDates' /\ RequestsAreSound'
            BY <1>5, <2>1, <2>2, RequestEnds
               DEF Rotate, TypeOK, VersionsAreDates, history, RequestRows
        <2> QED  BY <1>2, <1>5, <2>3 DEF Rotate
    <1>6. CASE Deactivate(r) \/ Logout(r) \/ RevokeOthers(r)
        <2>1. Finish(r)
            BY <1>6 DEF Deactivate, Logout, RevokeOthers
        <2>2. session' = session \/ OnlyRevoked
            <3>1. CASE Logout(r)
                <4>1. PICK s \in Sessions :
                        session' = [session EXCEPT ![s].state = IF @ = "LIVE" THEN "REVOKED" ELSE @]
                    BY <3>1 DEF Logout
                <4>2. CASE session[s].state = "LIVE"
                    <5> DEFINE new == [session[s] EXCEPT !.state = "REVOKED"]
                    <5>1. session' = [session EXCEPT ![s] = new]
                        BY <4>1, <4>2
                    <5>2. /\ new \in SessionRows /\ new.ver = session[s].ver
                          /\ new.born = session[s].born /\ new.state = "REVOKED"
                        BY <1>1 DEF SessionRows
                    <5> HIDE DEF new
                    <5> QED  BY <1>1, <4>2, <5>1, <5>2 DEF OnlyRevoked
                <4>3. CASE session[s].state # "LIVE"
                    <5>1. session' = [session EXCEPT ![s] = [session[s] EXCEPT !.state = session[s].state]]
                        BY <4>1, <4>3
                    <5>2. [session[s] EXCEPT !.state = session[s].state] = session[s]
                        BY <1>1 DEF SessionRows
                    <5> QED  BY <1>1, <5>1, <5>2
                <4> QED  BY <4>2, <4>3
            <3> QED  BY <1>6, <3>1, RevokeAllRevokes DEF Deactivate, RevokeOthers
        <2>3. account' \in [status : {"ACTIVE", "DEACTIVATED"}, ver : {account.ver},
                            email : Emails, verified : BOOLEAN]
            BY <1>6 DEF TypeOK, Deactivate, Logout, RevokeOthers
        <2>4. account' = account \/ account' = [account EXCEPT !.status = "DEACTIVATED"]
            BY <1>6 DEF Deactivate, Logout, RevokeOthers
        <2>5. UNCHANGED <<factor, link, job, inbox, history>>
            BY <1>6 DEF Deactivate, Logout, RevokeOthers
        <2>6. TypeOK'
            BY <2>1, <2>2, <2>3, <2>5, RequestEnds DEF TypeOK, history, RequestRows, SessionRows
        <2>7. VersionsAreDates' /\ RequestsAreSound'
            BY <2>1, <2>2, <2>3, <2>5, RequestEnds DEF VersionsAreDates, history
        <2> QED  BY <1>2, <2>4, <2>5, <2>6, <2>7
    <1> QED  BY <1>3, <1>4, <1>5, <1>6

LEMMA FactorStep ==
    ASSUME IInv,
           \/ \E r \in Requests, c \in Codes : ConsumeRecovery(r, c)
           \/ BeginFactor
           \/ \E fresh \in SUBSET Codes : ConfirmFactor(fresh)
    PROVE  IInv'
    <1> USE DEF IInv
    <1>1. JobsAreSound' /\ LinksAreAddressed' /\ LinksProveTheAddress' /\ NewestIsStored'
        BY MailsUnaffected DEF ConsumeRecovery, BeginFactor, ConfirmFactor, history
    <1>2. CASE BeginFactor \/ \E fresh \in SUBSET Codes : ConfirmFactor(fresh)
        <2>1. TypeOK'
            BY <1>2 DEF TypeOK, BeginFactor, ConfirmFactor, history
        <2>2. VersionsAreDates' /\ RequestsAreSound'
            BY <1>2 DEF VersionsAreDates, RequestsAreSound, BeginFactor, ConfirmFactor, history
        <2>3. StoredCodesUnspent'
            BY <1>2 DEF StoredCodesUnspent, BeginFactor, ConfirmFactor, history
        <2> QED  BY <1>1, <2>1, <2>2, <2>3
    <1>3. ASSUME NEW r \in Requests, NEW c \in Codes, ConsumeRecovery(r, c)
          PROVE  IInv'
        <2>1. PICK pc \in {"REACTIVATE", "ISSUE"} : pc = AfterFactor(r)
            BY DEF AfterFactor
        <2> DEFINE q == [request[r] EXCEPT !.pc = pc]
        <2>2. q \in RequestRows /\ q.pc = pc
            <3>1. request[r] \in RequestRows /\ pc \in Pcs
                BY DEF TypeOK, RequestRows, Pcs
            <3> QED  BY <3>1 DEF RequestRows
        <2>3. request' = [request EXCEPT ![r] = q] /\ request[r].pc # "DONE"
            BY <1>3, <2>1 DEF ConsumeRecovery, Step
        <2> HIDE DEF q
        <2>4. request' \in [Requests -> RequestRows] /\ RequestsAreSound'
            BY <1>3, <2>2, <2>3, RequestMoves DEF ConsumeRecovery
        <2>5. TypeOK'
            <3>1. factor' \in [state : {"NONE", "PENDING", "ENABLED"}, codes : SUBSET Codes]
                BY <1>3 DEF TypeOK, ConsumeRecovery, CodesLeft
            <3>2. spent' \in [Codes -> Nat]
                BY <1>3 DEF TypeOK, ConsumeRecovery
            <3> QED  BY <1>3, <2>4, <3>1, <3>2 DEF TypeOK, RequestRows, ConsumeRecovery
        <2>6. VersionsAreDates'
            BY <1>3 DEF VersionsAreDates, ConsumeRecovery
        <2>7. StoredCodesUnspent'
            BY <1>3 DEF StoredCodesUnspent, ConsumeRecovery, CodesLeft, TypeOK
        <2> QED  BY <1>1, <2>4, <2>5, <2>6, <2>7
    <1> QED  BY <1>2, <1>3

-----------------------------------------------------------------------------
(* Changes of the credentials.                                             *)

Purposes == {"RESET", "VERIFY"}
LinkRows == [token : Tokens \cup {None}, ver : Versions]

LEMMA NoLinkTypes == NoLink \in LinkRows /\ NoLink.token = None /\ NoLink.ver = 0
    BY NumbersAssumption DEF NoLink, LinkRows, Versions

(* A change outdates every job and every reset link; an address that       *)
(* changes takes its verification link and its being verified along.       *)
LEMMA ChangeOutdates ==
    ASSUME IInv, changes < MaxChanges, changes' = changes + 1,
           account'.ver = account.ver + 1, UNCHANGED <<job, inbox>>,
           link'["RESET"] \in {link["RESET"], NoLink},
           link'["VERIFY"] \in {link["VERIFY"], NoLink},
           account'.email = account.email \/ link'["VERIFY"] = NoLink
    PROVE  JobsAreSound' /\ LinksAreAddressed' /\ NewestIsStored'
    <1> USE DEF IInv
    <1>1. /\ changes \in Nat /\ account.ver \in Nat
          /\ link["RESET"].ver \in Nat /\ link["RESET"].ver <= account.ver
          /\ \A j \in Jobs : job[j].born \in Nat /\ job[j].born <= changes
        BY NumbersAssumption DEF TypeOK, Versions, LinksAreAddressed, JobsAreSound
    <1>2. JobsAreSound'
        BY <1>1 DEF JobsAreSound
    <1>3. LinksAreAddressed'
        <2>1. link'["RESET"].ver <= account'.ver /\ link'["RESET"].ver # account'.ver
            BY <1>1, NoLinkTypes
        <2>2. link'["VERIFY"].token # None => IssuedFor(link["VERIFY"].token, "VERIFY", account.email)
            BY NoLinkTypes DEF LinksAreAddressed
        <2>3. link'["VERIFY"].token # None =>
                link'["VERIFY"].token = link["VERIFY"].token /\ account'.email = account.email
            BY NoLinkTypes
        <2> QED  BY <2>1, <2>2, <2>3 DEF LinksAreAddressed, IssuedFor
    <1>4. NewestIsStored'
        BY <1>1 DEF NewestIsStored, Newest
    <1> QED  BY <1>2, <1>3, <1>4

LEMMA ChangeStep ==
    ASSUME IInv, NEW r \in Requests,
           ChangeCredentials(r) \/ \E used \in SUBSET Codes : DisableFactor(r, used)
    PROVE  IInv'
    <1> USE DEF IInv
    <1>1. /\ Finish(r) /\ UNCHANGED <<job, inbox, proofs>>
          /\ session' = session \/ session' = RevokeAll({})
        BY DEF ChangeCredentials, DisableFactor
    <1>2. /\ request' \in [Requests -> RequestRows]
          /\ session' \in [Sessions -> SessionRows]
          /\ RequestsAreSound'
          /\ \A s \in Sessions : session'[s].ver = session'[s].born
        BY <1>1, RequestEnds, RevokeAllRevokes
    <1>3. changes < MaxChanges /\ changes \in Versions => changes + 1 \in Versions
        BY NumbersAssumption DEF Versions
    <1>4. CASE ChangeCredentials(r)
        <2>1. CASE account.status # "ACTIVE"
            <3>1. UNCHANGED <<account, session, link, changes, factor, spent>>
                BY <1>4, <2>1 DEF ChangeCredentials
            <3>2. TypeOK' /\ VersionsAreDates'
                BY <1>1, <1>2, <3>1 DEF TypeOK, VersionsAreDates, RequestRows
            <3>3. StoredCodesUnspent'
                BY <3>1 DEF StoredCodesUnspent
            <3> QED  BY <1>1, <1>2, <3>1, <3>2, <3>3, MailsUnaffected
        <2>2. CASE account.status = "ACTIVE"
            <3>1. /\ changes < MaxChanges /\ changes' = changes + 1
                  /\ account' = Changed(r) /\ link' = LinksAfter(r)
                  /\ UNCHANGED <<factor, spent>>
                BY <1>4, <2>2 DEF ChangeCredentials
            <3>2. /\ account' \in [status : {"ACTIVE"}, ver : {account.ver + 1}, email : Emails,
                                   verified : BOOLEAN]
                  /\ \/ /\ account'.email = account.email /\ account'.verified = account.verified
                        /\ link' = link
                     \/ account'.verified = FALSE /\ link' = [link EXCEPT !["VERIFY"] = NoLink]
                <4>1. CASE request[r].pc = "CHANGE_EMAIL"
                    BY <2>2, <3>1, <4>1 DEF TypeOK, Changed, LinksAfter, RequestsAreSound
                <4>2. CASE request[r].pc # "CHANGE_EMAIL"
                    BY <2>2, <3>1, <4>2 DEF TypeOK, Changed, LinksAfter
                <4> QED  BY <4>1, <4>2
            <3>3. link' \in [Purposes -> LinkRows]
                BY <3>2, NoLinkTypes DEF TypeOK, Purposes, LinkRows
            <3>4. TypeOK'
                BY <1>1, <1>2, <1>3, <3>1, <3>2, <3>3
                   DEF TypeOK, VersionsAreDates, RequestRows, SessionRows, Purposes, LinkRows
            <3>5. VersionsAreDates' /\ StoredCodesUnspent'
                BY <1>2, <3>1, <3>2 DEF VersionsAreDates, StoredCodesUnspent
            <3>6. JobsAreSound' /\ LinksAreAddressed' /\ NewestIsStored'
                <4>1. /\ link'["RESET"] \in {link["RESET"], NoLink}
                      /\ link'["VERIFY"] \in {link["VERIFY"], NoLink}
                      /\ account'.email = account.email \/ link'["VERIFY"] = NoLink
                    BY <3>2 DEF TypeOK
                <4> QED  BY <1>1, <3>1, <3>2, <4>1, ChangeOutdates
            <3>7. LinksProveTheAddress'
                BY <1>1, <3>2 DEF LinksProveTheAddress
            <3> QED  BY <1>2, <3>4, <3>5, <3>6, <3>7
        <2> QED  BY <2>1, <2>2
    <1>5. ASSUME NEW used \in SUBSET Codes, DisableFactor(r, used)
          PROVE  IInv'
        <2>1. /\ changes < MaxChanges /\ changes' = changes + 1
              /\ account' = [account EXCEPT !.ver = @ + 1]
              /\ factor' = [state |-> "NONE", codes |-> {}]
              /\ used \subseteq factor.codes
              /\ spent' = [c \in Codes |-> IF c \in used THEN spent[c] + 1 ELSE spent[c]]
              /\ link' = link
            BY <1>5 DEF DisableFactor
        <2>2. /\ account'.ver = account.ver + 1 /\ account'.email = account.email
              /\ account'.verified = account.verified
              /\ account' \in [status : {"ACTIVE", "DEACTIVATED"}, ver : {account.ver + 1},
                               email : Emails, verified : BOOLEAN]
            BY <2>1 DEF TypeOK
        <2>3. spent' \in [Codes -> Nat]
            BY <2>1 DEF TypeOK
        <2>4. factor' \in [state : {"NONE", "PENDING", "ENABLED"}, codes : SUBSET Codes]
            BY <2>1
        <2>5. TypeOK'
            BY <1>1, <1>2, <1>3, <2>1, <2>2, <2>3, <2>4
               DEF TypeOK, VersionsAreDates, RequestRows, SessionRows
        <2>6. VersionsAreDates'
            BY <1>2, <2>1, <2>2 DEF VersionsAreDates
        <2>7. StoredCodesUnspent'
            BY <2>1 DEF StoredCodesUnspent, TypeOK
        <2>8. JobsAreSound' /\ LinksAreAddressed' /\ NewestIsStored'
            BY <1>1, <2>1, <2>2, ChangeOutdates
        <2>9. LinksProveTheAddress'
            BY <1>1, <2>2 DEF LinksProveTheAddress
        <2> QED  BY <1>2, <2>5, <2>6, <2>7, <2>8, <2>9
    <1> QED  BY <1>4, <1>5

LEMMA FollowStep ==
    ASSUME IInv, NEW mail \in inbox, FollowReset(mail) \/ FollowVerification(mail)
    PROVE  IInv'
    <1> USE DEF IInv
    <1>1. /\ mail \in Mails /\ mail.token \in Tokens /\ mail.to \in Emails /\ mail.token # None
          /\ account.email \in Emails
        BY NoneAssumption DEF TypeOK, Mails
    <1>2. job[mail.token[1]].email = mail.to
        BY DEF LinksAreAddressed
    <1>3. ASSUME NEW purpose \in Purposes, proofs' = proofs \cup {Followed(mail, purpose)},
                 link[purpose].token = mail.token,
                 purpose = "VERIFY" \/ link[purpose].ver = account.ver
          PROVE  /\ mail.to = account.email
                 /\ proofs' \subseteq [purpose : Purposes, token : Tokens, to : Emails, at : Emails]
                 /\ \A p \in proofs' : p.to = p.at
        <2>1. mail.to = account.email
            BY <1>1, <1>2, <1>3 DEF LinksAreAddressed, IssuedFor, Purposes
        <2> QED  BY <1>1, <1>3, <2>1 DEF Followed, TypeOK, Purposes, LinksProveTheAddress
    <1>4. CASE FollowReset(mail)
        <2>1. /\ changes < MaxChanges /\ changes' = changes + 1
              /\ account' = [account EXCEPT !.ver = @ + 1]
              /\ session' = RevokeAll({})
              /\ link' = [link EXCEPT !["RESET"] = NoLink]
              /\ UNCHANGED <<factor, request, job, inbox, spent>>
            BY <1>4 DEF FollowReset
        <2>2. /\ account'.ver = account.ver + 1 /\ account'.email = account.email
              /\ account'.verified = account.verified
              /\ account' \in [status : {"ACTIVE", "DEACTIVATED"}, ver : {account.ver + 1},
                               email : Emails, verified : BOOLEAN]
            BY <2>1 DEF TypeOK
        <2>3. changes' \in Versions
            BY <2>1, NumbersAssumption DEF TypeOK, Versions
        <2>4. link' \in [Purposes -> LinkRows] /\ link'["RESET"] = NoLink /\ link'["VERIFY"] = link["VERIFY"]
            BY <2>1, NoLinkTypes DEF TypeOK, Purposes, LinkRows
        <2>5. /\ proofs' \subseteq [purpose : Purposes, token : Tokens, to : Emails, at : Emails]
              /\ \A p \in proofs' : p.to = p.at
            BY <1>3, <1>4 DEF FollowReset, ResetMatches, Purposes
        <2>6. OnlyRevoked
            BY <2>1, RevokeAllRevokes
        <2>7. TypeOK'
            BY <2>1, <2>2, <2>3, <2>4, <2>5, <2>6
               DEF TypeOK, VersionsAreDates, OnlyRevoked, SessionRows, Purposes, LinkRows
        <2>8. VersionsAreDates'
            BY <2>1, <2>2, <2>6 DEF VersionsAreDates, OnlyRevoked
        <2>9. RequestsAreSound'
            <3>1. \A o \in Requests : o \in Sessions /\ request[o].of \in Sessions
                BY DEF TypeOK, Sessions
            <3> QED  BY <2>1, <2>6, <3>1 DEF RequestsAreSound, OnlyRevoked
        <2>10. StoredCodesUnspent'
            BY <2>1 DEF StoredCodesUnspent
        <2>11. JobsAreSound' /\ LinksAreAddressed' /\ NewestIsStored'
            BY <2>1, <2>2, <2>4, ChangeOutdates
        <2>12. LinksProveTheAddress'
            BY <1>4, <2>2, <2>5 DEF LinksProveTheAddress, FollowReset
        <2> QED  BY <2>7, <2>8, <2>9, <2>10, <2>11, <2>12
    <1>5. CASE FollowVerification(mail)
        <2>1. /\ link["VERIFY"].token = mail.token
              /\ account' = [account EXCEPT !.verified = TRUE]
              /\ link' = [link EXCEPT !["VERIFY"] = NoLink]
              /\ proofs' = proofs \cup {Followed(mail, "VERIFY")}
              /\ UNCHANGED <<factor, session, request, job, inbox, changes, spent>>
            BY <1>5 DEF FollowVerification
        <2>2. /\ account'.ver = account.ver /\ account'.email = account.email
              /\ account' \in [status : {"ACTIVE", "DEACTIVATED"}, ver : Versions,
                               email : Emails, verified : BOOLEAN]
            BY <2>1 DEF TypeOK
        <2> DEFINE used == Followed(mail, "VERIFY")
        <2>13. /\ used \in proofs' /\ used.purpose = "VERIFY" /\ used.at = account.email
               /\ used.token = mail.token
            <3>1. used = [purpose |-> "VERIFY", token |-> mail.token, to |-> mail.to,
                          at |-> account.email]
                BY DEF Followed
            <3>2. used \in proofs'
                BY <2>1
            <3> HIDE DEF used
            <3> QED  BY <3>1, <3>2
        <2> HIDE DEF used
        <2>3. link' \in [Purposes -> LinkRows] /\ link'["VERIFY"] = NoLink /\ link'["RESET"] = link["RESET"]
            BY <2>1, NoLinkTypes DEF TypeOK, Purposes, LinkRows
        <2>4. /\ mail.to = account.email
              /\ proofs' \subseteq [purpose : Purposes, token : Tokens, to : Emails, at : Emails]
              /\ \A p \in proofs' : p.to = p.at
            BY <1>3, <2>1 DEF Purposes
        <2>5. TypeOK'
            BY <2>1, <2>2, <2>3, <2>4 DEF TypeOK, Purposes, LinkRows
        <2>6. VersionsAreDates' /\ RequestsAreSound' /\ StoredCodesUnspent' /\ JobsAreSound'
            BY <2>1, <2>2 DEF VersionsAreDates, RequestsAreSound, StoredCodesUnspent, JobsAreSound
        <2>7. LinksAreAddressed'
            BY <2>1, <2>2, <2>3, NoLinkTypes DEF LinksAreAddressed, IssuedFor
        <2>8. LinksProveTheAddress'
            <3>1. \E p \in proofs' : p.purpose = "VERIFY" /\ p.at = account.email
                BY <2>13
            <3> QED  BY <2>2, <2>4, <3>1 DEF LinksProveTheAddress
        <2>9. NewestIsStored'
            <3> SUFFICES ASSUME NEW j \in Jobs, Newest(j)'
                         PROVE  link'[job[j].purpose].token = <<j, job[j].tries>>
                BY <2>1 DEF NewestIsStored
            <3>1. Newest(j)
                BY <2>1 DEF Newest
            <3>2. link[job[j].purpose].token = <<j, job[j].tries>>
                BY <3>1 DEF NewestIsStored
            <3>3. mail.token # <<j, job[j].tries>>
                <4>1. \E p \in proofs' : p.token = mail.token
                    BY <2>13
                <4> QED  BY <2>1, <4>1 DEF Newest
            <3> QED  BY <2>1, <2>3, <3>2, <3>3 DEF TypeOK
        <2> QED  BY <2>5, <2>6, <2>7, <2>8, <2>9
    <1> QED  BY <1>4, <1>5

-----------------------------------------------------------------------------
(* The mail jobs.                                                          *)

JobRows == [pc : {"FREE", "QUEUED", "SEND", "DONE"}, purpose : Purposes,
            email : Emails \cup {None}, tries : 0 .. MaxAttempts, born : Versions]

LEMMA NoJobTypes ==
    /\ NoJob \in JobRows /\ NoJob.pc = "FREE" /\ NoJob.tries = 0 /\ NoJob.born = 0
    <1>1. 0 \in Versions /\ 0 \in 0 .. MaxAttempts
        BY NumbersAssumption DEF Versions
    <1> QED  BY <1>1 DEF NoJob, JobRows, Purposes

(* What a step of the mail queues leaves alone.                            *)
LEMMA MailStepFrame ==
    ASSUME IInv, UNCHANGED <<account, factor, session, changes, spent, proofs>>
    PROVE  VersionsAreDates' /\ StoredCodesUnspent' /\ LinksProveTheAddress'
    BY DEF IInv, VersionsAreDates, StoredCodesUnspent, LinksProveTheAddress

(* A free job has issued nothing, so whoever takes it is not the newest.   *)
LEMMA EnqueueStep ==
    ASSUME IInv, NEW j \in Jobs, NEW purpose \in Purposes, NEW email \in Emails,
           Enqueue(j, purpose, email), UNCHANGED <<rows, inbox, history>>,
           request' \in [Requests -> RequestRows] /\ RequestsAreSound'
    PROVE  IInv'
    <1> USE DEF IInv
    <1> DEFINE new == [NoJob EXCEPT !.pc = "QUEUED", !.purpose = purpose, !.email = email]
    <1>1. /\ new \in JobRows /\ new.pc = "QUEUED" /\ new.purpose = purpose
          /\ new.email = email /\ new.tries = 0 /\ new.born = 0
        BY NoJobTypes DEF JobRows
    <1>2. job' = [job EXCEPT ![j] = new] /\ job[j].pc = "FREE"
        BY DEF Enqueue
    <1> HIDE DEF new
    <1>3. \A i \in Jobs : job'[i] = IF i = j THEN new ELSE job[i]
        BY <1>2 DEF TypeOK
    <1>4. TypeOK'
        BY <1>1, <1>2 DEF TypeOK, RequestRows, JobRows, Purposes, rows, history
    <1>5. changes \in Nat /\ MaxAttempts > 0
        BY NumbersAssumption DEF TypeOK, Versions
    <1>6. JobsAreSound'
        BY <1>1, <1>3, <1>5 DEF JobsAreSound, history
    <1>7. \A i \in Jobs : job[i].pc # "FREE" => job'[i] = job[i]
        BY <1>2, <1>3
    <1>8. /\ \A mail \in inbox : mail.token[1] \in Jobs
          /\ \A p \in Purposes : link[p].token # None => link[p].token[1] \in Jobs
        BY DEF TypeOK, Mails, Tokens, Purposes
    <1>9. LinksAreAddressed'
        BY <1>7, <1>8 DEF LinksAreAddressed, IssuedFor, Purposes, rows
    <1>10. NewestIsStored'
        <2> SUFFICES ASSUME NEW i \in Jobs, Newest(i)'
                     PROVE  link'[job'[i].purpose].token = <<i, job'[i].tries>>
            BY DEF NewestIsStored
        <2>1. i # j /\ job'[i] = job[i]
            BY <1>1, <1>3 DEF Newest
        <2>2. \A k \in Jobs : k > i /\ job[k].purpose = job[i].purpose => job[k].tries = 0
            BY <1>2, <1>3, <2>1 DEF Newest, JobsAreSound
        <2>3. Newest(i)
            BY <2>1, <2>2 DEF Newest, history
        <2> QED  BY <2>1, <2>3 DEF NewestIsStored, rows
    <1>11. VersionsAreDates' /\ StoredCodesUnspent' /\ LinksProveTheAddress'
        BY MailStepFrame DEF rows, history
    <1> QED  BY <1>4, <1>6, <1>9, <1>10, <1>11

LEMMA RequestMailStep ==
    ASSUME IInv,
           \/ \E r \in Requests, j \in Jobs : RequestVerification(r, j)
           \/ \E j \in Jobs, e \in Emails : RequestReset(j, e)
    PROVE  IInv'
    <1>1. ASSUME NEW r \in Requests, NEW j \in Jobs, RequestVerification(r, j)
          PROVE  IInv'
        <2>1. request' \in [Requests -> RequestRows] /\ RequestsAreSound'
            BY <1>1, RequestEnds DEF RequestVerification, IInv, rows
        <2>2. request[r].email \in Emails
            BY <1>1 DEF RequestVerification, IInv, RequestsAreSound
        <2> QED  BY <1>1, <2>1, <2>2, EnqueueStep DEF RequestVerification, Purposes
    <1>2. ASSUME NEW j \in Jobs, NEW e \in Emails, RequestReset(j, e)
          PROVE  IInv'
        <2>1. request' \in [Requests -> RequestRows] /\ RequestsAreSound'
            BY <1>2 DEF RequestReset, IInv, TypeOK, RequestRows, RequestsAreSound, rows
        <2> QED  BY <1>2, <2>1, EnqueueStep DEF RequestReset, Purposes
    <1> QED  BY <1>1, <1>2

(* A job that moves on without a new link is as new as it was.             *)
LEMMA SameFieldsSameNewest ==
    ASSUME NewestIsStored, UNCHANGED <<link, changes, proofs>>,
           \A i \in Jobs : /\ job'[i].purpose = job[i].purpose /\ job'[i].tries = job[i].tries
                          /\ job'[i].born = job[i].born
    PROVE  NewestIsStored'
    <1> SUFFICES ASSUME NEW i \in Jobs, Newest(i)'
                 PROVE  link'[job'[i].purpose].token = <<i, job'[i].tries>>
        BY DEF NewestIsStored
    <1>1. Newest(i)
        BY DEF Newest
    <1> QED  BY <1>1 DEF NewestIsStored

(* A late attempt finds the link of a newer job and leaves it.             *)
LEMMA IssueStep ==
    ASSUME IInv, NEW j \in Jobs, IssueLink(j)
    PROVE  IInv'
    <1> USE DEF IInv
    <1>1. /\ job \in [Jobs -> JobRows] /\ link \in [Purposes -> LinkRows] /\ job[j] \in JobRows
          /\ job[j].pc = "QUEUED" /\ job[j].tries < MaxAttempts /\ job[j].purpose \in Purposes
          /\ job[j].tries \in Nat /\ changes \in Nat /\ changes \in Versions
          /\ account.ver \in Nat /\ account.ver \in Versions
          /\ UNCHANGED <<account, factor, session, request, inbox, history>>
        BY NumbersAssumption
           DEF TypeOK, IssueLink, JobsAreSound, JobRows, LinkRows, Purposes, Versions
    <1>2. VersionsAreDates' /\ StoredCodesUnspent' /\ LinksProveTheAddress' /\ RequestsAreSound'
        BY <1>1, MailStepFrame DEF RequestsAreSound, history
    <1>3. /\ \A mail \in inbox : mail.token[1] \in Jobs
          /\ \A p \in Purposes : link[p].token # None => link[p].token[1] \in Jobs
        BY DEF TypeOK, Mails, Tokens, Purposes
    <1>4. CASE ~(Addressee(j) /\ Replaces(j))
        <2> DEFINE new == [job[j] EXCEPT !.pc = "DONE"]
        <2>1. /\ new \in JobRows /\ new.pc = "DONE" /\ new.purpose = job[j].purpose
              /\ new.email = job[j].email /\ new.tries = job[j].tries /\ new.born = job[j].born
            BY <1>1 DEF JobRows, Purposes
        <2>2. job' = [job EXCEPT ![j] = new] /\ link' = link
            BY <1>4 DEF IssueLink
        <2> HIDE DEF new
        <2>3. \A i \in Jobs : job'[i] = IF i = j THEN new ELSE job[i]
            BY <1>1, <2>2
        <2>4. TypeOK'
            BY <1>1, <2>1, <2>2 DEF TypeOK, JobRows, Purposes, history
        <2>5. JobsAreSound'
            BY <1>1, <2>1, <2>3 DEF JobsAreSound, history
        <2>6. LinksAreAddressed'
            BY <1>1, <1>3, <2>1, <2>2, <2>3 DEF LinksAreAddressed, IssuedFor, Purposes
        <2>7. NewestIsStored'
            BY <1>1, <2>1, <2>2, <2>3, SameFieldsSameNewest DEF history
        <2> QED  BY <1>2, <2>4, <2>5, <2>6, <2>7
    <1>5. CASE Addressee(j) /\ Replaces(j)
        <2> DEFINE new == [job[j] EXCEPT !.pc = "SEND", !.tries = @ + 1, !.born = changes]
                   held == [token |-> <<j, job[j].tries + 1>>, ver |-> account.ver]
        <2>1. /\ new \in JobRows /\ new.pc = "SEND" /\ new.purpose = job[j].purpose
              /\ new.email = job[j].email /\ new.tries = job[j].tries + 1 /\ new.born = changes
            <3>1. job[j].tries + 1 \in 0 .. MaxAttempts
                BY <1>1, NumbersAssumption
            <3> QED  BY <1>1, <3>1 DEF JobRows
        <2>2. job' = [job EXCEPT ![j] = new] /\ link' = [link EXCEPT ![job[j].purpose] = held]
            BY <1>5 DEF IssueLink
        <2>3. /\ held \in LinkRows /\ held.token = <<j, job[j].tries + 1>> /\ held.token[1] = j
              /\ held.ver = account.ver
            BY <1>1, NumbersAssumption DEF LinkRows, Tokens
        <2> HIDE DEF new, held
        <2>4. \A i \in Jobs : job'[i] = IF i = j THEN new ELSE job[i]
            BY <1>1, <2>2
        <2>5. \A p \in Purposes : link'[p] = IF p = job[j].purpose THEN held ELSE link[p]
            BY <1>1, <2>2
        <2>6. TypeOK'
            BY <1>1, <2>1, <2>2, <2>3 DEF TypeOK, JobRows, LinkRows, Purposes, history
        <2>7. JobsAreSound'
            BY <1>1, <2>1, <2>4 DEF JobsAreSound, history
        <2>8. account.email = job[j].email
            BY <1>5 DEF Addressee
        <2>9. LinksAreAddressed'
            BY <1>1, <1>3, <2>1, <2>3, <2>4, <2>5, <2>8 DEF LinksAreAddressed, IssuedFor, Purposes
        <2>10. NewestIsStored'
            <3> SUFFICES ASSUME NEW i \in Jobs, Newest(i)'
                         PROVE  link'[job'[i].purpose].token = <<i, job'[i].tries>>
                BY DEF NewestIsStored
            <3>1. CASE i = j
                BY <1>1, <2>1, <2>3, <2>4, <2>5, <3>1
            <3>2. CASE i # j
                <4>1. job'[i] = job[i] /\ job[i].purpose \in Purposes
                    BY <1>1, <2>4, <3>2 DEF JobRows
                <4>2. i < j => job[j].purpose # job[i].purpose
                    BY <1>1, <2>1, <2>4, <3>2 DEF Newest
                <4>3. \A k \in Jobs : k > i /\ job[k].purpose = job[i].purpose => job[k].tries = 0
                    BY <2>1, <2>4, <4>1, <4>2 DEF Newest
                <4>4. Newest(i)
                    BY <1>1, <4>1, <4>3 DEF Newest, history
                <4>5. link[job[i].purpose].token = <<i, job[i].tries>>
                    BY <4>4 DEF NewestIsStored
                <4>6. job[j].purpose # job[i].purpose
                    <5> SUFFICES ASSUME job[j].purpose = job[i].purpose PROVE FALSE
                        OBVIOUS
                    <5>1. <<i, job[i].tries>> \in Tokens
                        BY <1>1, <4>4, NumbersAssumption DEF Tokens, JobRows, Newest
                    <5>2. i <= j
                        BY <1>5, <4>5, <5>1, NoneAssumption DEF Replaces
                    <5> QED  BY <3>2, <4>2, <5>2, NumbersAssumption
                <4> QED  BY <2>5, <4>1, <4>5, <4>6
            <3> QED  BY <3>1, <3>2
        <2> QED  BY <1>2, <2>6, <2>7, <2>9, <2>10
    <1> QED  BY <1>4, <1>5

LEMMA SendStep ==
    ASSUME IInv, NEW j \in Jobs, SendLink(j) \/ FailSend(j)
    PROVE  IInv'
    <1> USE DEF IInv
    <1>1. /\ job \in [Jobs -> JobRows] /\ job[j] \in JobRows
          /\ job[j].pc = "SEND" /\ job[j].tries > 0 /\ job[j].email \in Emails
          /\ UNCHANGED <<rows, request, history>>
        BY DEF TypeOK, SendLink, FailSend, JobsAreSound, JobRows, Purposes
    <1>2. PICK pc \in {"DONE", "QUEUED"} :
            /\ pc = "QUEUED" => job[j].tries < MaxAttempts
            /\ job' = [job EXCEPT ![j].pc = pc]
        BY DEF SendLink, FailSend
    <1> DEFINE new == [job[j] EXCEPT !.pc = pc]
               mail == [token |-> <<j, job[j].tries>>, to |-> job[j].email]
    <1>3. /\ new \in JobRows /\ new.pc = pc /\ new.purpose = job[j].purpose
          /\ new.email = job[j].email /\ new.tries = job[j].tries /\ new.born = job[j].born
        BY <1>1 DEF JobRows
    <1>4. job' = [job EXCEPT ![j] = new]
        BY <1>2
    <1>5. inbox' \subseteq inbox \cup {mail}
        BY DEF SendLink, FailSend
    <1>6. mail \in Mails /\ mail.token[1] = j /\ mail.to = job[j].email
        BY <1>1, NumbersAssumption DEF Mails, Tokens, JobRows
    <1> HIDE DEF new, mail
    <1>7. \A i \in Jobs : job'[i] = IF i = j THEN new ELSE job[i]
        BY <1>1, <1>4
    <1>8. TypeOK'
        BY <1>1, <1>3, <1>4, <1>5, <1>6 DEF TypeOK, JobRows, Purposes, rows, history
    <1>9. VersionsAreDates' /\ StoredCodesUnspent' /\ LinksProveTheAddress' /\ RequestsAreSound'
        BY <1>1, MailStepFrame DEF RequestsAreSound, rows, history
    <1>10. JobsAreSound'
        BY <1>1, <1>2, <1>3, <1>7 DEF JobsAreSound, history
    <1>11. /\ \A m \in inbox : m.token[1] \in Jobs
           /\ \A p \in Purposes : link[p].token # None => link[p].token[1] \in Jobs
        BY DEF TypeOK, Mails, Tokens, Purposes
    <1>12. LinksAreAddressed'
        BY <1>1, <1>2, <1>3, <1>5, <1>6, <1>7, <1>11
           DEF LinksAreAddressed, IssuedFor, Purposes, rows
    <1>13. NewestIsStored'
        BY <1>1, <1>3, <1>7, SameFieldsSameNewest DEF rows, history
    <1> QED  BY <1>8, <1>9, <1>10, <1>12, <1>13

-----------------------------------------------------------------------------
(* The inductive invariant holds.                                          *)
THEOREM Inductive == Spec => []IInv
    <1>1. Init => IInv
        <2> SUFFICES ASSUME Init PROVE IInv
            OBVIOUS
        <2>1. TypeOK
            <3>1. 0 \in Versions /\ 0 \in 0 .. MaxAttempts
                BY NumbersAssumption DEF Versions
            <3>2. request \in [Requests -> RequestRows]
                BY RestingTypes DEF Init
            <3>3. session \in [Sessions -> SessionRows]
                BY <3>1 DEF Init, SessionRows
            <3>4. job \in [Jobs -> JobRows]
                BY <3>1 DEF Init, NoJob, JobRows, Purposes
            <3>5. link \in [Purposes -> LinkRows]
                BY NoLinkTypes DEF Init, Purposes
            <3> QED  BY <3>1, <3>2, <3>3, <3>4, <3>5
                     DEF Init, TypeOK, RequestRows, SessionRows, JobRows, LinkRows, Purposes
        <2>2. VersionsAreDates /\ RequestsAreSound /\ StoredCodesUnspent
            <3>1. VersionsAreDates /\ StoredCodesUnspent
                BY DEF Init, VersionsAreDates, StoredCodesUnspent
            <3>2. \A r \in Requests : request[r].pc = "IDLE" /\ session[r].state = "NONE"
                BY RestingTypes, NamesAssumption DEF Init, Sessions
            <3> QED  BY <3>1, <3>2 DEF RequestsAreSound
        <2>3. JobsAreSound /\ NewestIsStored
            BY DEF Init, JobsAreSound, NewestIsStored, Newest, NoJob
        <2>4. LinksAreAddressed /\ LinksProveTheAddress
            BY DEF Init, LinksAreAddressed, LinksProveTheAddress, NoLink
        <2> QED  BY <2>1, <2>2, <2>3, <2>4 DEF IInv
    <1>2. IInv /\ [Next]_vars => IInv'
        <2> SUFFICES ASSUME IInv, [Next]_vars PROVE IInv'
            OBVIOUS
        <2>1. CASE UNCHANGED vars
            <3>1. TypeOK' /\ VersionsAreDates' /\ RequestsAreSound' /\ StoredCodesUnspent'
                BY <2>1 DEF IInv, TypeOK, VersionsAreDates, RequestsAreSound, StoredCodesUnspent,
                            vars, rows, history
            <3>2. JobsAreSound' /\ LinksAreAddressed' /\ LinksProveTheAddress' /\ NewestIsStored'
                BY <2>1, MailsUnaffected DEF vars, rows, history
            <3> QED  BY <3>1, <3>2 DEF IInv
        <2>2. ASSUME NEW r \in Requests, Entering(r) \/ Changing(r) PROVE IInv'
            <3>1. CASE Entering(r)
                BY <3>1, QuietStep, SessionStep, FactorStep DEF Entering
            <3>2. CASE Changing(r)
                BY <3>2, QuietStep, SessionStep, ChangeStep, RequestMailStep DEF Changing
            <3> QED  BY <2>2, <3>1, <3>2
        <2>3. ASSUME NEW j \in Jobs, Mailing(j) PROVE IInv'
            BY <2>3, RequestMailStep, IssueStep, SendStep DEF Mailing
        <2> QED  BY <2>1, <2>2, <2>3, FollowStep, FactorStep DEF Next
    <1> QED  BY <1>1, <1>2, PTL DEF Spec

-----------------------------------------------------------------------------
(* Type correctness.                                                       *)
THEOREM TypeCorrect == Spec => []TypeOK
    BY Inductive, PTL DEF IInv

(* The tokens of every session that is accepted were signed from the       *)
(* account as it is since its last change.  What the login had compared    *)
(* before that reading is not dated, and may be an older password.         *)
THEOREM SessionsAreCurrent == Spec => []UsableIsCurrent
    <1>1. IInv => UsableIsCurrent
        BY DEF IInv, VersionsAreDates, UsableIsCurrent, Usable
    <1> QED  BY <1>1, Inductive, PTL

(* A recovery code confirms once.                                          *)
THEOREM CodesConfirmOnce == Spec => []RecoveryCodeOnce
    <1>1. IInv => RecoveryCodeOnce
        BY DEF IInv, StoredCodesUnspent, RecoveryCodeOnce
    <1> QED  BY <1>1, Inductive, PTL

(* Links act only under the address they were mailed to.                   *)
THEOREM AddressesAreProved == Spec => []LinksProveTheAddress
    <1>1. IInv => LinksProveTheAddress
        BY DEF IInv
    <1> QED  BY <1>1, Inductive, PTL

(* The link of the newest request works.                                   *)
THEOREM NewestMailWorks == Spec => []NewestLinkWorks
    <1>1. IInv => NewestLinkWorks
        <2> SUFFICES ASSUME IInv, NEW mail \in inbox,
                            mail.token[2] = job[mail.token[1]].tries,
                            job[mail.token[1]].born = changes,
                            \A i \in Jobs : i > mail.token[1] /\ job[i].purpose = job[mail.token[1]].purpose
                                              => job[i].tries = 0,
                            \A p \in proofs : p.token # mail.token
                     PROVE  link[job[mail.token[1]].purpose].token = mail.token
            BY DEF NewestLinkWorks
        <2>1. PICK j \in Jobs, n \in 1 .. MaxAttempts : mail.token = <<j, n>>
            BY DEF IInv, TypeOK, Mails, Tokens
        <2>2. mail.token = <<j, job[j].tries>> /\ job[j].tries > 0
            BY <2>1, NumbersAssumption
        <2>3. Newest(j)
            BY <2>1, <2>2 DEF Newest
        <2> QED  BY <2>2, <2>3 DEF IInv, NewestIsStored
    <1> QED  BY <1>1, Inductive, PTL
=============================================================================
