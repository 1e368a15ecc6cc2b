------------------------------ MODULE Accounts ------------------------------
(***************************************************************************)
(* One user's account in the auth service: failed logins and the lock they *)
(* bring, multi-factor authentication and its recovery codes, the refresh  *)
(* sessions a login opens, and the one-time tokens sent by e-mail          *)
(* (auth-service/app/services/auth.py and mfa.py, routes/auth.py).         *)
(*                                                                         *)
(* Handlers run in worker threads, each with a session of its own under    *)
(* READ COMMITTED.  A session reads the user once per transaction, and its *)
(* commit writes the columns whose value it changed; recovery codes are in *)
(* the user's metadata, which is one column.                               *)
(*                                                                         *)
(* Passwords, one-time codes and what a caller knows are choices of the    *)
(* payload, and so is when a token expires, after which its holder is      *)
(* refused.  Refresh sessions and e-mail tokens beyond the first           *)
(* MaxSessions and MaxMails are not followed.                              *)
(***************************************************************************)
EXTENDS Integers, FiniteSets

CONSTANTS Workers,
          MaxAttempts,     \* LOGIN_MAX_ATTEMPTS
          LockTime,        \* LOGIN_LOCK_MINUTES, in ticks of the clock
          MaxFailures,     \* bound on failed logins in a row
          MaxSessions,     \* bound on refresh sessions followed
          MaxMails,        \* bound on e-mail tokens followed
          MaxCodes,        \* bound on recovery codes handed out
          MaxTime          \* bound on the clock

ASSUME AccountsAssumption ==
    /\ IsFiniteSet(Workers) /\ Workers # {}
    /\ MaxAttempts \in Nat \ {0} /\ LockTime \in Nat \ {0}
    /\ MaxFailures \in Nat /\ MaxFailures >= MaxAttempts
    /\ MaxSessions \in Nat /\ MaxMails \in Nat /\ MaxCodes \in Nat /\ MaxTime \in Nat

Sessions == 1 .. MaxSessions
Mails    == 1 .. MaxMails
Codes    == 1 .. MaxCodes

VARIABLES
    now,         \* the clock
    user,        \* the User row
    sessions,    \* RefreshSession rows
    mails,       \* VerificationToken rows
    issued,      \* recovery codes handed out so far
    spent,       \* history: recovery codes that have let somebody in
    uses,        \* history: how often an e-mail token was redeemed
    handed,      \* history: how often a refresh token was handed out, up to 2
    exchanged,   \* history: refresh tokens exchanged for others
    raced,       \* history: has a commit changed a user row changed since it was read?
    op           \* the call each worker is in the middle of

vars == <<now, user, sessions, mails, issued, spent, uses, handed, exchanged, raced, op>>

-----------------------------------------------------------------------------
(* Rows *)

(* 'inactive' stands for deleted too, and 'active' for invited: logins     *)
(* treat them alike.                                                       *)
User == [status : {"active", "locked", "inactive"}, attempts : 0 .. MaxFailures,
         until : 0 .. MaxTime + LockTime, verified : BOOLEAN,
         mfa : BOOLEAN, secret : BOOLEAN, codes : SUBSET Codes]

(* A refresh token is a signed payload with the second of its issue: the   *)
(* same payload issued twice in a tick is the same token.  Kiosk logins    *)
(* and impersonations add to the payload; a refresh issues a plain one.    *)
Token == [payload : {"own", "special"}, at : 0 .. MaxTime]

Session == [state : {"absent", "open", "revoked"}, token : Token]
Mail    == [type : {"none", "verification", "reset"}, state : {"absent", "pending", "consumed"}]

NoToken == [payload |-> "own", at |-> 0]

Open == {s \in Sessions : sessions[s].state = "open"}

(* A session's UPDATE names the columns whose value it changed.            *)
Changes(read, new) == [c \in {d \in DOMAIN read : new[d] # read[d]} |-> new[c]]
Written(row, changes) ==
    [c \in DOMAIN row |-> IF c \in DOMAIN changes THEN changes[c] ELSE row[c]]

-----------------------------------------------------------------------------
(* Calls in progress *)

Idle == [kind |-> "idle", basis |-> {}]

(* Fields of calls in progress:                                            *)
(*   changes  the user's columns it will write                             *)
(*   basis    the user's row it goes by, if it writes any                  *)
(*   rest     what else it remembers                                       *)
Load(w, kind, changes, rest) ==
    op' = [op EXCEPT ![w] = [kind |-> kind, changes |-> changes, rest |-> rest,
                             basis |-> IF DOMAIN changes = {} THEN {} ELSE {user}]]

Serving(w, kind) == op[w].kind = kind
Quiet == UNCHANGED <<now, user, sessions, mails, issued, spent, uses, handed, exchanged, raced>>

(* new: what the call makes of the user *)
Begin(w, kind, new, rest) ==
    /\ Serving(w, "idle")
    /\ Load(w, kind, Changes(user, new), rest)
    /\ Quiet

Finish(w) == op' = [op EXCEPT ![w] = Idle]

Abort(w) == ~Serving(w, "idle") /\ Finish(w) /\ Quiet

(* Has the user's row changed since the call read it?                      *)
Outdated(w) == ~(op[w].basis \subseteq {user})

(* The user's part of a commit *)
Save(w) ==
    /\ user' = Written(user, op[w].changes)
    /\ raced' = (raced \/ Outdated(w))

(* A token handed to a client *)
HandOut(token) == handed' = [handed EXCEPT ![token] = IF @ = 2 THEN 2 ELSE @ + 1]

(* A session inserted with a token of that payload, made at some time      *)
(* since the call began                                                    *)
OpenSession(w, payload) ==
    IF \A s \in Sessions : sessions[s].state # "absent"
    THEN UNCHANGED <<sessions, handed>>
    ELSE LET s == CHOOSE x \in Sessions : sessions[x].state = "absent"
         IN  \E at \in op[w].rest.began .. now :
                LET token == [payload |-> payload, at |-> at]
                IN  /\ sessions' = [sessions EXCEPT ![s] = [state |-> "open", token |-> token]]
                    /\ HandOut(token)

Nothing == {}
Started == [began |-> now]

-----------------------------------------------------------------------------
(* Logins *)

LockEnd == now + LockTime

(* resolve_local_user_for_login: the password is wrong, and a lock does    *)
(* not keep failures from being counted                                    *)
FailedLoginRead(w) ==
    /\ user.attempts < MaxFailures
    /\ LET new == [user EXCEPT !.attempts = @ + 1]
       IN  Begin(w, "fail",
                 IF new.attempts >= MaxAttempts
                 THEN [new EXCEPT !.until = LockEnd, !.status = "locked"] ELSE new,
                 Nothing)

FailedLoginCommit(w) ==
    /\ Serving(w, "fail")
    /\ Save(w)
    /\ Finish(w)
    /\ UNCHANGED <<now, sessions, mails, issued, spent, uses, handed, exchanged>>

(* What issue_login_tokens makes of a user *)
LoggedIn(row) == [row EXCEPT !.attempts = 0, !.until = 0, !.status = "active"]

(* login up to the second factor: the password is right *)
MayLogin == user.until <= now /\ user.verified

(* No second factor is on, or the authenticator's code is right.           *)
LoginRead(w) ==
    /\ MayLogin
    /\ user.mfa => user.secret
    /\ Begin(w, "login", LoggedIn(user), Started)

(* verify_login with a recovery code, in a login and in the calls that     *)
(* disable the second factor or replace the codes                          *)
SpendRead(w, code, next) ==
    /\ next = "login" => MayLogin /\ user.mfa
    /\ user.secret
    /\ code \in user.codes
    /\ Begin(w, "spend", [user EXCEPT !.codes = @ \ {code}], [next |-> next, code |-> code])

(* The code is off the list before the call goes on in a new transaction.  *)
CodeTaken(w) == Written(user, op[w].changes)

SpendCommit(w) ==
    /\ Serving(w, "spend")
    /\ user' = CodeTaken(w)
    /\ raced' = (raced \/ Outdated(w))
    /\ spent' = spent \cup {op[w].rest.code}
    /\ op' = [op EXCEPT ![w] = [kind |-> "admitted", next |-> op[w].rest.next, basis |-> {}]]
    /\ UNCHANGED <<now, sessions, mails, issued, uses, handed, exchanged>>

(* sso_login sets 'active' an invited user only, and ignores the lock's    *)
(* end; it rewrites the user's metadata.                                   *)
SsoLoginRead(w) ==
    /\ Serving(w, "idle")
    /\ user.status = "active"
    /\ LET new == LoggedIn([user EXCEPT !.verified = TRUE])
       IN  Load(w, "login", [c \in DOMAIN Changes(user, new) \cup {"codes"} |-> new[c]], Started)
    /\ Quiet

LoginCommit(w) ==
    /\ Serving(w, "login")
    /\ Save(w)
    /\ OpenSession(w, "own")
    /\ Finish(w)
    /\ UNCHANGED <<now, mails, issued, spent, uses, exchanged>>

(* kiosk_login, impersonate: a session and nothing else *)
GuestRead(w) == Begin(w, "guest", user, Started)

GuestCommit(w) ==
    /\ Serving(w, "guest")
    /\ OpenSession(w, "special")
    /\ Finish(w)
    /\ UNCHANGED <<now, user, mails, issued, spent, uses, exchanged, raced>>

-----------------------------------------------------------------------------
(* Refresh sessions *)

RefreshRead(w, s) ==
    /\ s \in Open
    /\ Begin(w, "refresh", user, [session |-> s, row |-> sessions[s], began |-> now])

(* Wrong: the session is written as it was read.                           *)
WholeSession(w, token) == [op[w].rest.row EXCEPT !.token = token]

(* The hash is written if it is not the one that was read.                 *)
Refreshed(w, token) ==
    IF token = op[w].rest.row.token THEN sessions[op[w].rest.session]
    ELSE [sessions[op[w].rest.session] EXCEPT !.token = token]

RefreshCommit(w) ==
    /\ Serving(w, "refresh")
    /\ \E at \in op[w].rest.began .. now :
          LET token == [payload |-> "own", at |-> at]
          IN  /\ sessions' = [sessions EXCEPT ![op[w].rest.session] = Refreshed(w, token)]
              /\ exchanged' = exchanged \cup ({op[w].rest.row.token} \ {token})
              /\ HandOut(token)
    /\ Finish(w)
    /\ UNCHANGED <<now, user, mails, issued, spent, uses, raced>>

Revoked(ending) ==
    [s \in Sessions |-> IF s \in ending THEN [sessions[s] EXCEPT !.state = "revoked"]
                        ELSE sessions[s]]

(* logout, revoke_session: what they go by, that the session is open,      *)
(* cannot come back once it is lost.                                       *)
RevokeSession(w, s) ==
    /\ Serving(w, "idle")
    /\ s \in Open
    /\ sessions' = Revoked({s})
    /\ UNCHANGED <<now, user, mails, issued, spent, uses, handed, exchanged, raced, op>>

RevokeAllRead(w) == Begin(w, "end", user, [ending |-> Open])

(* What change_password makes of the user *)
PasswordChanged(row) == [row EXCEPT !.attempts = 0, !.until = 0]

(* change_password: every other session, if asked, and with no cookie to   *)
(* tell the caller's own, every session                                    *)
ChangePasswordRead(w, ending) ==
    /\ ending \in {{}, Open} \cup {{x \in Open : sessions[x].token # sessions[s].token} : s \in Open}
    /\ Begin(w, "end", PasswordChanged(user), [ending |-> ending])

EndSessionsCommit(w) ==
    /\ Serving(w, "end")
    /\ Save(w)
    /\ sessions' = Revoked(op[w].rest.ending)
    /\ Finish(w)
    /\ UNCHANGED <<now, mails, issued, spent, uses, handed, exchanged>>

-----------------------------------------------------------------------------
(* Tokens sent by e-mail *)

NewMail(type) ==
    IF \A m \in Mails : mails[m].state # "absent" THEN UNCHANGED mails
    ELSE mails' = [mails EXCEPT ![CHOOSE x \in Mails : mails[x].state = "absent"] =
                     [type |-> type, state |-> "pending"]]

(* forgot_password; request_email_verification, and login before the       *)
(* address is verified                                                     *)
SendMail(w, type) ==
    /\ Serving(w, "idle")
    /\ type = "verification" => ~user.verified
    /\ NewMail(type)
    /\ UNCHANGED <<now, user, sessions, issued, spent, uses, handed, exchanged, raced, op>>

(* Wrong: a token is good whether or not it was consumed.                  *)
RedeemableTwice(m, type) == mails[m].type = type

Redeemable(m, type) == mails[m] = [type |-> type, state |-> "pending"]

VerifyEmailRead(w, m) ==
    /\ Redeemable(m, "verification")
    /\ Begin(w, "redeem", [user EXCEPT !.verified = TRUE], [mail |-> m])

ResetPasswordRead(w, m) ==
    /\ Redeemable(m, "reset")
    /\ Begin(w, "redeem", LoggedIn(user), [mail |-> m])

Consumed(m) == [mails EXCEPT ![m].state = "consumed"]

RedeemCommit(w) ==
    /\ Serving(w, "redeem")
    /\ Save(w)
    /\ mails' = Consumed(op[w].rest.mail)
    /\ uses' = [uses EXCEPT ![op[w].rest.mail] = @ + 1]
    /\ Finish(w)
    /\ UNCHANGED <<now, sessions, issued, spent, handed, exchanged>>

(* resend_email_verification_from_token consumes the token, used or not,   *)
(* and sends another in a transaction of its own.                          *)
ResendRead(w, m) ==
    /\ mails[m].type = "verification"
    /\ ~user.verified
    /\ Begin(w, "resend", user, [mail |-> m])

ResendCommit(w) ==
    /\ Serving(w, "resend")
    /\ mails' = Consumed(op[w].rest.mail)
    /\ op' = [op EXCEPT ![w] = [kind |-> "send", basis |-> {}]]
    /\ UNCHANGED <<now, user, sessions, issued, spent, uses, handed, exchanged, raced>>

ResendSends(w) ==
    /\ Serving(w, "send")
    /\ NewMail("verification")
    /\ Finish(w)
    /\ UNCHANGED <<now, user, sessions, issued, spent, uses, handed, exchanged, raced>>

-----------------------------------------------------------------------------
(* The second factor *)

(* generate_setup: a new secret, whatever was there *)
SetupMfa(w) ==
    /\ Serving(w, "idle")
    /\ user' = [user EXCEPT !.secret = TRUE]
    /\ UNCHANGED <<now, sessions, mails, issued, spent, uses, handed, exchanged, raced, op>>

(* Codes made for a call *)
NewCodes(w, row) ==
    /\ issued < MaxCodes
    /\ issued' = issued + 1
    /\ Load(w, "row", Changes(user, [row EXCEPT !.codes = {issued + 1}]), Nothing)
    /\ UNCHANGED <<now, user, sessions, mails, spent, uses, handed, exchanged, raced>>

(* verify_setup *)
VerifySetupRead(w) ==
    /\ Serving(w, "idle")
    /\ user.secret
    /\ NewCodes(w, [user EXCEPT !.mfa = TRUE])

(* regenerate_recovery_codes, with the authenticator's code *)
RegenerateRead(w) ==
    /\ Serving(w, "idle")
    /\ user.secret
    /\ NewCodes(w, user)

(* Wrong: the secret goes and the requirement stays.                       *)
SecretDropped(row) == [row EXCEPT !.secret = FALSE, !.codes = {}]

Disabled(row) == [row EXCEPT !.mfa = FALSE, !.secret = FALSE, !.codes = {}]

(* disable, with the authenticator's code *)
DisableRead(w) ==
    /\ user.secret
    /\ Begin(w, "row", Disabled(user), Nothing)

(* A call that spent a recovery code goes on with the user as reloaded.    *)
AdmittedRead(w) ==
    /\ Serving(w, "admitted")
    /\ \/ /\ op[w].next = "login"
          /\ Load(w, "login", Changes(user, LoggedIn(user)), Started)
          /\ Quiet
       \/ /\ op[w].next = "disable"
          /\ Load(w, "row", Changes(user, Disabled(user)), Nothing)
          /\ Quiet
       \/ /\ op[w].next = "codes"
          /\ NewCodes(w, user)

(* update_profile, set_kiosk_pin, update_employee: the metadata go back as *)
(* they were read, recovery codes and all.                                 *)
WriteMetadataRead(w) ==
    /\ Serving(w, "idle")
    /\ Load(w, "row", [codes |-> user.codes], Nothing)
    /\ Quiet

(* register_employee takes up a removed employee, with new metadata.       *)
RestoreRead(w) ==
    /\ user.status = "inactive"
    /\ Begin(w, "row", [user EXCEPT !.status = "active", !.verified = FALSE, !.codes = {}],
             Nothing)

RowCommit(w) ==
    /\ Serving(w, "row")
    /\ Save(w)
    /\ Finish(w)
    /\ UNCHANGED <<now, sessions, mails, issued, spent, uses, handed, exchanged>>

(* update_employee_status, delete_employee: a status, whatever it was      *)
SetStatus(w, status) ==
    /\ Serving(w, "idle")
    /\ user' = [user EXCEPT !.status = status]
    /\ UNCHANGED <<now, sessions, mails, issued, spent, uses, handed, exchanged, raced, op>>

-----------------------------------------------------------------------------
(* A user who just registered, with the verification mail on its way *)

Init ==
    /\ now = 0
    /\ user = [status |-> "active", attempts |-> 0, until |-> 0, verified |-> FALSE,
               mfa |-> FALSE, secret |-> FALSE, codes |-> {}]
    /\ sessions = [s \in Sessions |-> [state |-> "absent", token |-> NoToken]]
    /\ mails = [m \in Mails |-> [type |-> "none", state |-> "absent"]]
    /\ issued = 0
    /\ spent = {}
    /\ uses = [m \in Mails |-> 0]
    /\ handed = [t \in Token |-> 0]
    /\ exchanged = {}
    /\ raced = FALSE
    /\ op = [w \in Workers |-> Idle]

Tick ==
    /\ now < MaxTime
    /\ now' = now + 1
    /\ UNCHANGED <<user, sessions, mails, issued, spent, uses, handed, exchanged, raced, op>>

LogIn(w) ==
    \/ FailedLoginRead(w) \/ FailedLoginCommit(w)
    \/ LoginRead(w) \/ SsoLoginRead(w) \/ LoginCommit(w)
    \/ GuestRead(w) \/ GuestCommit(w)
    \/ \E code \in user.codes, next \in {"login", "codes", "disable"} : SpendRead(w, code, next)
    \/ SpendCommit(w) \/ AdmittedRead(w)

KeepSessions(w) ==
    \/ \E s \in Open : RefreshRead(w, s) \/ RevokeSession(w, s)
    \/ RefreshCommit(w)
    \/ RevokeAllRead(w)
    \/ \E ending \in SUBSET Open : ChangePasswordRead(w, ending)
    \/ EndSessionsCommit(w)

UseMail(w) ==
    \/ \E type \in {"verification", "reset"} : SendMail(w, type)
    \/ \E m \in Mails : VerifyEmailRead(w, m) \/ ResetPasswordRead(w, m) \/ ResendRead(w, m)
    \/ RedeemCommit(w) \/ ResendCommit(w) \/ ResendSends(w)

Manage(w) ==
    \/ SetupMfa(w) \/ VerifySetupRead(w) \/ RegenerateRead(w)
    \/ DisableRead(w) \/ WriteMetadataRead(w) \/ RestoreRead(w) \/ RowCommit(w)
    \/ \E status \in {"active", "inactive"} : SetStatus(w, status)

Next == Tick \/ \E w \in Workers : LogIn(w) \/ KeepSessions(w) \/ UseMail(w) \/ Manage(w) \/ Abort(w)

Spec == Init /\ [][Next]_vars

-----------------------------------------------------------------------------
(* Properties *)

TypeOK ==
    /\ now \in 0 .. MaxTime
    /\ user \in User
    /\ sessions \in [Sessions -> Session]
    /\ mails \in [Mails -> Mail]
    /\ issued \in 0 .. MaxCodes /\ spent \subseteq Codes
    /\ uses \in [Mails -> Nat]
    /\ handed \in [Token -> 0 .. 2] /\ exchanged \subseteq Token
    /\ raced \in BOOLEAN

(* A session that was revoked stays revoked, also by a refresh that found  *)
(* it open (refresh, logout, revoke_session, change_password).             *)
RevokedStaysRevoked ==
    [][\A s \in Sessions : sessions[s].state = "revoked" => sessions'[s].state = "revoked"]_vars

(* A refresh token that was exchanged opens nothing any more, however      *)
(* refreshes overlap, unless the same token was handed out a second time:  *)
(* it carries no more than its payload and its second (refresh).           *)
ExchangedIsDead ==
    \A s \in Open : sessions[s].token \in exchanged => handed[sessions[s].token] > 1

(* A token sent by e-mail is redeemed by no more calls than run at once:   *)
(* once consumed it is not redeemable again (verify_email, reset_password, *)
(* resend_email_verification_from_token).                                  *)
UsesBounded == \A m \in Mails : uses[m] <= Cardinality(Workers)

(* Whoever is asked for a second factor has one, unless a user row was     *)
(* written that had changed since it was read: otherwise every login is    *)
(* refused, and so is the call that would switch it off (verify_setup,     *)
(* disable, verify_login).                                                 *)
MfaHasSecret == raced \/ (user.mfa => user.secret)

(* A recovery code that let somebody in is off the list, under the same    *)
(* condition (verify_login, and every writer of the user's metadata).      *)
SpentIsGone == raced \/ user.codes \cap spent = {}

(* Whoever reached the limit of failed logins has a lock, past or present, *)
(* that the next failure prolongs, and nobody gets rid of the lock alone,  *)
(* under the same condition (resolve_local_user_for_login, reset_password, *)
(* change_password, issue_login_tokens).                                   *)
LockFollowsAttempts == raced \/ (user.attempts >= MaxAttempts => user.until # 0)

(* No token outlives its use: what was exchanged or redeemed serves none   *)
(* but the calls that overlapped it (refresh, verify_email,                *)
(* reset_password, resend_email_verification_from_token).                  *)
TokensWearOut == ExchangedIsDead /\ UsesBounded

(* As long as nobody writes a user's row as it was before somebody else's  *)
(* change, the second factor can be answered, spent codes stay spent and   *)
(* the limit of failed logins locks: no sequence of the calls that write   *)
(* the row breaks one of the three.                                        *)
UserRowSound == MfaHasSecret /\ SpentIsGone /\ LockFollowsAttempts
=============================================================================
