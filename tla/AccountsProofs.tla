--------------------------- MODULE AccountsProofs ---------------------------
(***************************************************************************)
(* One user's account, for any number of overlapping calls and any bounds. *)
(*                                                                         *)
(* RowInv says of every call that what it will write makes a user of any   *)
(* user, and keeps the row it was made for coherent: a commit that finds   *)
(* that very row leaves it so.  It follows that a row nothing raced on has *)
(* a secret for its second factor and a lock for its failures.             *)
(*                                                                         *)
(* The rest stands beside RowInv.  Refresh tokens (HandedInv): one that is *)
(* in two places was handed out twice, where a session a refresh once      *)
(* found counts as a place of its old token.  Mailed tokens (UsesInv):     *)
(* redemptions and calls about to redeem are no more than the workers,     *)
(* since none begins once a token is consumed.  Recovery codes (CodesInv): *)
(* a code in a call's hands was on the list the call read, or is its own   *)
(* and known to nobody.                                                    *)
(***************************************************************************)
EXTENDS Accounts, Storage, FiniteSetTheorems, TLAPS

Columns == {"status", "attempts", "until", "verified", "mfa", "secret", "codes"}

(* What users are promised about their row as long as nothing raced *)
Coherent(row) ==
    /\ row.mfa => row.secret
    /\ row.attempts >= MaxAttempts => row.until # 0

(* The kinds of calls that write the user's row *)
Writing == {"fail", "login", "spend", "redeem", "row", "end"}

(* Columns to write that make a user of any user *)
Fitting(changes) == \A row \in User : Written(row, changes) \in User

(* ... and a coherent one of the row they were made for *)
Keeping(todo) ==
    \A row \in User :
        todo.basis \subseteq {row} /\ Coherent(row) => Coherent(Written(row, todo.changes))

(* What a call remembers beside the user *)
Remembers(kind, rest) ==
    /\ kind \in {"login", "guest", "refresh"} => rest.began \in 0 .. MaxTime
    /\ kind = "refresh" => rest.session \in Sessions /\ rest.row \in Session
    /\ kind = "spend" => rest.code \in Codes
    /\ kind \in {"redeem", "resend"} => rest.mail \in Mails

Sound(todo) ==
    /\ todo.kind \in Writing => Fitting(todo.changes) /\ Keeping(todo)
    /\ Remembers(todo.kind, todo.rest)

CallsSound ==
    /\ op = [w \in Workers |-> op[w]]
    /\ \A w \in Workers : Sound(op[w])

RowInv == TypeOK /\ CallsSound /\ (~raced => Coherent(user))

-----------------------------------------------------------------------------
(* What a call would make of the row it read *)

LEMMA WrittenFits ==
    ASSUME NEW read \in User, NEW new \in User, NEW D \in SUBSET Columns,
           \A c \in Columns \ D : new[c] = read[c]
    PROVE  /\ Fitting([c \in D |-> new[c]])
           /\ Written(read, [c \in D |-> new[c]]) = new
  <1> DEFINE changes == [c \in D |-> new[c]]
  <1>1. \A row \in User : DOMAIN row = Columns
    BY DEF User, Columns
  <1>2. \A row \in User :
           Written(row, changes) = [c \in Columns |-> IF c \in D THEN new[c] ELSE row[c]]
    BY <1>1 DEF Written
  <1>3. ASSUME NEW row \in User
        PROVE  Written(row, changes) \in User
    <2>1. Written(row, changes) = [c \in Columns |-> IF c \in D THEN new[c] ELSE row[c]]
      BY <1>2
    <2> HIDE DEF changes
    <2> QED BY <2>1 DEF User, Columns
  <1>4. Written(read, changes) = new
    <2>1. \A c \in Columns : Written(read, changes)[c] = new[c]
      BY <1>2
    <2>2. DOMAIN Written(read, changes) = Columns
      BY <1>2
    <2> QED BY <1>3, <2>1, <2>2 DEF User, Columns
  <1> QED BY <1>3, <1>4 DEF Fitting

LEMMA ChangesFit ==
    ASSUME NEW read \in User, NEW new \in User
    PROVE  /\ Fitting(Changes(read, new))
           /\ Written(read, Changes(read, new)) = new
  <1> DEFINE D == {c \in Columns : new[c] # read[c]}
  <1>1. DOMAIN read = Columns
    BY DEF User, Columns
  <1>2. Changes(read, new) = [c \in D |-> new[c]]
    BY <1>1 DEF Changes
  <1>3. \A c \in Columns \ D : new[c] = read[c]
    OBVIOUS
  <1> QED BY <1>2, <1>3, WrittenFits

(* Nothing to write leaves a row as it is. *)
LEMMA NothingWritten ==
    ASSUME NEW row \in User, NEW changes, DOMAIN changes = {}
    PROVE  Written(row, changes) = row
  BY DEF Written, User

(* A call that was just loaded is sound. *)
LEMMA LoadedSound ==
    ASSUME RowInv, NEW w \in Workers, NEW kind, NEW changes, NEW rest, NEW new \in User,
           Load(w, kind, changes, rest),
           Fitting(changes), Written(user, changes) = new,
           Coherent(user) => Coherent(new), Remembers(kind, rest)
    PROVE  CallsSound'
  <1> DEFINE todo == [kind |-> kind, changes |-> changes, rest |-> rest,
                      basis |-> IF DOMAIN changes = {} THEN {} ELSE {user}]
  <1>1. user \in User
    BY DEF RowInv, TypeOK
  <1>2. Keeping(todo)
    <2> SUFFICES ASSUME NEW row \in User, todo.basis \subseteq {row}, Coherent(row)
                 PROVE  Coherent(Written(row, todo.changes))
      BY DEF Keeping
    <2>1. CASE DOMAIN changes = {}
      BY <2>1, NothingWritten
    <2>2. CASE DOMAIN changes # {}
      BY <2>2
    <2> QED BY <2>1, <2>2
  <1>3. Sound(todo)
    BY <1>2 DEF Sound
  <1>4. op' = [op EXCEPT ![w] = todo]
    BY DEF Load
  <1> QED BY <1>3, <1>4 DEF RowInv, CallsSound

(* Any call may be replaced by a sound one, or be over. *)
LEMMA CallReplaced ==
    ASSUME CallsSound, NEW w \in Workers, NEW todo, Sound(todo), op' = [op EXCEPT ![w] = todo]
    PROVE  CallsSound'
  BY DEF CallsSound

LEMMA IdleSound == Sound(Idle)
  BY DEF Sound, Idle, Writing, Remembers

LEMMA CallOver ==
    ASSUME CallsSound, NEW w \in Workers, Finish(w)
    PROVE  CallsSound'
  BY IdleSound, CallReplaced DEF Finish

LEMMA BeginKeeps ==
    ASSUME RowInv, NEW w \in Workers, NEW kind, NEW new \in User, NEW rest,
           Begin(w, kind, new, rest),
           Coherent(user) => Coherent(new), Remembers(kind, rest)
    PROVE  RowInv'
  <1>1. user \in User
    BY DEF RowInv, TypeOK
  <1>2. Load(w, kind, Changes(user, new), rest) /\ Quiet
    BY DEF Begin
  <1>3. CallsSound'
    BY <1>1, <1>2, ChangesFit, LoadedSound
  <1>4. TypeOK' /\ (~raced => Coherent(user))'
    BY <1>2 DEF Quiet, RowInv, TypeOK
  <1> QED BY <1>3, <1>4 DEF RowInv

(* The user's part of a commit *)
LEMMA SaveKeeps ==
    ASSUME RowInv, NEW w \in Workers, op[w].kind \in Writing, Save(w)
    PROVE  user' \in User /\ raced' \in BOOLEAN /\ (~raced' => Coherent(user'))
  <1>1. /\ user \in User /\ raced \in BOOLEAN
        /\ Fitting(op[w].changes) /\ Keeping(op[w])
        /\ ~raced => Coherent(user)
    BY DEF RowInv, TypeOK, CallsSound, Sound
  <1>2. user' = Written(user, op[w].changes) /\ raced' = (raced \/ Outdated(w))
    BY DEF Save
  <1>3. user' \in User
    BY <1>1, <1>2 DEF Fitting
  <1>4. ASSUME ~raced' PROVE Coherent(user')
    BY <1>1, <1>2, <1>4 DEF Keeping, Outdated
  <1> QED BY <1>1, <1>2, <1>3, <1>4

-----------------------------------------------------------------------------
(* Every action keeps the row and the calls sound. *)

LEMMA RowInit == Init => RowInv
  <1> SUFFICES ASSUME Init PROVE RowInv
    OBVIOUS
  <1>1. now \in 0 .. MaxTime /\ NoToken \in Token
    BY AccountsAssumption DEF Init, NoToken, Token
  <1>2. user \in User /\ Coherent(user)
    BY AccountsAssumption DEF Init, User, Coherent
  <1>3. sessions \in [Sessions -> Session] /\ mails \in [Mails -> Mail]
    BY <1>1 DEF Init, Session, Mail
  <1>4. TypeOK
    <2>1. uses \in [Mails -> Nat] /\ handed \in [Token -> 0 .. 2]
      BY DEF Init
    <2>2. issued \in 0 .. MaxCodes /\ spent \subseteq Codes /\ exchanged \subseteq Token
      BY AccountsAssumption DEF Init
    <2>3. raced \in BOOLEAN
      BY Zenon DEF Init
    <2> QED BY <1>1, <1>2, <1>3, <2>1, <2>2, <2>3 DEF TypeOK
  <1>5. CallsSound
    BY IdleSound DEF Init, CallsSound
  <1> QED BY <1>2, <1>4, <1>5 DEF RowInv

LEMMA ZeroFits == 0 \in 0 .. MaxFailures /\ 0 \in 0 .. MaxTime + LockTime /\ 0 < MaxAttempts
  BY AccountsAssumption

LEMMA LoggedInFits ==
    ASSUME NEW row \in User
    PROVE  /\ LoggedIn(row) \in User
           /\ Coherent(row) => Coherent(LoggedIn(row))
  <1>1. LoggedIn(row) \in User
    BY ZeroFits DEF LoggedIn, User
  <1>2. /\ LoggedIn(row).mfa = row.mfa
        /\ LoggedIn(row).secret = row.secret
    BY DEF LoggedIn, User
  <1>3. LoggedIn(row).attempts = 0
    BY DEF LoggedIn, User
  <1> QED BY <1>1, <1>2, <1>3, AccountsAssumption DEF Coherent

LEMMA DisabledFits ==
    ASSUME NEW row \in User
    PROVE  /\ Disabled(row) \in User
           /\ Coherent(row) => Coherent(Disabled(row))
  <1>1. Disabled(row) \in User
    BY DEF Disabled, User
  <1>2. ~Disabled(row).mfa
    BY DEF Disabled, User
  <1>3. /\ Disabled(row).attempts = row.attempts
        /\ Disabled(row).until = row.until
    BY DEF Disabled, User
  <1> QED BY <1>1, <1>2, <1>3 DEF Coherent

LEMMA PasswordChangedFits ==
    ASSUME NEW row \in User
    PROVE  /\ PasswordChanged(row) \in User
           /\ Coherent(row) => Coherent(PasswordChanged(row))
  <1>1. PasswordChanged(row) \in User
    BY ZeroFits DEF PasswordChanged, User
  <1>2. /\ PasswordChanged(row).mfa = row.mfa
        /\ PasswordChanged(row).secret = row.secret
    BY DEF PasswordChanged, User
  <1>3. PasswordChanged(row).attempts = 0
    BY DEF PasswordChanged, User
  <1> QED BY <1>1, <1>2, <1>3, AccountsAssumption DEF Coherent

(* A session inserted, or not: what it does to the types *)
LEMMA OpenSessionType ==
    ASSUME TypeOK, NEW w \in Workers, NEW payload \in {"own", "special"},
           op[w].rest.began \in 0 .. MaxTime, OpenSession(w, payload)
    PROVE  sessions' \in [Sessions -> Session] /\ handed' \in [Token -> 0 .. 2]
  <1>1. CASE UNCHANGED <<sessions, handed>>
    BY <1>1 DEF TypeOK
  <1>2. CASE ~UNCHANGED <<sessions, handed>>
    <2>1. PICK s \in Sessions, at \in op[w].rest.began .. now :
            /\ sessions' = [sessions EXCEPT ![s] =
                              [state |-> "open", token |-> [payload |-> payload, at |-> at]]]
            /\ HandOut([payload |-> payload, at |-> at])
      BY <1>2 DEF OpenSession
    <2> DEFINE token == [payload |-> payload, at |-> at]
    <2>2. token \in Token
      BY AccountsAssumption DEF TypeOK, Token
    <2> HIDE DEF token
    <2>3. sessions' \in [Sessions -> Session]
      <3>1. [state |-> "open", token |-> token] \in Session
        BY <2>2 DEF Session
      <3> QED BY <2>1, <3>1 DEF TypeOK, token
    <2>4. handed' \in [Token -> 0 .. 2]
      BY <2>1, <2>2 DEF HandOut, TypeOK, token
    <2> QED BY <2>3, <2>4
  <1> QED BY <1>1, <1>2

LEMMA UserType == RowInv => user \in User /\ now \in 0 .. MaxTime
  BY DEF RowInv, TypeOK

LEMMA NothingRemembered ==
    \A kind \in {"fail", "row", "end"} : \A rest : Remembers(kind, rest)
  BY DEF Remembers

LEMMA FailedLoginReadKeeps ==
    ASSUME RowInv, NEW w \in Workers, FailedLoginRead(w)
    PROVE  RowInv'
  <1> DEFINE one == [user EXCEPT !.attempts = @ + 1]
             new == IF one.attempts >= MaxAttempts
                    THEN [one EXCEPT !.until = LockEnd, !.status = "locked"] ELSE one
  <1>1. Begin(w, "fail", new, Nothing)
    BY DEF FailedLoginRead
  <1>2. /\ user.attempts + 1 \in 0 .. MaxFailures
        /\ LockEnd \in 0 .. MaxTime + LockTime /\ LockEnd # 0
    BY UserType, AccountsAssumption DEF FailedLoginRead, User, LockEnd
  <1>3. one \in User /\ one.mfa = user.mfa /\ one.secret = user.secret
    BY UserType, <1>2 DEF User
  <1>4. one.attempts = user.attempts + 1
    BY UserType DEF User
  <1> HIDE DEF one
  <1>5. new \in User
    BY <1>2, <1>3 DEF User
  <1>6. new.mfa = user.mfa /\ new.secret = user.secret
    BY <1>3 DEF User
  <1>7. new.attempts = one.attempts /\ (one.attempts >= MaxAttempts => new.until = LockEnd)
    BY <1>3 DEF User
  <1>8. Coherent(user) => Coherent(new)
    BY <1>2, <1>6, <1>7 DEF Coherent
  <1> HIDE DEF new
  <1> QED BY <1>1, <1>5, <1>8, BeginKeeps, NothingRemembered

LEMMA LoginReadKeeps ==
    ASSUME RowInv, NEW w \in Workers, LoginRead(w)
    PROVE  RowInv'
  <1>1. Begin(w, "login", LoggedIn(user), Started)
    BY DEF LoginRead
  <1>2. Remembers("login", Started)
    BY UserType DEF Remembers, Started
  <1> QED BY <1>1, <1>2, UserType, LoggedInFits, BeginKeeps

LEMMA SpendReadKeeps ==
    ASSUME RowInv, NEW w \in Workers, NEW code \in user.codes,
           NEW next \in {"login", "codes", "disable"}, SpendRead(w, code, next)
    PROVE  RowInv'
  <1> DEFINE new  == [user EXCEPT !.codes = @ \ {code}]
             rest == [next |-> next, code |-> code]
  <1>1. Begin(w, "spend", new, rest)
    BY DEF SpendRead
  <1>2. new \in User /\ code \in Codes
    BY UserType DEF User
  <1>3. new.mfa = user.mfa /\ new.secret = user.secret
    BY UserType DEF User
  <1>4. new.attempts = user.attempts /\ new.until = user.until
    BY UserType DEF User
  <1>5. Remembers("spend", rest)
    BY <1>2 DEF Remembers
  <1>6. Coherent(user) => Coherent(new)
    BY <1>3, <1>4 DEF Coherent
  <1> HIDE DEF new, rest
  <1> QED BY <1>1, <1>2, <1>5, <1>6, BeginKeeps

LEMMA SsoLoginReadKeeps ==
    ASSUME RowInv, NEW w \in Workers, SsoLoginRead(w)
    PROVE  RowInv'
  <1> DEFINE known == [user EXCEPT !.verified = TRUE]
             new   == LoggedIn(known)
             D     == DOMAIN Changes(user, new) \cup {"codes"}
  <1>1. Load(w, "login", [c \in D |-> new[c]], Started) /\ Quiet
    BY DEF SsoLoginRead
  <1>2. known \in User /\ known.mfa = user.mfa /\ known.secret = user.secret
    BY UserType DEF User
  <1>3. known.attempts = user.attempts /\ known.until = user.until
    BY UserType DEF User
  <1>4. Coherent(user) => Coherent(known)
    BY <1>2, <1>3 DEF Coherent
  <1> HIDE DEF known
  <1>5. new \in User /\ (Coherent(user) => Coherent(new))
    BY <1>2, <1>4, LoggedInFits
  <1> HIDE DEF new
  <1>6. DOMAIN user = Columns
    BY UserType DEF User, Columns
  <1>7. D \in SUBSET Columns /\ \A c \in Columns \ D : new[c] = user[c]
    BY <1>6 DEF Changes, Columns
  <1> HIDE DEF D
  <1>8. Fitting([c \in D |-> new[c]]) /\ Written(user, [c \in D |-> new[c]]) = new
    BY <1>5, <1>7, UserType, WrittenFits
  <1>9. Remembers("login", Started)
    BY UserType DEF Remembers, Started
  <1>10. CallsSound'
    BY <1>1, <1>5, <1>8, <1>9, LoadedSound
  <1>11. TypeOK' /\ (~raced => Coherent(user))'
    BY <1>1 DEF Quiet, RowInv, TypeOK
  <1> QED BY <1>10, <1>11 DEF RowInv

LEMMA GuestReadKeeps ==
    ASSUME RowInv, NEW w \in Workers, GuestRead(w)
    PROVE  RowInv'
  <1>1. Remembers("guest", Started)
    BY UserType DEF Remembers, Started
  <1> QED BY <1>1, UserType, BeginKeeps DEF GuestRead

(* What a call in progress remembers *)
LEMMA Remembered ==
    ASSUME RowInv, NEW w \in Workers
    PROVE  Remembers(op[w].kind, op[w].rest)
  BY DEF RowInv, CallsSound, Sound

LEMMA LogInCommitsKeep ==
    ASSUME RowInv, NEW w \in Workers,
           FailedLoginCommit(w) \/ LoginCommit(w) \/ GuestCommit(w)
    PROVE  RowInv'
  <1>1. CASE FailedLoginCommit(w)
    <2>1. op[w].kind \in Writing /\ Save(w) /\ Finish(w)
      BY <1>1 DEF FailedLoginCommit, Serving, Writing
    <2>2. user' \in User /\ raced' \in BOOLEAN /\ (~raced' => Coherent(user')) /\ CallsSound'
      BY <2>1, SaveKeeps, CallOver DEF RowInv
    <2> QED BY <1>1, <2>2 DEF FailedLoginCommit, RowInv, TypeOK
  <1>2. CASE LoginCommit(w)
    <2>1. op[w].kind = "login" /\ Save(w) /\ Finish(w) /\ OpenSession(w, "own")
      BY <1>2 DEF LoginCommit, Serving
    <2>2. user' \in User /\ raced' \in BOOLEAN /\ (~raced' => Coherent(user')) /\ CallsSound'
      BY <2>1, SaveKeeps, CallOver DEF RowInv, Writing
    <2>3. sessions' \in [Sessions -> Session] /\ handed' \in [Token -> 0 .. 2]
      BY <2>1, Remembered, OpenSessionType DEF Remembers, RowInv
    <2> QED BY <1>2, <2>2, <2>3 DEF LoginCommit, RowInv, TypeOK
  <1>3. CASE GuestCommit(w)
    <2>1. op[w].kind = "guest" /\ Finish(w) /\ OpenSession(w, "special")
      BY <1>3 DEF GuestCommit, Serving
    <2>2. CallsSound'
      BY <2>1, CallOver DEF RowInv
    <2>3. sessions' \in [Sessions -> Session] /\ handed' \in [Token -> 0 .. 2]
      BY <2>1, Remembered, OpenSessionType DEF Remembers, RowInv
    <2> QED BY <1>3, <2>2, <2>3 DEF GuestCommit, RowInv, TypeOK
  <1> QED BY <1>1, <1>2, <1>3

LEMMA SpendCommitKeeps ==
    ASSUME RowInv, NEW w \in Workers, SpendCommit(w)
    PROVE  RowInv'
  <1> DEFINE todo == [kind |-> "admitted", next |-> op[w].rest.next, basis |-> {}]
  <1>1. /\ op[w].kind = "spend" /\ op[w].kind \in Writing /\ Save(w)
        /\ op' = [op EXCEPT ![w] = todo]
    BY DEF SpendCommit, Serving, Writing, Save, CodeTaken
  <1>2. user' \in User /\ raced' \in BOOLEAN /\ (~raced' => Coherent(user'))
    BY <1>1, SaveKeeps
  <1>3. Sound(todo)
    BY DEF Sound, Writing, Remembers
  <1>4. CallsSound'
    BY <1>1, <1>3, CallReplaced DEF RowInv
  <1>5. op[w].rest.code \in Codes
    BY <1>1, Remembered DEF Remembers
  <1> QED BY <1>2, <1>4, <1>5 DEF SpendCommit, RowInv, TypeOK

(* Calls that made recovery codes *)
LEMMA NewCodesKeeps ==
    ASSUME RowInv, NEW w \in Workers, NEW row \in User, NewCodes(w, row),
           Coherent(user) => Coherent([row EXCEPT !.codes = {issued + 1}])
    PROVE  RowInv'
  <1> DEFINE new == [row EXCEPT !.codes = {issued + 1}]
  <1>1. issued + 1 \in Codes /\ issued' \in 0 .. MaxCodes
    BY AccountsAssumption DEF NewCodes, RowInv, TypeOK, Codes
  <1>2. new \in User
    BY <1>1 DEF User
  <1>3. Load(w, "row", Changes(user, new), Nothing)
    BY DEF NewCodes
  <1>4. CallsSound'
    BY <1>2, <1>3, UserType, ChangesFit, LoadedSound, NothingRemembered
  <1> QED BY <1>1, <1>4 DEF NewCodes, RowInv, TypeOK

(* New codes leave a row coherent. *)
LEMMA CodesCoherent ==
    ASSUME NEW row \in User, NEW codes
    PROVE  Coherent([row EXCEPT !.codes = codes]) <=> Coherent(row)
  <1>1. /\ [row EXCEPT !.codes = codes].mfa = row.mfa
        /\ [row EXCEPT !.codes = codes].secret = row.secret
        /\ [row EXCEPT !.codes = codes].attempts = row.attempts
        /\ [row EXCEPT !.codes = codes].until = row.until
    BY DEF User
  <1> QED BY <1>1 DEF Coherent

LEMMA AdmittedReadKeeps ==
    ASSUME RowInv, NEW w \in Workers, AdmittedRead(w)
    PROVE  RowInv'
  <1> DEFINE Goes(new, kind, rest) == Load(w, kind, Changes(user, new), rest) /\ Quiet
  <1>1. ASSUME NEW new \in User, NEW kind, NEW rest, Remembers(kind, rest), Goes(new, kind, rest),
               Coherent(user) => Coherent(new)
        PROVE  RowInv'
    <2>1. CallsSound'
      BY <1>1, UserType, ChangesFit, LoadedSound
    <2>2. TypeOK' /\ (~raced => Coherent(user))'
      BY <1>1 DEF Quiet, RowInv, TypeOK
    <2> QED BY <2>1, <2>2 DEF RowInv
  <1>2. \/ Goes(LoggedIn(user), "login", Started)
        \/ Goes(Disabled(user), "row", Nothing)
        \/ NewCodes(w, user)
    BY DEF AdmittedRead
  <1> HIDE DEF Goes
  <1>3. CASE Goes(LoggedIn(user), "login", Started)
    <2>1. Remembers("login", Started)
      BY UserType DEF Remembers, Started
    <2> QED BY <1>1, <1>3, <2>1, UserType, LoggedInFits
  <1>4. CASE Goes(Disabled(user), "row", Nothing)
    BY <1>1, <1>4, UserType, DisabledFits, NothingRemembered
  <1>5. CASE NewCodes(w, user)
    BY <1>5, UserType, CodesCoherent, NewCodesKeeps
  <1> QED BY <1>2, <1>3, <1>4, <1>5

LEMMA LogInKeeps ==
    ASSUME RowInv, NEW w \in Workers, LogIn(w)
    PROVE  RowInv'
  BY FailedLoginReadKeeps, LoginReadKeeps, SsoLoginReadKeeps, GuestReadKeeps, SpendReadKeeps,
     LogInCommitsKeep, SpendCommitKeeps, AdmittedReadKeeps DEF LogIn

LEMMA RefreshCommitKeeps ==
    ASSUME RowInv, NEW w \in Workers, RefreshCommit(w)
    PROVE  RowInv'
  <1>1. /\ op[w].rest.began \in 0 .. MaxTime
        /\ op[w].rest.session \in Sessions /\ op[w].rest.row \in Session
    BY Remembered DEF RefreshCommit, Serving, Remembers
  <1>2. PICK at \in op[w].rest.began .. now :
          LET token == [payload |-> "own", at |-> at]
          IN  /\ sessions' = [sessions EXCEPT ![op[w].rest.session] = Refreshed(w, token)]
              /\ exchanged' = exchanged \cup ({op[w].rest.row.token} \ {token})
              /\ HandOut(token)
    BY DEF RefreshCommit
  <1> DEFINE token == [payload |-> "own", at |-> at]
  <1>3. token \in Token /\ op[w].rest.row.token \in Token
    BY <1>1, UserType, AccountsAssumption DEF Token, Session
  <1> HIDE DEF token
  <1>4. Refreshed(w, token) \in Session
    BY <1>1, <1>3 DEF Refreshed, Session, RowInv, TypeOK
  <1>5. sessions' \in [Sessions -> Session] /\ exchanged' \subseteq Token
    BY <1>1, <1>2, <1>3, <1>4 DEF RowInv, TypeOK, token
  <1>6. handed' \in [Token -> 0 .. 2]
    BY <1>2, <1>3 DEF HandOut, RowInv, TypeOK, token
  <1>7. CallsSound'
    BY CallOver DEF RefreshCommit, RowInv
  <1> QED BY <1>5, <1>6, <1>7 DEF RefreshCommit, RowInv, TypeOK

LEMMA RevokedType ==
    ASSUME TypeOK, NEW ending
    PROVE  Revoked(ending) \in [Sessions -> Session]
  BY DEF Revoked, TypeOK, Session

LEMMA KeepSessionsKeeps ==
    ASSUME RowInv, NEW w \in Workers, KeepSessions(w)
    PROVE  RowInv'
  <1>1. ASSUME NEW s \in Open, RefreshRead(w, s)
        PROVE  RowInv'
    <2> DEFINE rest == [session |-> s, row |-> sessions[s], began |-> now]
    <2>1. Remembers("refresh", rest)
      BY UserType DEF Remembers, Open, RowInv, TypeOK
    <2>2. Begin(w, "refresh", user, rest)
      BY <1>1 DEF RefreshRead
    <2> HIDE DEF rest
    <2> QED BY <2>1, <2>2, UserType, BeginKeeps
  <1>2. ASSUME NEW s \in Open, RevokeSession(w, s)
        PROVE  RowInv'
    BY <1>2, RevokedType DEF RevokeSession, RowInv, TypeOK, CallsSound
  <1>3. CASE RefreshCommit(w)
    BY <1>3, RefreshCommitKeeps
  <1>4. CASE RevokeAllRead(w)
    BY <1>4, UserType, BeginKeeps, NothingRemembered DEF RevokeAllRead
  <1>5. ASSUME NEW ending \in SUBSET Open, ChangePasswordRead(w, ending)
        PROVE  RowInv'
    BY <1>5, UserType, PasswordChangedFits, BeginKeeps, NothingRemembered DEF ChangePasswordRead
  <1>6. CASE EndSessionsCommit(w)
    <2>1. op[w].kind \in Writing /\ Save(w) /\ Finish(w)
      BY <1>6 DEF EndSessionsCommit, Serving, Writing
    <2>2. user' \in User /\ raced' \in BOOLEAN /\ (~raced' => Coherent(user')) /\ CallsSound'
      BY <2>1, SaveKeeps, CallOver DEF RowInv
    <2> QED BY <1>6, <2>2, RevokedType DEF EndSessionsCommit, RowInv, TypeOK
  <1> QED BY <1>1, <1>2, <1>3, <1>4, <1>5, <1>6 DEF KeepSessions

LEMMA NewMailType ==
    ASSUME TypeOK, NEW type \in {"verification", "reset"}, NewMail(type)
    PROVE  mails' \in [Mails -> Mail]
  <1>1. CASE UNCHANGED mails
    BY <1>1 DEF TypeOK
  <1>2. CASE ~UNCHANGED mails
    <2>1. PICK m \in Mails : mails' = [mails EXCEPT ![m] = [type |-> type, state |-> "pending"]]
      BY <1>2 DEF NewMail
    <2> QED BY <2>1 DEF TypeOK, Mail
  <1> QED BY <1>1, <1>2

LEMMA ConsumedType ==
    ASSUME TypeOK, NEW m \in Mails
    PROVE  Consumed(m) \in [Mails -> Mail]
  BY DEF Consumed, TypeOK, Mail

LEMMA UseMailKeeps ==
    ASSUME RowInv, NEW w \in Workers, UseMail(w)
    PROVE  RowInv'
  <1>1. ASSUME NEW type \in {"verification", "reset"}, SendMail(w, type)
        PROVE  RowInv'
    BY <1>1, NewMailType DEF SendMail, RowInv, TypeOK, CallsSound
  <1>2. ASSUME NEW m \in Mails, VerifyEmailRead(w, m)
        PROVE  RowInv'
    <2> DEFINE new == [user EXCEPT !.verified = TRUE]
    <2>1. new \in User /\ new.mfa = user.mfa /\ new.secret = user.secret
      BY UserType DEF User
    <2>2. new.attempts = user.attempts /\ new.until = user.until
      BY UserType DEF User
    <2>3. Coherent(user) => Coherent(new)
      BY <2>1, <2>2 DEF Coherent
    <2>4. Begin(w, "redeem", new, [mail |-> m]) /\ Remembers("redeem", [mail |-> m])
      BY <1>2 DEF VerifyEmailRead, Remembers
    <2> HIDE DEF new
    <2> QED BY <2>1, <2>3, <2>4, BeginKeeps
  <1>3. ASSUME NEW m \in Mails, ResetPasswordRead(w, m)
        PROVE  RowInv'
    <2>1. Begin(w, "redeem", LoggedIn(user), [mail |-> m]) /\ Remembers("redeem", [mail |-> m])
      BY <1>3 DEF ResetPasswordRead, Remembers
    <2> QED BY <2>1, UserType, LoggedInFits, BeginKeeps
  <1>4. ASSUME NEW m \in Mails, ResendRead(w, m)
        PROVE  RowInv'
    <2>1. Begin(w, "resend", user, [mail |-> m]) /\ Remembers("resend", [mail |-> m])
      BY <1>4 DEF ResendRead, Remembers
    <2> QED BY <2>1, UserType, BeginKeeps
  <1>5. CASE RedeemCommit(w)
    <2>1. op[w].kind = "redeem" /\ Save(w) /\ Finish(w)
      BY <1>5 DEF RedeemCommit, Serving
    <2>2. user' \in User /\ raced' \in BOOLEAN /\ (~raced' => Coherent(user')) /\ CallsSound'
      BY <2>1, SaveKeeps, CallOver DEF RowInv, Writing
    <2>3. op[w].rest.mail \in Mails
      BY <2>1, Remembered DEF Remembers
    <2>4. mails' \in [Mails -> Mail] /\ uses' \in [Mails -> Nat]
      BY <1>5, <2>3, ConsumedType DEF RedeemCommit, RowInv, TypeOK
    <2> QED BY <1>5, <2>2, <2>4 DEF RedeemCommit, RowInv, TypeOK
  <1>6. CASE ResendCommit(w)
    <2> DEFINE todo == [kind |-> "send", basis |-> {}]
    <2>1. op[w].rest.mail \in Mails
      BY <1>6, Remembered DEF ResendCommit, Serving, Remembers
    <2>2. Sound(todo)
      BY DEF Sound, Writing, Remembers
    <2>3. CallsSound'
      BY <1>6, <2>2, CallReplaced DEF ResendCommit, RowInv
    <2> QED BY <1>6, <2>1, <2>3, ConsumedType DEF ResendCommit, RowInv, TypeOK
  <1>7. CASE ResendSends(w)
    <2>1. CallsSound' /\ mails' \in [Mails -> Mail]
      BY <1>7, CallOver, NewMailType DEF ResendSends, RowInv
    <2> QED BY <1>7, <2>1 DEF ResendSends, RowInv, TypeOK
  <1> QED BY <1>1, <1>2, <1>3, <1>4, <1>5, <1>6, <1>7 DEF UseMail

(* A commit of the user's row alone, without a call that prepared it *)
LEMMA RowSet ==
    ASSUME RowInv, NEW new \in User, Coherent(user) => Coherent(new), user' = new,
           UNCHANGED <<now, sessions, mails, issued, spent, uses, handed, exchanged, raced, op>>
    PROVE  RowInv'
  BY DEF RowInv, TypeOK, CallsSound

LEMMA ManageKeeps ==
    ASSUME RowInv, NEW w \in Workers, Manage(w)
    PROVE  RowInv'
  <1>1. CASE SetupMfa(w)
    <2> DEFINE new == [user EXCEPT !.secret = TRUE]
    <2>1. new \in User /\ new.secret
      BY UserType DEF User
    <2>2. new.attempts = user.attempts /\ new.until = user.until
      BY UserType DEF User
    <2>3. Coherent(user) => Coherent(new)
      BY <2>1, <2>2 DEF Coherent
    <2>4. user' = new
      BY <1>1 DEF SetupMfa
    <2> HIDE DEF new
    <2> QED BY <1>1, <2>1, <2>3, <2>4, RowSet DEF SetupMfa
  <1>2. CASE VerifySetupRead(w)
    <2> DEFINE row == [user EXCEPT !.mfa = TRUE]
    <2>1. row \in User /\ row.secret = user.secret
      BY UserType DEF User
    <2>2. row.attempts = user.attempts /\ row.until = user.until
      BY UserType DEF User
    <2>3. Coherent(user) => Coherent(row)
      BY <1>2, <2>1, <2>2 DEF Coherent, VerifySetupRead
    <2>4. NewCodes(w, row)
      BY <1>2 DEF VerifySetupRead
    <2> HIDE DEF row
    <2> QED BY <2>1, <2>3, <2>4, CodesCoherent, NewCodesKeeps
  <1>3. CASE RegenerateRead(w)
    BY <1>3, UserType, CodesCoherent, NewCodesKeeps DEF RegenerateRead
  <1>4. CASE DisableRead(w)
    BY <1>4, UserType, DisabledFits, BeginKeeps, NothingRemembered DEF DisableRead
  <1>5. CASE WriteMetadataRead(w)
    <2>1. Load(w, "row", [codes |-> user.codes], Nothing) /\ Quiet
      BY <1>5 DEF WriteMetadataRead
    <2>2. [codes |-> user.codes] = [c \in {"codes"} |-> user[c]]
      OBVIOUS
    <2>3. Fitting([codes |-> user.codes]) /\ Written(user, [codes |-> user.codes]) = user
      BY <2>2, UserType, WrittenFits DEF Columns
    <2>4. CallsSound'
      BY <2>1, <2>3, UserType, LoadedSound, NothingRemembered
    <2> QED BY <2>1, <2>4 DEF Quiet, RowInv, TypeOK
  <1>6. CASE RestoreRead(w)
    <2> DEFINE new == [user EXCEPT !.status = "active", !.verified = FALSE, !.codes = {}]
    <2>1. new \in User /\ new.mfa = user.mfa /\ new.secret = user.secret
      BY UserType DEF User
    <2>2. new.attempts = user.attempts /\ new.until = user.until
      BY UserType DEF User
    <2>3. Coherent(user) => Coherent(new)
      BY <2>1, <2>2 DEF Coherent
    <2>4. Begin(w, "row", new, Nothing)
      BY <1>6 DEF RestoreRead
    <2> HIDE DEF new
    <2> QED BY <2>1, <2>3, <2>4, BeginKeeps, NothingRemembered
  <1>7. CASE RowCommit(w)
    <2>1. op[w].kind \in Writing /\ Save(w) /\ Finish(w)
      BY <1>7 DEF RowCommit, Serving, Writing
    <2>2. user' \in User /\ raced' \in BOOLEAN /\ (~raced' => Coherent(user')) /\ CallsSound'
      BY <2>1, SaveKeeps, CallOver DEF RowInv
    <2> QED BY <1>7, <2>2 DEF RowCommit, RowInv, TypeOK
  <1>8. ASSUME NEW status \in {"active", "inactive"}, SetStatus(w, status)
        PROVE  RowInv'
    <2> DEFINE new == [user EXCEPT !.status = status]
    <2>1. new \in User /\ new.mfa = user.mfa /\ new.secret = user.secret
      BY UserType DEF User
    <2>2. new.attempts = user.attempts /\ new.until = user.until
      BY UserType DEF User
    <2>3. Coherent(user) => Coherent(new)
      BY <2>1, <2>2 DEF Coherent
    <2>4. user' = new
      BY <1>8 DEF SetStatus
    <2> HIDE DEF new
    <2> QED BY <1>8, <2>1, <2>3, <2>4, RowSet DEF SetStatus
  <1> QED BY <1>1, <1>2, <1>3, <1>4, <1>5, <1>6, <1>7, <1>8 DEF Manage

LEMMA RowStep == RowInv /\ [Next]_vars => RowInv'
  <1> SUFFICES ASSUME RowInv, [Next]_vars PROVE RowInv'
    OBVIOUS
  <1>1. CASE Tick
    BY <1>1, AccountsAssumption DEF Tick, RowInv, TypeOK, CallsSound
  <1>2. ASSUME NEW w \in Workers, Abort(w)
        PROVE  RowInv'
    BY <1>2, CallOver DEF Abort, Quiet, RowInv, TypeOK
  <1>3. CASE UNCHANGED vars
    BY <1>3 DEF vars, RowInv, TypeOK, CallsSound
  <1> QED BY <1>1, <1>2, <1>3, LogInKeeps, KeepSessionsKeeps, UseMailKeeps, ManageKeeps DEF Next

(* Rows, tokens and what calls remember of them keep their shape: every    *)
(* handler of one user's account (auth.py, mfa.py).                        *)
THEOREM TypeCorrect == Spec => []TypeOK
  <1>1. RowInv => TypeOK
    BY DEF RowInv
  <1> QED BY <1>1, RowInit, RowStep, PTL DEF Spec

(* As long as no commit went by a user row that had changed, a second      *)
(* factor that is asked for has its secret (verify_setup, disable).        *)
THEOREM FactorHasSecret == Spec => []MfaHasSecret
  <1>1. RowInv => MfaHasSecret
    BY DEF RowInv, Coherent, MfaHasSecret
  <1> QED BY <1>1, RowInit, RowStep, PTL DEF Spec

(* ... and the full count of failed logins comes with a lock               *)
(* (resolve_local_user_for_login and everything that ends a lock).         *)
THEOREM LockComesWithCount == Spec => []LockFollowsAttempts
  <1>1. RowInv => LockFollowsAttempts
    BY DEF RowInv, Coherent, LockFollowsAttempts
  <1> QED BY <1>1, RowInit, RowStep, PTL DEF Spec

-----------------------------------------------------------------------------
(* What a step may touch *)

Alone(w) == \A v \in Workers \ {w} : op'[v] = op[v]

LEMMA OneCall ==
    ASSUME RowInv, NEW w \in Workers, NEW todo, op' = [op EXCEPT ![w] = todo]
    PROVE  Alone(w) /\ op'[w] = todo
  BY DEF RowInv, CallsSound, Alone

LEMMA LoadFrame ==
    ASSUME RowInv, NEW w \in Workers, NEW kind, NEW changes, NEW rest, Load(w, kind, changes, rest)
    PROVE  Alone(w) /\ op'[w].kind = kind /\ op'[w].rest = rest
  <1> DEFINE todo == [kind |-> kind, changes |-> changes, rest |-> rest,
                      basis |-> IF DOMAIN changes = {} THEN {} ELSE {user}]
  <1>1. op' = [op EXCEPT ![w] = todo] /\ todo.kind = kind /\ todo.rest = rest
    BY DEF Load
  <1> HIDE DEF todo
  <1> QED BY <1>1, OneCall

LEMMA BeginFrame ==
    ASSUME RowInv, NEW w \in Workers, NEW kind, NEW new, NEW rest, Begin(w, kind, new, rest)
    PROVE  /\ Alone(w) /\ op[w].kind = "idle" /\ Quiet
           /\ op'[w].kind = kind /\ op'[w].rest = rest
  <1>1. Load(w, kind, Changes(user, new), rest) /\ op[w].kind = "idle" /\ Quiet
    BY DEF Begin, Serving
  <1> QED BY <1>1, LoadFrame

LEMMA FinishFrame ==
    ASSUME RowInv, NEW w \in Workers, Finish(w)
    PROVE  Alone(w) /\ op'[w].kind = "idle"
  <1>1. Idle.kind = "idle"
    BY DEF Idle
  <1> QED BY <1>1, OneCall DEF Finish

LEMMA NewCodesFrame ==
    ASSUME RowInv, NEW w \in Workers, NEW row, NewCodes(w, row)
    PROVE  /\ Alone(w) /\ op'[w].kind = "row"
           /\ UNCHANGED <<sessions, mails, uses, handed, exchanged>>
  BY LoadFrame DEF NewCodes

LEMMA LogInFrame ==
    ASSUME RowInv, NEW w \in Workers, LogIn(w)
    PROVE  /\ Alone(w) /\ op'[w].kind \notin {"refresh", "redeem"}
           /\ UNCHANGED <<mails, uses, exchanged>>
           /\ \/ UNCHANGED <<sessions, handed>>
              \/ op[w].kind \in {"login", "guest"}
                 /\ \E payload \in {"own", "special"} : OpenSession(w, payload)
  <1>1. CASE FailedLoginRead(w)
    BY <1>1, BeginFrame DEF FailedLoginRead, Quiet
  <1>2. CASE FailedLoginCommit(w)
    BY <1>2, FinishFrame DEF FailedLoginCommit
  <1>3. CASE LoginRead(w)
    BY <1>3, BeginFrame DEF LoginRead, Quiet
  <1>4. CASE SsoLoginRead(w)
    BY <1>4, LoadFrame DEF SsoLoginRead, Quiet
  <1>5. CASE LoginCommit(w) \/ GuestCommit(w)
    BY <1>5, FinishFrame DEF LoginCommit, GuestCommit, Serving
  <1>6. CASE GuestRead(w)
    BY <1>6, BeginFrame DEF GuestRead, Quiet
  <1>7. ASSUME NEW code \in user.codes, NEW next \in {"login", "codes", "disable"},
               SpendRead(w, code, next)
        PROVE  /\ Alone(w) /\ op'[w].kind \notin {"refresh", "redeem"}
               /\ UNCHANGED <<mails, uses, exchanged, sessions, handed>>
    BY <1>7, BeginFrame DEF SpendRead, Quiet
  <1>8. CASE SpendCommit(w)
    <2> DEFINE todo == [kind |-> "admitted", next |-> op[w].rest.next, basis |-> {}]
    <2>1. op' = [op EXCEPT ![w] = todo] /\ todo.kind = "admitted"
      BY <1>8 DEF SpendCommit
    <2> HIDE DEF todo
    <2> QED BY <1>8, <2>1, OneCall DEF SpendCommit
  <1>9. CASE AdmittedRead(w)
    BY <1>9, LoadFrame, NewCodesFrame DEF AdmittedRead, Quiet
  <1> QED BY <1>1, <1>2, <1>3, <1>4, <1>5, <1>6, <1>7, <1>8, <1>9 DEF LogIn

LEMMA ManageFrame ==
    ASSUME RowInv, NEW w \in Workers, Manage(w)
    PROVE  /\ Alone(w) /\ op'[w].kind \notin {"refresh", "redeem"}
           /\ UNCHANGED <<sessions, mails, uses, handed, exchanged>>
  <1>1. CASE SetupMfa(w) \/ \E status \in {"active", "inactive"} : SetStatus(w, status)
    BY <1>1 DEF SetupMfa, SetStatus, Serving, Alone
  <1>2. CASE VerifySetupRead(w) \/ RegenerateRead(w)
    BY <1>2, NewCodesFrame DEF VerifySetupRead, RegenerateRead
  <1>3. CASE DisableRead(w) \/ RestoreRead(w)
    BY <1>3, BeginFrame DEF DisableRead, RestoreRead, Quiet
  <1>4. CASE WriteMetadataRead(w)
    BY <1>4, LoadFrame DEF WriteMetadataRead, Quiet
  <1>5. CASE RowCommit(w)
    BY <1>5, FinishFrame DEF RowCommit
  <1> QED BY <1>1, <1>2, <1>3, <1>4, <1>5 DEF Manage

LEMMA KeepSessionsFrame ==
    ASSUME RowInv, NEW w \in Workers, KeepSessions(w)
    PROVE  /\ Alone(w) /\ op'[w].kind # "redeem" /\ UNCHANGED <<mails, uses>>
           /\ \/ \E s \in Open : RefreshRead(w, s)
              \/ RefreshCommit(w)
              \/ /\ op'[w].kind # "refresh" /\ UNCHANGED <<handed, exchanged>>
                 /\ UNCHANGED sessions \/ \E ending : sessions' = Revoked(ending)
  <1>1. ASSUME NEW s \in Open, RefreshRead(w, s)
        PROVE  Alone(w) /\ op'[w].kind # "redeem" /\ UNCHANGED <<mails, uses>>
    BY <1>1, BeginFrame DEF RefreshRead, Quiet
  <1>2. ASSUME NEW s \in Open, RevokeSession(w, s)
        PROVE  /\ Alone(w) /\ op'[w].kind \notin {"refresh", "redeem"}
               /\ UNCHANGED <<mails, uses, handed, exchanged>>
               /\ \E ending : sessions' = Revoked(ending)
    BY <1>2 DEF RevokeSession, Serving, Alone
  <1>3. CASE RefreshCommit(w)
    BY <1>3, FinishFrame DEF RefreshCommit
  <1>4. CASE RevokeAllRead(w) \/ \E ending \in SUBSET Open : ChangePasswordRead(w, ending)
    <2>1. PICK new, rest : Begin(w, "end", new, rest)
      BY <1>4 DEF RevokeAllRead, ChangePasswordRead
    <2> QED BY <2>1, BeginFrame DEF Quiet
  <1>5. CASE EndSessionsCommit(w)
    BY <1>5, FinishFrame DEF EndSessionsCommit
  <1> QED BY <1>1, <1>2, <1>3, <1>4, <1>5 DEF KeepSessions

LEMMA UseMailFrame ==
    ASSUME RowInv, NEW w \in Workers, UseMail(w)
    PROVE  /\ Alone(w) /\ op'[w].kind # "refresh"
           /\ UNCHANGED <<sessions, handed, exchanged>>
  <1>1. CASE \E type \in {"verification", "reset"} : SendMail(w, type)
    BY <1>1 DEF SendMail, Serving, Alone
  <1>2. CASE \E m \in Mails : VerifyEmailRead(w, m) \/ ResetPasswordRead(w, m) \/ ResendRead(w, m)
    <2>1. PICK kind \in {"redeem", "resend"} : \E new, rest : Begin(w, kind, new, rest)
      BY <1>2 DEF VerifyEmailRead, ResetPasswordRead, ResendRead
    <2> QED BY <2>1, BeginFrame DEF Quiet
  <1>3. CASE RedeemCommit(w) \/ ResendSends(w)
    BY <1>3, FinishFrame DEF RedeemCommit, ResendSends
  <1>4. CASE ResendCommit(w)
    <2> DEFINE todo == [kind |-> "send", basis |-> {}]
    <2>1. op' = [op EXCEPT ![w] = todo] /\ todo.kind = "send"
      BY <1>4 DEF ResendCommit
    <2> HIDE DEF todo
    <2> QED BY <1>4, <2>1, OneCall DEF ResendCommit
  <1> QED BY <1>1, <1>2, <1>3, <1>4 DEF UseMail

-----------------------------------------------------------------------------
(* Revocation is final *)

LEMMA Inserted ==
    ASSUME RowInv, NEW w \in Workers, NEW payload \in {"own", "special"},
           op[w].kind \in {"login", "guest"}, OpenSession(w, payload)
    PROVE  \/ UNCHANGED <<sessions, handed>>
           \/ \E s \in Sessions, token \in Token :
                 /\ sessions[s].state = "absent"
                 /\ sessions' = [sessions EXCEPT ![s] = [state |-> "open", token |-> token]]
                 /\ HandOut(token)
  <1> SUFFICES ASSUME ~UNCHANGED <<sessions, handed>>
               PROVE  \E s \in Sessions, token \in Token :
                         /\ sessions[s].state = "absent"
                         /\ sessions' = [sessions EXCEPT ![s] = [state |-> "open", token |-> token]]
                         /\ HandOut(token)
    OBVIOUS
  <1>1. PICK s \in Sessions, at \in op[w].rest.began .. now :
          /\ sessions[s].state = "absent"
          /\ sessions' = [sessions EXCEPT ![s] =
                            [state |-> "open", token |-> [payload |-> payload, at |-> at]]]
          /\ HandOut([payload |-> payload, at |-> at])
    BY DEF OpenSession
  <1>2. op[w].rest.began \in 0 .. MaxTime
    BY Remembered DEF Remembers
  <1>3. [payload |-> payload, at |-> at] \in Token
    BY <1>2, UserType, AccountsAssumption DEF Token
  <1> QED BY <1>1, <1>3

(* What a refresh does to its session and to the tokens *)
LEMMA Exchanges ==
    ASSUME RowInv, NEW w \in Workers, RefreshCommit(w)
    PROVE  \E s \in Sessions, old \in Token, token \in Token :
              /\ op[w].rest.session = s /\ op[w].rest.row.token = old
              /\ HandOut(token)
              /\ \/ token = old /\ UNCHANGED <<sessions, exchanged>>
                 \/ /\ token # old
                    /\ sessions' = [sessions EXCEPT ![s].token = token]
                    /\ exchanged' = exchanged \cup {old}
  <1> DEFINE s == op[w].rest.session
             old == op[w].rest.row.token
  <1>1. /\ op[w].rest.began \in 0 .. MaxTime
        /\ s \in Sessions /\ op[w].rest.row \in Session
    BY Remembered DEF RefreshCommit, Serving, Remembers
  <1>2. PICK at \in op[w].rest.began .. now :
          LET token == [payload |-> "own", at |-> at]
          IN  /\ sessions' = [sessions EXCEPT ![s] = Refreshed(w, token)]
              /\ exchanged' = exchanged \cup ({old} \ {token})
              /\ HandOut(token)
    BY DEF RefreshCommit
  <1> DEFINE token == [payload |-> "own", at |-> at]
  <1>3. token \in Token /\ old \in Token
    BY <1>1, UserType, AccountsAssumption DEF Token, Session
  <1>4. /\ sessions' = [sessions EXCEPT ![s] = Refreshed(w, token)]
        /\ exchanged' = exchanged \cup ({old} \ {token})
        /\ HandOut(token)
    BY <1>2
  <1> HIDE DEF token
  <1>5. CASE token = old
    <2>1. sessions' = sessions
      BY <1>1, <1>4, <1>5 DEF Refreshed, RowInv, TypeOK
    <2>2. exchanged' = exchanged
      BY <1>4, <1>5
    <2> QED BY <1>1, <1>3, <1>4, <1>5, <2>1, <2>2
  <1>6. CASE token # old
    <2>1. sessions' = [sessions EXCEPT ![s].token = token]
      BY <1>1, <1>4, <1>6 DEF Refreshed, RowInv, TypeOK
    <2>2. exchanged' = exchanged \cup {old}
      BY <1>4, <1>6
    <2> QED BY <1>1, <1>3, <1>4, <1>6, <2>1, <2>2
  <1> QED BY <1>5, <1>6

LEMMA RevokedStays ==
    ASSUME RowInv, [Next]_vars, NEW s \in Sessions, sessions[s].state = "revoked"
    PROVE  sessions'[s].state = "revoked"
  <1> USE DEF RowInv, TypeOK
  <1>1. CASE UNCHANGED sessions
    BY <1>1
  <1>2. ASSUME NEW w \in Workers, LogIn(w)
        PROVE  sessions'[s].state = "revoked"
    BY <1>2, LogInFrame, Inserted
  <1>3. ASSUME NEW w \in Workers, KeepSessions(w)
        PROVE  sessions'[s].state = "revoked"
    <2>1. CASE RefreshCommit(w)
      <3>1. PICK r \in Sessions, token \in Token :
              UNCHANGED sessions \/ sessions' = [sessions EXCEPT ![r].token = token]
        BY <2>1, Exchanges
      <3> QED BY <3>1 DEF Session
    <2>2. ASSUME NEW ending, sessions' = Revoked(ending)
          PROVE  sessions'[s].state = "revoked"
      BY <2>2 DEF Revoked, Session
    <2>3. CASE \E r \in Open : RefreshRead(w, r)
      BY <2>3 DEF RefreshRead, Begin, Quiet
    <2> QED BY <1>1, <1>3, <2>1, <2>2, <2>3, KeepSessionsFrame
  <1>4. ASSUME NEW w \in Workers, UseMail(w) \/ Manage(w) \/ Abort(w)
        PROVE  UNCHANGED sessions
    BY <1>4, UseMailFrame, ManageFrame DEF Abort, Quiet
  <1>5. Tick \/ UNCHANGED vars => UNCHANGED sessions
    BY DEF Tick, vars
  <1> QED BY <1>1, <1>2, <1>3, <1>4, <1>5 DEF Next

(* A session that was revoked stays so, whatever a refresh that found it   *)
(* open writes afterwards (refresh, logout, revoke_session).               *)
THEOREM RevocationIsFinal == Spec => RevokedStaysRevoked
  <1>1. RowInv /\ [Next]_vars =>
          [\A s \in Sessions : sessions[s].state = "revoked" => sessions'[s].state = "revoked"]_vars
    BY RevokedStays
  <1> QED BY <1>1, RowInit, RowStep, PTL DEF Spec, RevokedStaysRevoked

-----------------------------------------------------------------------------
(* Tokens sent by e-mail *)

Redeeming(m) == {w \in Workers : op[w].kind = "redeem" /\ op[w].rest.mail = m}

UsesInv ==
    \A m \in Mails :
        /\ mails[m].state # "consumed" => uses[m] = 0
        /\ uses[m] + Cardinality(Redeeming(m)) <= Cardinality(Workers)

LEMMA RedeemingCounts ==
    ASSUME NEW m \in Mails
    PROVE  /\ IsFiniteSet(Redeeming(m))
           /\ Cardinality(Redeeming(m)) \in Nat /\ Cardinality(Workers) \in Nat
           /\ Cardinality(Redeeming(m)) <= Cardinality(Workers)
           /\ \A S \in SUBSET Redeeming(m) : Cardinality(S) <= Cardinality(Redeeming(m))
                                             /\ Cardinality(S) \in Nat
  <1>1. Redeeming(m) \in SUBSET Workers
    BY DEF Redeeming
  <1> QED BY <1>1, AccountsAssumption, FS_Subset, FS_CardinalityType

(* Nobody takes up a token, and none is written. *)
LEMMA UsesQuiet ==
    ASSUME RowInv, UsesInv, UNCHANGED <<mails, uses>>,
           \A v \in Workers : op'[v].kind = "redeem" => op'[v] = op[v]
    PROVE  UsesInv'
  <1> SUFFICES ASSUME NEW m \in Mails
               PROVE  /\ mails'[m].state # "consumed" => uses'[m] = 0
                      /\ uses'[m] + Cardinality(Redeeming(m)') <= Cardinality(Workers)
    BY DEF UsesInv
  <1>1. Redeeming(m)' \in SUBSET Redeeming(m)
    BY DEF Redeeming
  <1>2. uses[m] \in Nat
    BY DEF RowInv, TypeOK
  <1> QED BY <1>1, <1>2, RedeemingCounts DEF UsesInv

LEMMA UsesTaken ==
    ASSUME RowInv, UsesInv, UNCHANGED <<mails, uses>>, NEW w \in Workers, NEW m \in Mails,
           Alone(w), op[w].kind # "redeem",
           op'[w].kind = "redeem", op'[w].rest.mail = m, mails[m].state # "consumed"
    PROVE  UsesInv'
  <1> SUFFICES ASSUME NEW n \in Mails
               PROVE  /\ mails'[n].state # "consumed" => uses'[n] = 0
                      /\ uses'[n] + Cardinality(Redeeming(n)') <= Cardinality(Workers)
    BY DEF UsesInv
  <1>0. uses[n] \in Nat
    BY DEF RowInv, TypeOK
  <1>1. CASE n = m
    <2>1. uses[n] = 0
      BY <1>1 DEF UsesInv
    <2>2. Redeeming(n)' \in SUBSET Workers
      BY DEF Redeeming
    <2>3. Cardinality(Redeeming(n)') <= Cardinality(Workers) /\ Cardinality(Redeeming(n)') \in Nat
      BY <2>2, AccountsAssumption, FS_Subset, FS_CardinalityType
    <2> QED BY <2>1, <2>3, RedeemingCounts
  <1>2. CASE n # m
    <2>1. Redeeming(n)' \in SUBSET Redeeming(n)
      BY <1>2 DEF Redeeming, Alone
    <2> QED BY <1>0, <2>1, RedeemingCounts DEF UsesInv
  <1> QED BY <1>1, <1>2

LEMMA UsesRedeemed ==
    ASSUME RowInv, UsesInv, NEW w \in Workers, RedeemCommit(w)
    PROVE  UsesInv'
  <1> DEFINE m == op[w].rest.mail
  <1>1. /\ op[w].kind = "redeem" /\ Alone(w) /\ op'[w].kind = "idle"
        /\ mails' = Consumed(m) /\ uses' = [uses EXCEPT ![m] = @ + 1]
    BY FinishFrame DEF RedeemCommit, Serving
  <1>2. m \in Mails
    BY <1>1, Remembered DEF Remembers
  <1> SUFFICES ASSUME NEW n \in Mails
               PROVE  /\ mails'[n].state # "consumed" => uses'[n] = 0
                      /\ uses'[n] + Cardinality(Redeeming(n)') <= Cardinality(Workers)
    BY DEF UsesInv
  <1>0. uses[n] \in Nat
    BY DEF RowInv, TypeOK
  <1>3. CASE n = m
    <2>1. mails'[n].state = "consumed" /\ uses'[n] = uses[n] + 1
      BY <1>1, <1>2, <1>3 DEF Consumed, RowInv, TypeOK, Mail
    <2>2. w \in Redeeming(n) /\ Redeeming(n)' \in SUBSET (Redeeming(n) \ {w})
      BY <1>1, <1>3 DEF Redeeming, Alone
    <2>3. /\ Cardinality(Redeeming(n) \ {w}) = Cardinality(Redeeming(n)) - 1
          /\ IsFiniteSet(Redeeming(n) \ {w})
      BY <2>2, RedeemingCounts, FS_RemoveElement
    <2>4. /\ Cardinality(Redeeming(n)') <= Cardinality(Redeeming(n) \ {w})
          /\ Cardinality(Redeeming(n)') \in Nat
      BY <2>2, <2>3, FS_Subset, FS_CardinalityType
    <2> QED BY <1>0, <2>1, <2>3, <2>4, RedeemingCounts DEF UsesInv
  <1>4. CASE n # m
    <2>1. mails'[n] = mails[n] /\ uses'[n] = uses[n]
      BY <1>1, <1>2, <1>4 DEF Consumed, RowInv, TypeOK
    <2>2. Redeeming(n)' \in SUBSET Redeeming(n)
      BY <1>1 DEF Redeeming, Alone
    <2> QED BY <1>0, <2>1, <2>2, RedeemingCounts DEF UsesInv
  <1> QED BY <1>3, <1>4

(* A token is issued, or consumed without being redeemed. *)
LEMMA UsesMails ==
    ASSUME RowInv, UsesInv, UNCHANGED uses, NEW m \in Mails,
           \A n \in Mails \ {m} : mails'[n] = mails[n],
           mails'[m].state # "consumed" => mails[m].state # "consumed",
           \A v \in Workers : op'[v].kind = "redeem" => op'[v] = op[v]
    PROVE  UsesInv'
  <1> SUFFICES ASSUME NEW n \in Mails
               PROVE  /\ mails'[n].state # "consumed" => uses'[n] = 0
                      /\ uses'[n] + Cardinality(Redeeming(n)') <= Cardinality(Workers)
    BY DEF UsesInv
  <1>1. Redeeming(n)' \in SUBSET Redeeming(n)
    BY DEF Redeeming
  <1>2. uses[n] \in Nat /\ mails'[n].state # "consumed" => mails[n].state # "consumed"
    BY DEF RowInv, TypeOK
  <1>3. uses[n] \in Nat
    BY DEF RowInv, TypeOK
  <1> QED BY <1>1, <1>2, <1>3, RedeemingCounts DEF UsesInv

LEMMA UsesSent ==
    ASSUME RowInv, UsesInv, UNCHANGED uses, NEW type, NewMail(type),
           \A v \in Workers : op'[v].kind = "redeem" => op'[v] = op[v]
    PROVE  UsesInv'
  <1>1. CASE UNCHANGED mails
    BY <1>1, UsesQuiet
  <1>2. CASE ~UNCHANGED mails
    <2>1. PICK m \in Mails :
            /\ mails[m].state = "absent"
            /\ mails' = [mails EXCEPT ![m] = [type |-> type, state |-> "pending"]]
      BY <1>2 DEF NewMail
    <2>2. \A n \in Mails \ {m} : mails'[n] = mails[n]
      BY <2>1 DEF RowInv, TypeOK
    <2> QED BY <2>1, <2>2, UsesMails
  <1> QED BY <1>1, <1>2

LEMMA UseMailUses ==
    ASSUME RowInv, UsesInv, NEW w \in Workers, UseMail(w)
    PROVE  UsesInv'
  <1>1. ASSUME NEW type \in {"verification", "reset"}, SendMail(w, type)
        PROVE  UsesInv'
    BY <1>1, UsesSent DEF SendMail
  <1>2. ASSUME NEW m \in Mails, VerifyEmailRead(w, m) \/ ResetPasswordRead(w, m)
        PROVE  UsesInv'
    <2>1. mails[m].state # "consumed"
      BY <1>2 DEF VerifyEmailRead, ResetPasswordRead, Redeemable
    <2>2. PICK new : Begin(w, "redeem", new, [mail |-> m])
      BY <1>2 DEF VerifyEmailRead, ResetPasswordRead
    <2>3. /\ Alone(w) /\ op[w].kind # "redeem" /\ UNCHANGED <<mails, uses>>
          /\ op'[w].kind = "redeem" /\ op'[w].rest.mail = m
      BY <2>2, BeginFrame DEF Quiet
    <2> QED BY <2>1, <2>3, UsesTaken
  <1>3. ASSUME NEW m \in Mails, ResendRead(w, m)
        PROVE  UsesInv'
    <2>1. Alone(w) /\ op'[w].kind # "redeem" /\ UNCHANGED <<mails, uses>>
      BY <1>3, BeginFrame DEF ResendRead, Quiet
    <2> QED BY <2>1, UsesQuiet DEF Alone
  <1>4. CASE RedeemCommit(w)
    BY <1>4, UsesRedeemed
  <1>5. CASE ResendCommit(w)
    <2> DEFINE todo == [kind |-> "send", basis |-> {}]
               m    == op[w].rest.mail
    <2>1. op' = [op EXCEPT ![w] = todo] /\ todo.kind = "send"
      BY <1>5 DEF ResendCommit
    <2> HIDE DEF todo
    <2>2. Alone(w) /\ op'[w].kind # "redeem"
      BY <2>1, OneCall
    <2>3. m \in Mails /\ mails' = Consumed(m) /\ UNCHANGED uses
      BY <1>5, Remembered DEF ResendCommit, Serving, Remembers
    <2>4. mails'[m].state = "consumed" /\ \A n \in Mails \ {m} : mails'[n] = mails[n]
      BY <2>3 DEF Consumed, RowInv, TypeOK, Mail
    <2> QED BY <2>2, <2>3, <2>4, UsesMails DEF Alone
  <1>6. CASE ResendSends(w)
    <2>1. Alone(w) /\ op'[w].kind # "redeem"
      BY <1>6, FinishFrame DEF ResendSends
    <2> QED BY <1>6, <2>1, UsesSent DEF ResendSends, Alone
  <1> QED BY <1>1, <1>2, <1>3, <1>4, <1>5, <1>6 DEF UseMail

LEMMA UsesStep == RowInv /\ UsesInv /\ [Next]_vars => UsesInv'
  <1> SUFFICES ASSUME RowInv, UsesInv, [Next]_vars PROVE UsesInv'
    OBVIOUS
  <1>1. ASSUME NEW w \in Workers, LogIn(w) \/ KeepSessions(w) \/ Manage(w) \/ Abort(w)
        PROVE  UsesInv'
    <2>1. Alone(w) /\ op'[w].kind # "redeem" /\ UNCHANGED <<mails, uses>>
      BY <1>1, LogInFrame, KeepSessionsFrame, ManageFrame, FinishFrame DEF Abort, Quiet
    <2> QED BY <2>1, UsesQuiet DEF Alone
  <1>2. CASE Tick \/ UNCHANGED vars
    BY <1>2, UsesQuiet DEF Tick, vars
  <1> QED BY <1>1, <1>2, UseMailUses DEF Next

LEMMA UsesInit == Init => UsesInv
  <1> SUFFICES ASSUME Init, NEW m \in Mails
               PROVE  uses[m] = 0 /\ uses[m] + Cardinality(Redeeming(m)) <= Cardinality(Workers)
    BY DEF UsesInv
  <1>1. uses[m] = 0
    BY DEF Init
  <1> QED BY <1>1, RedeemingCounts

(* However many calls race to redeem a mailed token, it is redeemed by at  *)
(* most as many as run at once (verify_email, reset_password).             *)
THEOREM UsesBound == Spec => []UsesBounded
  <1>1. RowInv /\ UsesInv => UsesBounded
    <2> SUFFICES ASSUME RowInv, UsesInv, NEW m \in Mails
                 PROVE  uses[m] <= Cardinality(Workers)
      BY DEF UsesBounded
    <2>1. uses[m] \in Nat
      BY DEF RowInv, TypeOK
    <2> QED BY <2>1, RedeemingCounts DEF UsesInv
  <1> QED BY <1>1, RowInit, RowStep, UsesInit, UsesStep, PTL DEF Spec

-----------------------------------------------------------------------------
(* Exchanged refresh tokens *)

(* Tokens that are anywhere were handed out, those that are in two places  *)
(* twice; a token a refresh went by counts as one place with its session.  *)
HandedInv ==
    /\ \A s \in Open : handed[sessions[s].token] > 0
    /\ \A t \in exchanged : handed[t] > 0
    /\ \A s, r \in Open : s # r /\ sessions[s].token = sessions[r].token =>
          handed[sessions[s].token] > 1
    /\ ExchangedIsDead
    /\ \A w \in Workers : op[w].kind = "refresh" =>
          /\ handed[op[w].rest.row.token] > 0
          /\ \A s \in Open : s # op[w].rest.session /\ sessions[s].token = op[w].rest.row.token =>
                handed[sessions[s].token] > 1

LEMMA HandedTypes ==
    ASSUME RowInv
    PROVE  /\ sessions \in [Sessions -> Session] /\ exchanged \subseteq Token
           /\ \A s \in Sessions : sessions[s].token \in Token
           /\ \A t \in Token : handed[t] \in 0 .. 2
           /\ \A w \in Workers : op[w].kind = "refresh" =>
                 op[w].rest.session \in Sessions /\ op[w].rest.row.token \in Token
  BY Remembered DEF RowInv, TypeOK, Session, Remembers

(* A token handed out once more *)
LEMMA HandedMore ==
    ASSUME RowInv, NEW token \in Token, HandOut(token)
    PROVE  /\ \A t \in Token : handed'[t] >= handed[t] /\ handed'[t] \in 0 .. 2
           /\ handed'[token] > 0 /\ (handed[token] > 0 => handed'[token] > 1)
  BY DEF HandOut, RowInv, TypeOK

(* No token moves, sessions may close. *)
LEMMA HandedQuiet ==
    ASSUME RowInv, HandedInv, UNCHANGED <<handed, exchanged>>,
           \A s \in Open' : s \in Open /\ sessions'[s].token = sessions[s].token,
           \A v \in Workers : op'[v].kind = "refresh" => op'[v] = op[v]
    PROVE  HandedInv'
  BY DEF HandedInv, ExchangedIsDead

LEMMA HandedRead ==
    ASSUME RowInv, HandedInv, NEW w \in Workers, NEW s \in Open, RefreshRead(w, s)
    PROVE  HandedInv'
  <1> DEFINE rest == [session |-> s, row |-> sessions[s], began |-> now]
  <1>1. Begin(w, "refresh", user, rest) /\ rest.session = s /\ rest.row = sessions[s]
    BY DEF RefreshRead
  <1> HIDE DEF rest
  <1>2. /\ Alone(w) /\ op'[w].rest = rest
        /\ UNCHANGED <<sessions, handed, exchanged>>
    BY <1>1, BeginFrame DEF Quiet
  <1>3. \A v \in Workers : op'[v].kind = "refresh" =>
          /\ handed[op'[v].rest.row.token] > 0
          /\ \A r \in Open : r # op'[v].rest.session /\ sessions[r].token = op'[v].rest.row.token =>
                handed[sessions[r].token] > 1
    <2> SUFFICES ASSUME NEW v \in Workers, op'[v].kind = "refresh"
                 PROVE  /\ handed[op'[v].rest.row.token] > 0
                        /\ \A r \in Open : r # op'[v].rest.session
                                           /\ sessions[r].token = op'[v].rest.row.token =>
                              handed[sessions[r].token] > 1
      OBVIOUS
    <2>1. CASE v = w
      BY <1>1, <1>2, <2>1 DEF HandedInv
    <2>2. CASE v # w
      BY <1>2, <2>2 DEF HandedInv, Alone
    <2> QED BY <2>1, <2>2
  <1>4. Open' = Open
    BY <1>2 DEF Open
  <1> QED BY <1>2, <1>3, <1>4 DEF HandedInv, ExchangedIsDead

LEMMA HandedInserted ==
    ASSUME RowInv, HandedInv, NEW s \in Sessions, NEW token \in Token,
           sessions[s].state = "absent",
           sessions' = [sessions EXCEPT ![s] = [state |-> "open", token |-> token]],
           HandOut(token), UNCHANGED exchanged,
           \A v \in Workers : op'[v].kind = "refresh" => op'[v] = op[v]
    PROVE  HandedInv'
  <1>1. s \notin Open /\ Open' = Open \cup {s}
    BY HandedTypes DEF Open
  <1>2. sessions'[s].token = token /\ \A r \in Open : sessions'[r] = sessions[r] /\ r \in Sessions
    BY <1>1, HandedTypes DEF Open
  <1>3. \A r \in Open' : handed'[sessions'[r].token] > 0
    BY <1>1, <1>2, HandedTypes, HandedMore DEF HandedInv
  <1>4. \A t \in exchanged' : handed'[t] > 0
    BY HandedTypes, HandedMore DEF HandedInv
  <1>5. \A q, r \in Open' : q # r /\ sessions'[q].token = sessions'[r].token =>
          handed'[sessions'[q].token] > 1
    BY <1>1, <1>2, HandedTypes, HandedMore DEF HandedInv
  <1>6. \A r \in Open' : sessions'[r].token \in exchanged' => handed'[sessions'[r].token] > 1
    BY <1>1, <1>2, HandedTypes, HandedMore DEF HandedInv, ExchangedIsDead
  <1>7. \A v \in Workers : op'[v].kind = "refresh" =>
          /\ handed'[op'[v].rest.row.token] > 0
          /\ \A r \in Open' : r # op'[v].rest.session /\ sessions'[r].token = op'[v].rest.row.token =>
                handed'[sessions'[r].token] > 1
    BY <1>1, <1>2, HandedTypes, HandedMore DEF HandedInv
  <1> QED BY <1>3, <1>4, <1>5, <1>6, <1>7 DEF HandedInv, ExchangedIsDead

LEMMA HandedRefreshed ==
    ASSUME RowInv, HandedInv, NEW w \in Workers, RefreshCommit(w)
    PROVE  HandedInv'
  <1>1. PICK s \in Sessions, old \in Token, token \in Token :
          /\ op[w].rest.session = s /\ op[w].rest.row.token = old
          /\ HandOut(token)
          /\ \/ token = old /\ UNCHANGED <<sessions, exchanged>>
             \/ /\ token # old
                /\ sessions' = [sessions EXCEPT ![s].token = token]
                /\ exchanged' = exchanged \cup {old}
    BY Exchanges
  <1>2. op[w].kind = "refresh" /\ \A v \in Workers : op'[v].kind = "refresh" => op'[v] = op[v]
    BY FinishFrame DEF RefreshCommit, Serving, Alone
  <1>3. /\ \A t \in Token : handed'[t] >= handed[t] /\ handed'[t] \in 0 .. 2
        /\ handed'[token] > 0 /\ (handed[token] > 0 => handed'[token] > 1)
    BY <1>1, HandedMore
  <1>4. CASE token = old
    <2>1. Open' = Open /\ UNCHANGED <<sessions, exchanged>>
      BY <1>1, <1>4 DEF Open
    <2>2. Open \subseteq Sessions
      BY DEF Open
    <2>3. \A v \in Workers : op'[v].kind = "refresh" =>
            /\ handed'[op'[v].rest.row.token] > 0
            /\ \A r \in Open : r # op'[v].rest.session /\ sessions[r].token = op'[v].rest.row.token =>
                  handed'[sessions[r].token] > 1
      BY <1>2, <1>3, <2>2, HandedTypes DEF HandedInv
    <2> QED BY <1>3, <2>1, <2>2, <2>3, HandedTypes DEF HandedInv, ExchangedIsDead
  <1>5. CASE token # old
    <2>1. /\ sessions' = [sessions EXCEPT ![s].token = token]
          /\ exchanged' = exchanged \cup {old}
      BY <1>1, <1>5
    <2>2. /\ Open' = Open /\ Open \subseteq Sessions
          /\ sessions'[s].token = token
          /\ \A r \in Open \ {s} : sessions'[r] = sessions[r]
      BY <2>1, HandedTypes DEF Open, Session
    <2>3. /\ handed[old] > 0
          /\ \A r \in Open \ {s} : sessions[r].token = old => handed[old] > 1
      BY <1>1, <1>2 DEF HandedInv
    <2>4. \A r \in Open' : handed'[sessions'[r].token] > 0
      BY <1>3, <2>2, HandedTypes DEF HandedInv
    <2>5. \A t \in exchanged' : handed'[t] > 0
      BY <1>3, <2>1, <2>3, HandedTypes DEF HandedInv
    <2>6. \A q, r \in Open' : q # r /\ sessions'[q].token = sessions'[r].token =>
            handed'[sessions'[q].token] > 1
      BY <1>3, <2>2, HandedTypes DEF HandedInv
    <2>7. \A r \in Open' : sessions'[r].token \in exchanged' => handed'[sessions'[r].token] > 1
      BY <1>3, <1>5, <2>1, <2>2, <2>3, HandedTypes DEF HandedInv, ExchangedIsDead
    <2>8. \A v \in Workers : op'[v].kind = "refresh" =>
            /\ handed'[op'[v].rest.row.token] > 0
            /\ \A r \in Open' : r # op'[v].rest.session
                                /\ sessions'[r].token = op'[v].rest.row.token =>
                  handed'[sessions'[r].token] > 1
      BY <1>2, <1>3, <2>2, HandedTypes DEF HandedInv
    <2> QED BY <2>4, <2>5, <2>6, <2>7, <2>8 DEF HandedInv, ExchangedIsDead
  <1> QED BY <1>1, <1>4, <1>5

LEMMA RevokedOpens ==
    ASSUME RowInv, NEW ending, sessions' = Revoked(ending)
    PROVE  \A s \in Open' : s \in Open /\ sessions'[s].token = sessions[s].token
  BY HandedTypes DEF Revoked, Open, Session

LEMMA HandedStep == RowInv /\ HandedInv /\ [Next]_vars => HandedInv'
  <1> SUFFICES ASSUME RowInv, HandedInv, [Next]_vars PROVE HandedInv'
    OBVIOUS
  <1>1. ASSUME UNCHANGED <<sessions, handed, exchanged>>,
               \A v \in Workers : op'[v].kind = "refresh" => op'[v] = op[v]
        PROVE  HandedInv'
    <2>1. Open' = Open
      BY <1>1 DEF Open
    <2> QED BY <1>1, <2>1, HandedQuiet
  <1>2. ASSUME NEW w \in Workers, LogIn(w)
        PROVE  HandedInv'
    <2>1. \A v \in Workers : op'[v].kind = "refresh" => op'[v] = op[v]
      BY <1>2, LogInFrame DEF Alone
    <2>2. UNCHANGED exchanged
      BY <1>2, LogInFrame
    <2>3. CASE UNCHANGED <<sessions, handed>>
      BY <1>1, <2>1, <2>2, <2>3
    <2>4. CASE ~UNCHANGED <<sessions, handed>>
      <3>1. PICK s \in Sessions, token \in Token :
              /\ sessions[s].state = "absent"
              /\ sessions' = [sessions EXCEPT ![s] = [state |-> "open", token |-> token]]
              /\ HandOut(token)
        BY <1>2, <2>4, LogInFrame, Inserted
      <3> QED BY <2>1, <2>2, <3>1, HandedInserted
    <2> QED BY <2>3, <2>4
  <1>3. ASSUME NEW w \in Workers, KeepSessions(w)
        PROVE  HandedInv'
    <2>1. CASE \E s \in Open : RefreshRead(w, s)
      BY <2>1, HandedRead
    <2>2. CASE RefreshCommit(w)
      BY <2>2, HandedRefreshed
    <2>3. CASE /\ op'[w].kind # "refresh" /\ UNCHANGED <<handed, exchanged>>
               /\ UNCHANGED sessions \/ \E ending : sessions' = Revoked(ending)
      <3>1. \A v \in Workers : op'[v].kind = "refresh" => op'[v] = op[v]
        BY <1>3, <2>3, KeepSessionsFrame DEF Alone
      <3>2. CASE UNCHANGED sessions
        BY <1>1, <2>3, <3>1, <3>2
      <3>3. CASE \E ending : sessions' = Revoked(ending)
        BY <2>3, <3>1, <3>3, RevokedOpens, HandedQuiet
      <3> QED BY <2>3, <3>2, <3>3
    <2> QED BY <1>3, <2>1, <2>2, <2>3, KeepSessionsFrame
  <1>4. ASSUME NEW w \in Workers, UseMail(w) \/ Manage(w) \/ Abort(w)
        PROVE  HandedInv'
    <2>1. Alone(w) /\ op'[w].kind # "refresh" /\ UNCHANGED <<sessions, handed, exchanged>>
      BY <1>4, UseMailFrame, ManageFrame, FinishFrame DEF Abort, Quiet
    <2> QED BY <1>1, <2>1 DEF Alone
  <1>5. CASE Tick \/ UNCHANGED vars
    BY <1>1, <1>5 DEF Tick, vars
  <1> QED BY <1>2, <1>3, <1>4, <1>5 DEF Next

LEMMA HandedInit == Init => HandedInv
  BY DEF Init, HandedInv, ExchangedIsDead, Open, Idle

(* A refresh token that was exchanged is in no open session unless it was  *)
(* handed out twice, for any number of overlapping refreshes (refresh).    *)
THEOREM ExchangedStaysDead == Spec => []ExchangedIsDead
  <1>1. HandedInv => ExchangedIsDead
    BY DEF HandedInv
  <1> QED BY <1>1, RowInit, RowStep, HandedInit, HandedStep, PTL DEF Spec

-----------------------------------------------------------------------------
(* Recovery codes *)

(* The codes a call will leave on the user's list, and those it found there *)
Own(todo) == IF todo.kind \in Writing /\ "codes" \in DOMAIN todo.changes
             THEN todo.changes.codes ELSE {}
Old(todo) == UNION {row.codes : row \in todo.basis}

(* Codes made for a call are known to nobody else. *)
Fresh(w) == Own(op[w]) \ Old(op[w])

CodesInv ==
    /\ user.codes \cup spent \subseteq 1 .. issued
    /\ \A w \in Workers :
          /\ Own(op[w]) \cup Old(op[w]) \subseteq 1 .. issued
          /\ Fresh(w) \cap (user.codes \cup spent) = {}
          /\ \A v \in Workers \ {w} : Fresh(w) \cap (Own(op[v]) \cup Old(op[v])) = {}
          /\ op[w].kind = "spend" =>
                op[w].rest.code \in Old(op[w]) \ Own(op[w]) /\ "codes" \in DOMAIN op[w].changes
    /\ SpentIsGone

(* A call that found its codes on the list *)
Finding(todo) ==
    /\ Own(todo) \subseteq Old(todo) /\ Old(todo) \subseteq user.codes
    /\ todo.kind = "spend" =>
          todo.rest.code \in Old(todo) \ Own(todo) /\ "codes" \in DOMAIN todo.changes

LEMMA CodesFound ==
    ASSUME RowInv, CodesInv, NEW w \in Workers, Alone(w),
           op'[w] = op[w] \/ Finding(op'[w]),
           user'.codes = user.codes, UNCHANGED <<issued, spent, raced>>
    PROVE  CodesInv'
  <1>1. \A v \in Workers : op'[v] = op[v] \/ Finding(op'[v])
    BY DEF Alone
  <1>2. \A v \in Workers : /\ Own(op'[v]) \cup Old(op'[v]) \subseteq 1 .. issued
                           /\ Own(op'[v]) \ Old(op'[v]) \subseteq Fresh(v)
                           /\ Own(op'[v]) \cup Old(op'[v])
                                \subseteq Own(op[v]) \cup Old(op[v]) \cup user.codes
    BY <1>1 DEF CodesInv, Finding, Fresh
  <1>3. \A v \in Workers : op'[v].kind = "spend" =>
           op'[v].rest.code \in Old(op'[v]) \ Own(op'[v]) /\ "codes" \in DOMAIN op'[v].changes
    BY <1>1 DEF CodesInv, Finding
  <1> QED BY <1>2, <1>3 DEF CodesInv, Fresh, SpentIsGone

LEMMA PassiveFinds ==
    ASSUME NEW todo, todo.kind \notin Writing, todo.basis = {}
    PROVE  Own(todo) = {} /\ Old(todo) = {} /\ Finding(todo)
  BY DEF Own, Old, Finding, Writing

(* What Load leaves behind *)
LEMMA LoadFinds ==
    ASSUME RowInv, NEW w \in Workers, NEW kind, NEW changes, NEW rest,
           Load(w, kind, changes, rest),
           "codes" \in DOMAIN changes => changes.codes \subseteq user.codes,
           kind = "spend" => /\ "codes" \in DOMAIN changes
                             /\ rest.code \in user.codes \ changes.codes
    PROVE  Alone(w) /\ Finding(op'[w])
  <1> DEFINE todo == [kind |-> kind, changes |-> changes, rest |-> rest,
                      basis |-> IF DOMAIN changes = {} THEN {} ELSE {user}]
  <1>1. Alone(w) /\ op'[w] = todo
    BY OneCall DEF Load
  <1>2. Old(todo) = IF DOMAIN changes = {} THEN {} ELSE user.codes
    BY DEF Old
  <1>3. Own(todo) = IF kind \in Writing /\ "codes" \in DOMAIN changes THEN changes.codes ELSE {}
    BY DEF Own
  <1>4. todo.kind = kind /\ todo.rest = rest /\ todo.changes = changes
    OBVIOUS
  <1> HIDE DEF todo
  <1>5. Finding(todo)
    BY <1>2, <1>3, <1>4 DEF Finding, Writing
  <1> QED BY <1>1, <1>5

LEMMA CodesBegun ==
    ASSUME RowInv, CodesInv, NEW w \in Workers, NEW kind, kind # "spend", NEW new \in User, NEW rest,
           Load(w, kind, Changes(user, new), rest), Quiet, new.codes \subseteq user.codes
    PROVE  CodesInv'
  <1>1. "codes" \in DOMAIN Changes(user, new) => Changes(user, new).codes \subseteq user.codes
    BY DEF Changes
  <1>2. Alone(w) /\ Finding(op'[w])
    BY <1>1, LoadFinds
  <1> QED BY <1>2, CodesFound DEF Quiet

(* A commit of the user's row *)
LEMMA CodesSaved ==
    ASSUME RowInv, CodesInv, NEW w \in Workers, op[w].kind \in Writing, Save(w), Alone(w),
           op'[w].kind \notin Writing, op'[w].basis = {}, UNCHANGED issued,
           \/ UNCHANGED spent
           \/ op[w].kind = "spend" /\ spent' = spent \cup {op[w].rest.code}
    PROVE  CodesInv'
  <1>1. Own(op'[w]) = {} /\ Old(op'[w]) = {} /\ op'[w].kind # "spend"
    BY PassiveFinds DEF Writing
  <1>2. /\ \/ user'.codes = user.codes /\ "codes" \notin DOMAIN op[w].changes
           \/ user'.codes = Own(op[w])
        /\ raced' = (raced \/ Outdated(w))
    BY UserType DEF Save, Written, Own, User
  <1>3. op[w].kind = "spend" => user'.codes = Own(op[w]) /\ op[w].rest.code \in Old(op[w]) \ Own(op[w])
    BY <1>2 DEF CodesInv
  <1>4. spent' \subseteq spent \cup Old(op[w])
    BY <1>3
  <1>5. user'.codes \cup spent' \subseteq 1 .. issued
    BY <1>2, <1>4 DEF CodesInv
  <1>6. ASSUME NEW v \in Workers
        PROVE  /\ Own(op'[v]) \cup Old(op'[v]) \subseteq 1 .. issued
               /\ Fresh(v)' \cap (user'.codes \cup spent') = {}
               /\ \A u \in Workers \ {v} : Fresh(v)' \cap (Own(op'[u]) \cup Old(op'[u])) = {}
               /\ op'[v].kind = "spend" =>
                    op'[v].rest.code \in Old(op'[v]) \ Own(op'[v])
                    /\ "codes" \in DOMAIN op'[v].changes
    <2>1. CASE v = w
      BY <1>1, <2>1 DEF Fresh
    <2>2. CASE v # w
      <3>1. op'[v] = op[v] /\ Fresh(v)' = Fresh(v)
        BY <2>2 DEF Alone, Fresh
      <3>2. Fresh(v) \cap (user'.codes \cup spent') = {}
        BY <1>2, <1>4, <2>2 DEF CodesInv
      <3>3. \A u \in Workers \ {v} : Own(op'[u]) \cup Old(op'[u]) \subseteq Own(op[u]) \cup Old(op[u])
        BY <1>1 DEF Alone
      <3> QED BY <3>1, <3>2, <3>3 DEF CodesInv
    <2> QED BY <2>1, <2>2
  <1>7. SpentIsGone'
    <2> SUFFICES ASSUME ~raced', NEW code \in user'.codes, code \in spent' PROVE FALSE
      BY DEF SpentIsGone
    <2>1. ~raced /\ op[w].basis \subseteq {user}
      BY <1>2 DEF Outdated, RowInv, TypeOK
    <2>2. Old(op[w]) \subseteq user.codes
      BY <2>1 DEF Old
    <2>3. user.codes \cap spent = {} /\ Fresh(w) \cap spent = {}
      BY <2>1 DEF CodesInv, SpentIsGone
    <2>4. Own(op[w]) \cap spent = {}
      BY <2>2, <2>3 DEF Fresh
    <2>5. user'.codes \cap spent = {}
      BY <1>2, <2>3, <2>4
    <2> QED BY <1>3, <2>5
  <1> QED BY <1>5, <1>6, <1>7 DEF CodesInv

(* New codes are nobody's yet. *)
LEMMA CodesMade ==
    ASSUME RowInv, CodesInv, NEW w \in Workers, NEW row \in User, NewCodes(w, row)
    PROVE  CodesInv'
  <1> DEFINE new  == [row EXCEPT !.codes = {issued + 1}]
             todo == [kind |-> "row", changes |-> Changes(user, new), rest |-> Nothing,
                      basis |-> IF DOMAIN Changes(user, new) = {} THEN {} ELSE {user}]
  <1>1. Alone(w) /\ op'[w] = todo /\ issued' = issued + 1
        /\ UNCHANGED <<user, spent, raced>>
    BY OneCall DEF NewCodes, Load
  <1>2. new.codes = {issued + 1}
    BY DEF User
  <1>3. "codes" \in DOMAIN Changes(user, new) => Changes(user, new).codes = {issued + 1}
    BY <1>2 DEF Changes
  <1>4. todo.kind = "row" /\ Own(todo) \subseteq {issued + 1} /\ Old(todo) \subseteq user.codes
    BY <1>3 DEF Own, Old
  <1> HIDE DEF new, todo
  <1>5. issued \in Nat /\ issued + 1 \notin 1 .. issued
    BY DEF RowInv, TypeOK
  <1>6. ASSUME NEW v \in Workers
        PROVE  /\ Own(op'[v]) \cup Old(op'[v]) \subseteq 1 .. issued'
               /\ Fresh(v)' \cap (user'.codes \cup spent') = {}
               /\ \A u \in Workers \ {v} : Fresh(v)' \cap (Own(op'[u]) \cup Old(op'[u])) = {}
               /\ op'[v].kind = "spend" =>
                    op'[v].rest.code \in Old(op'[v]) \ Own(op'[v])
                    /\ "codes" \in DOMAIN op'[v].changes
    <2>1. CASE v = w
      <3>1. Fresh(v)' \subseteq {issued + 1}
        BY <1>1, <1>4, <2>1 DEF Fresh
      <3>2. \A u \in Workers \ {v} : op'[u] = op[u]
        BY <1>1, <2>1 DEF Alone
      <3> QED BY <1>1, <1>4, <1>5, <2>1, <3>1, <3>2 DEF CodesInv
    <2>2. CASE v # w
      <3>1. op'[v] = op[v] /\ Fresh(v)' = Fresh(v) /\ issued + 1 \notin Fresh(v)
        BY <1>1, <1>5, <2>2 DEF Alone, Fresh, CodesInv
      <3>2. \A u \in Workers \ {v} : Own(op'[u]) \cup Old(op'[u]) \subseteq
                                      Own(op[u]) \cup Old(op[u]) \cup user.codes \cup {issued + 1}
        BY <1>1, <1>4 DEF Alone
      <3> QED BY <1>1, <1>5, <3>1, <3>2 DEF CodesInv
    <2> QED BY <2>1, <2>2
  <1>7. user'.codes \cup spent' \subseteq 1 .. issued' /\ SpentIsGone'
    BY <1>1, <1>5 DEF CodesInv, SpentIsGone
  <1> QED BY <1>6, <1>7 DEF CodesInv

(* Users that calls make of users, and their codes *)
LEMMA SameCodes ==
    ASSUME NEW row \in User
    PROVE  LoggedIn(row).codes = row.codes /\ PasswordChanged(row).codes = row.codes
           /\ Disabled(row).codes = {}
  BY DEF LoggedIn, PasswordChanged, Disabled, User

LEMMA CodesBegin ==
    ASSUME RowInv, CodesInv, NEW w \in Workers, NEW kind, kind # "spend", NEW new \in User, NEW rest,
           Begin(w, kind, new, rest), new.codes \subseteq user.codes
    PROVE  CodesInv'
  BY CodesBegun DEF Begin

LEMMA CodesFinish ==
    ASSUME RowInv, CodesInv, NEW w \in Workers, Finish(w),
           user' = user, UNCHANGED <<issued, spent, raced>>
    PROVE  CodesInv'
  <1>1. Alone(w) /\ op'[w] = Idle /\ Idle.kind \notin Writing /\ Idle.basis = {}
    BY OneCall DEF Finish, Idle, Writing
  <1> QED BY <1>1, PassiveFinds, CodesFound

LEMMA CodesSaveFinish ==
    ASSUME RowInv, CodesInv, NEW w \in Workers, op[w].kind \in Writing, Save(w), Finish(w),
           UNCHANGED <<issued, spent>>
    PROVE  CodesInv'
  <1>1. Alone(w) /\ op'[w] = Idle /\ Idle.kind \notin Writing /\ Idle.basis = {}
    BY OneCall DEF Finish, Idle, Writing
  <1> QED BY <1>1, CodesSaved

(* A commit that leaves calls and codes alone *)
LEMMA CodesStay ==
    ASSUME RowInv, CodesInv, NEW w \in Workers, user'.codes = user.codes,
           UNCHANGED <<issued, spent, raced, op>>
    PROVE  CodesInv'
  BY CodesFound DEF Alone

LEMMA LogInCodes ==
    ASSUME RowInv, CodesInv, NEW w \in Workers, LogIn(w)
    PROVE  CodesInv'
  <1>1. CASE FailedLoginRead(w)
    <2> DEFINE one == [user EXCEPT !.attempts = @ + 1]
               new == IF one.attempts >= MaxAttempts
                      THEN [one EXCEPT !.until = LockEnd, !.status = "locked"] ELSE one
    <2>1. Load(w, "fail", Changes(user, new), Nothing) /\ Quiet
      BY <1>1 DEF FailedLoginRead, Begin
    <2>2. one.codes = user.codes /\ DOMAIN one = Columns
      BY UserType DEF User, Columns
    <2> HIDE DEF one
    <2>3. new.codes = user.codes
      BY <2>2 DEF Columns
    <2> HIDE DEF new
    <2>4. "codes" \in DOMAIN Changes(user, new) => Changes(user, new).codes \subseteq user.codes
      BY <2>3 DEF Changes
    <2>5. Alone(w) /\ Finding(op'[w])
      BY <2>1, <2>4, LoadFinds
    <2> QED BY <2>1, <2>5, CodesFound DEF Quiet
  <1>2. CASE FailedLoginCommit(w)
    BY <1>2, CodesSaveFinish DEF FailedLoginCommit, Serving, Writing
  <1>3. CASE LoginRead(w)
    BY <1>3, UserType, LoggedInFits, SameCodes, CodesBegin DEF LoginRead
  <1>4. CASE SsoLoginRead(w)
    <2> DEFINE known == [user EXCEPT !.verified = TRUE]
               new   == LoggedIn(known)
               changes == [c \in DOMAIN Changes(user, new) \cup {"codes"} |-> new[c]]
    <2>1. Load(w, "login", changes, Started) /\ Quiet
      BY <1>4 DEF SsoLoginRead
    <2>2. known \in User /\ known.codes = user.codes
      BY UserType DEF User
    <2>3. new.codes = user.codes
      BY <2>2, SameCodes
    <2> HIDE DEF new
    <2>4. changes.codes = user.codes
      BY <2>3
    <2> HIDE DEF changes
    <2>5. Alone(w) /\ Finding(op'[w])
      BY <2>1, <2>4, LoadFinds
    <2> QED BY <2>1, <2>5, CodesFound DEF Quiet
  <1>5. CASE LoginCommit(w)
    BY <1>5, CodesSaveFinish DEF LoginCommit, Serving, Writing
  <1>6. CASE GuestRead(w)
    BY <1>6, UserType, CodesBegin DEF GuestRead
  <1>7. CASE GuestCommit(w)
    BY <1>7, CodesFinish DEF GuestCommit
  <1>8. ASSUME NEW code \in user.codes, NEW next \in {"login", "codes", "disable"},
               SpendRead(w, code, next)
        PROVE  CodesInv'
    <2> DEFINE new  == [user EXCEPT !.codes = @ \ {code}]
               rest == [next |-> next, code |-> code]
    <2>1. Load(w, "spend", Changes(user, new), rest) /\ Quiet /\ rest.code = code
      BY <1>8 DEF SpendRead, Begin
    <2>2. new.codes = user.codes \ {code}
      BY UserType DEF User
    <2> HIDE DEF new, rest
    <2>3. "codes" \in DOMAIN Changes(user, new) /\ Changes(user, new).codes = user.codes \ {code}
      BY <2>2, UserType DEF Changes, User
    <2>4. Alone(w) /\ Finding(op'[w])
      BY <2>1, <2>3, LoadFinds
    <2> QED BY <2>1, <2>4, CodesFound DEF Quiet
  <1>9. CASE SpendCommit(w)
    <2> DEFINE todo == [kind |-> "admitted", next |-> op[w].rest.next, basis |-> {}]
    <2>1. Alone(w) /\ op'[w] = todo /\ todo.kind \notin Writing /\ todo.basis = {}
      BY <1>9, OneCall DEF SpendCommit, Writing
    <2> HIDE DEF todo
    <2>2. /\ op[w].kind = "spend" /\ op[w].kind \in Writing /\ Save(w) /\ UNCHANGED issued
          /\ spent' = spent \cup {op[w].rest.code}
      BY <1>9 DEF SpendCommit, CodeTaken, Save, Serving, Writing
    <2> QED BY <2>1, <2>2, CodesSaved
  <1>10. CASE AdmittedRead(w)
    <2>1. CASE Load(w, "login", Changes(user, LoggedIn(user)), Started) /\ Quiet
      BY <2>1, UserType, LoggedInFits, SameCodes, CodesBegun
    <2>2. CASE Load(w, "row", Changes(user, Disabled(user)), Nothing) /\ Quiet
      BY <2>2, UserType, DisabledFits, SameCodes, CodesBegun
    <2>3. CASE NewCodes(w, user)
      BY <2>3, UserType, CodesMade
    <2> QED BY <1>10, <2>1, <2>2, <2>3 DEF AdmittedRead
  <1> QED BY <1>1, <1>2, <1>3, <1>4, <1>5, <1>6, <1>7, <1>8, <1>9, <1>10 DEF LogIn

LEMMA KeepSessionsCodes ==
    ASSUME RowInv, CodesInv, NEW w \in Workers, KeepSessions(w)
    PROVE  CodesInv'
  <1>1. CASE (\E s \in Open : RefreshRead(w, s)) \/ RevokeAllRead(w)
    <2>1. PICK kind \in {"refresh", "end"} : \E rest : Begin(w, kind, user, rest)
      BY <1>1 DEF RefreshRead, RevokeAllRead
    <2> QED BY <2>1, UserType, CodesBegin
  <1>2. CASE \E s \in Open : RevokeSession(w, s)
    BY <1>2, CodesStay DEF RevokeSession
  <1>3. CASE RefreshCommit(w)
    BY <1>3, CodesFinish DEF RefreshCommit
  <1>4. CASE \E ending \in SUBSET Open : ChangePasswordRead(w, ending)
    <2>1. PICK rest : Begin(w, "end", PasswordChanged(user), rest)
      BY <1>4 DEF ChangePasswordRead
    <2> QED BY <2>1, UserType, PasswordChangedFits, SameCodes, CodesBegin
  <1>5. CASE EndSessionsCommit(w)
    BY <1>5, CodesSaveFinish DEF EndSessionsCommit, Serving, Writing
  <1> QED BY <1>1, <1>2, <1>3, <1>4, <1>5 DEF KeepSessions

LEMMA UseMailCodes ==
    ASSUME RowInv, CodesInv, NEW w \in Workers, UseMail(w)
    PROVE  CodesInv'
  <1>1. CASE \E type \in {"verification", "reset"} : SendMail(w, type)
    BY <1>1, CodesStay DEF SendMail
  <1>2. ASSUME NEW m \in Mails, VerifyEmailRead(w, m)
        PROVE  CodesInv'
    <2> DEFINE new == [user EXCEPT !.verified = TRUE]
    <2>1. new \in User /\ new.codes = user.codes
      BY UserType DEF User
    <2>2. Begin(w, "redeem", new, [mail |-> m])
      BY <1>2 DEF VerifyEmailRead
    <2> HIDE DEF new
    <2> QED BY <2>1, <2>2, CodesBegin
  <1>3. ASSUME NEW m \in Mails, ResetPasswordRead(w, m)
        PROVE  CodesInv'
    BY <1>3, UserType, LoggedInFits, SameCodes, CodesBegin DEF ResetPasswordRead
  <1>4. ASSUME NEW m \in Mails, ResendRead(w, m)
        PROVE  CodesInv'
    BY <1>4, UserType, CodesBegin DEF ResendRead
  <1>5. CASE RedeemCommit(w)
    BY <1>5, CodesSaveFinish DEF RedeemCommit, Serving, Writing
  <1>6. CASE ResendCommit(w)
    <2> DEFINE todo == [kind |-> "send", basis |-> {}]
    <2>1. Alone(w) /\ op'[w] = todo /\ todo.kind \notin Writing /\ todo.basis = {}
      BY <1>6, OneCall DEF ResendCommit, Writing
    <2> HIDE DEF todo
    <2> QED BY <1>6, <2>1, PassiveFinds, CodesFound DEF ResendCommit
  <1>7. CASE ResendSends(w)
    BY <1>7, CodesFinish DEF ResendSends
  <1> QED BY <1>1, <1>2, <1>3, <1>4, <1>5, <1>6, <1>7 DEF UseMail

LEMMA ManageCodes ==
    ASSUME RowInv, CodesInv, NEW w \in Workers, Manage(w)
    PROVE  CodesInv'
  <1>1. CASE SetupMfa(w) \/ \E status \in {"active", "inactive"} : SetStatus(w, status)
    <2>1. user'.codes = user.codes
      BY <1>1, UserType DEF SetupMfa, SetStatus, User
    <2> QED BY <1>1, <2>1, CodesStay DEF SetupMfa, SetStatus
  <1>2. CASE VerifySetupRead(w)
    <2> DEFINE row == [user EXCEPT !.mfa = TRUE]
    <2>1. row \in User /\ NewCodes(w, row)
      BY <1>2, UserType DEF VerifySetupRead, User
    <2> HIDE DEF row
    <2> QED BY <2>1, CodesMade
  <1>3. CASE RegenerateRead(w)
    BY <1>3, UserType, CodesMade DEF RegenerateRead
  <1>4. CASE DisableRead(w)
    BY <1>4, UserType, DisabledFits, SameCodes, CodesBegin DEF DisableRead
  <1>5. CASE WriteMetadataRead(w)
    <2>1. Load(w, "row", [codes |-> user.codes], Nothing) /\ Quiet
      BY <1>5 DEF WriteMetadataRead
    <2>2. Alone(w) /\ Finding(op'[w])
      BY <2>1, LoadFinds
    <2> QED BY <2>1, <2>2, CodesFound DEF Quiet
  <1>6. CASE RestoreRead(w)
    <2> DEFINE new == [user EXCEPT !.status = "active", !.verified = FALSE, !.codes = {}]
    <2>1. new \in User /\ new.codes = {} /\ Begin(w, "row", new, Nothing)
      BY <1>6, UserType DEF RestoreRead, User
    <2> HIDE DEF new
    <2> QED BY <2>1, CodesBegin
  <1>7. CASE RowCommit(w)
    BY <1>7, CodesSaveFinish DEF RowCommit, Serving, Writing
  <1> QED BY <1>1, <1>2, <1>3, <1>4, <1>5, <1>6, <1>7 DEF Manage

LEMMA CodesStep == RowInv /\ CodesInv /\ [Next]_vars => CodesInv'
  <1> SUFFICES ASSUME RowInv, CodesInv, [Next]_vars PROVE CodesInv'
    OBVIOUS
  <1>1. ASSUME NEW w \in Workers, Abort(w)
        PROVE  CodesInv'
    BY <1>1, CodesFinish DEF Abort, Quiet
  <1>2. CASE Tick \/ UNCHANGED vars
    BY <1>2, AccountsAssumption, CodesStay DEF Tick, vars
  <1> QED BY <1>1, <1>2, LogInCodes, KeepSessionsCodes, UseMailCodes, ManageCodes DEF Next

LEMMA CodesInit == Init => CodesInv
  <1> SUFFICES ASSUME Init PROVE CodesInv
    OBVIOUS
  <1>1. \A w \in Workers : op[w] = Idle /\ Idle.kind \notin Writing /\ Idle.basis = {}
                           /\ Idle.kind # "spend"
    BY DEF Init, Idle, Writing
  <1>2. \A w \in Workers : Own(op[w]) = {} /\ Old(op[w]) = {}
    BY <1>1, PassiveFinds
  <1>3. user.codes = {} /\ spent = {}
    BY DEF Init
  <1> QED BY <1>1, <1>2, <1>3 DEF CodesInv, Fresh, SpentIsGone

(* As long as no commit went by a user row that had changed, a recovery    *)
(* code that let somebody in is not on the list again (verify_login and    *)
(* every writer of the user's metadata).                                   *)
THEOREM SpentStaysGone == Spec => []SpentIsGone
  <1>1. CodesInv => SpentIsGone
    BY DEF CodesInv
  <1> QED BY <1>1, RowInit, RowStep, CodesInit, CodesStep, PTL DEF Spec

(* Both kinds of token, as the run checks them.                            *)
THEOREM TokensAreSpent == Spec => []TokensWearOut
  <1>1. ExchangedIsDead /\ UsesBounded => TokensWearOut
    BY DEF TokensWearOut
  <1> QED BY <1>1, ExchangedStaysDead, UsesBound, PTL

(* The three facts about the user's row, as the run checks them.           *)
THEOREM UserRowHolds == Spec => []UserRowSound
  <1>1. MfaHasSecret /\ SpentIsGone /\ LockFollowsAttempts => UserRowSound
    BY DEF UserRowSound
  <1> QED BY <1>1, FactorHasSecret, SpentStaysGone, LockComesWithCount, PTL

-----------------------------------------------------------------------------
(* Storage: that rows and objects belong together, for any number of keys, *)
(* threads and failures                                                    *)

-----------------------------------------------------------------------------
(* Shapes of calls *)

LEMMA IdleType == StorageIdle \in Call
  BY DEF StorageIdle, Call

LEMMA BeginType ==
  ASSUME NEW for \in Target
  PROVE  [stage |-> "probe", store |-> "none", for |-> for] \in Call
  BY DEF Call

(* A call that has chosen its store, or looks for the bucket               *)
LEMMA ChosenType ==
  ASSUME NEW c \in Call, c.stage \in {"probe", "make"}, NEW s \in Stores
  PROVE  /\ c.for \in Target
         /\ [c EXCEPT !.stage = "act", !.store = s] \in Call
         /\ [c EXCEPT !.stage = "act", !.store = s].for = c.for
         /\ [c EXCEPT !.stage = "make"] \in Call
         /\ [c EXCEPT !.stage = "make"].for = c.for
  <1>1. c \in [stage : {"probe", "make"}, store : {"none"}, for : Target]
    BY DEF Call
  <1>2. [c EXCEPT !.stage = "act", !.store = s] \in [stage : {"act", "unlink", "commit"}, store : Stores, for : Target]
    BY <1>1
  <1>3. [c EXCEPT !.stage = "make"] \in [stage : {"probe", "make"}, store : {"none"}, for : Target]
    BY <1>1
  <1> QED BY <1>1, <1>2, <1>3 DEF Call

(* A call that acts on its object                                          *)
LEMMA ActingType ==
  ASSUME NEW c \in Call, c.stage \in {"act", "unlink", "commit"}
  PROVE  /\ c.for \in Target /\ c.store \in Stores
         /\ \A stage \in {"act", "unlink", "commit"} :
              /\ [c EXCEPT !.stage = stage] \in Call
              /\ [c EXCEPT !.stage = stage].for = c.for
              /\ [c EXCEPT !.stage = stage].store = c.store
              /\ [c EXCEPT !.stage = stage].stage = stage
  <1>1. c \in [stage : {"act", "unlink", "commit"}, store : Stores, for : Target]
    BY DEF Call
  <1> QED BY <1>1 DEF Call

LEMMA TargetType ==
  ASSUME NEW for \in Target
  PROVE  for.key \in Keys /\ for.who \in Users /\ for.public \in BOOLEAN
  BY DEF Target
-----------------------------------------------------------------------------
(* Type correctness *)

LEMMA TypeBegin ==
  ASSUME StorageTypeOK, NEW k \in Keys, NEW u \in Users,
         \/ \E public \in BOOLEAN : BeginUpload(k, u, public)
         \/ \E t \in Pool, what \in Reads \union {"delete"} : BeginOther(t, what, u, k)
  PROVE  StorageTypeOK'
  <1>1. PICK t \in Threads, for \in Target :
            /\ StorageBegin(t, for)
            /\ UNCHANGED <<mode, reach, bucket, stored, rows, home, cut, strayed, missed, faults>>
    <2>1. CASE \E public \in BOOLEAN : BeginUpload(k, u, public)
      <3>1. PICK public \in BOOLEAN : BeginUpload(k, u, public)
        BY <2>1
      <3>2. [op |-> "upload", key |-> k, who |-> u, public |-> public] \in Target
        BY DEF Target
      <3> QED BY <3>1, <3>2 DEF BeginUpload, Threads
    <2>2. CASE \E t \in Pool, what \in Reads \union {"delete"} : BeginOther(t, what, u, k)
      <3>1. PICK t \in Pool, what \in Reads \union {"delete"} : BeginOther(t, what, u, k)
        BY <2>2
      <3>2. [op |-> what, key |-> k, who |-> u, public |-> FALSE] \in Target
        BY DEF Target
      <3> QED BY <3>1, <3>2 DEF BeginOther, Threads
    <2> QED BY <2>1, <2>2
  <1> DEFINE c == [stage |-> "probe", store |-> "none", for |-> for]
  <1>2. c \in Call
    BY BeginType
  <1>3. call' = [call EXCEPT ![t] = c]
    BY <1>1 DEF StorageBegin
  <1> HIDE DEF c
  <1> QED BY <1>1, <1>2, <1>3 DEF StorageTypeOK

LEMMA TypeChoose ==
  ASSUME StorageTypeOK, NEW t \in Threads, Probe(t) \/ Make(t)
  PROVE  StorageTypeOK'
  <1>1. call[t] \in Call /\ call[t].stage \in {"probe", "make"}
    BY DEF StorageTypeOK, Probe, Make
  <1>2. PICK c \in Call : call' = [call EXCEPT ![t] = c]
    BY <1>1, ChosenType DEF Probe, Make, Chosen, Go, Stores, StorageTypeOK
  <1>3. bucket' \in BOOLEAN
    BY DEF Probe, Make, StorageTypeOK
  <1> QED BY <1>2, <1>3 DEF Probe, Make, StorageTypeOK

LEMMA TypeAnswer ==
  ASSUME StorageTypeOK, NEW t \in Threads, Answer(t) \/ \E stage \in {"unlink", "commit"} : Go(t, stage),
         call[t].stage \in {"act", "unlink", "commit"}
  PROVE  /\ call' \in [Threads -> Call]
         /\ Key(t) \in Keys /\ call[t].for.who \in Users /\ call[t].for.public \in BOOLEAN
         /\ call[t].store \in Stores
  <1>1. call[t] \in Call
    BY DEF StorageTypeOK
  <1>2. PICK c \in Call : call' = [call EXCEPT ![t] = c]
    BY <1>1, ActingType, IdleType DEF Answer, Go
  <1> QED BY <1>1, <1>2, ActingType, TargetType DEF StorageTypeOK, Key

LEMMA TypeFault == StorageTypeOK /\ Fault => faults' \in 0 .. MaxFaults
  BY StorageAssumption DEF Fault, StorageTypeOK

LEMMA TypeServe ==
  ASSUME StorageTypeOK, NEW t \in Threads,
         \/ PutObject(t) \/ PutLost(t) \/ Insert(t)
         \/ Remove(t) \/ Unlink(t) \/ RemoveLost(t) \/ MarkDeleted(t)
         \/ Fetch(t) \/ CommitFails(t)
  PROVE  StorageTypeOK'
  <1>1. call[t].stage \in {"act", "unlink", "commit"}
    BY DEF PutObject, PutLost, Insert, Remove, Unlink, RemoveLost, MarkDeleted, Fetch, CommitFails,
           InTheMiddle, At
  <1>2. Answer(t) \/ \E stage \in {"unlink", "commit"} : Go(t, stage)
    BY DEF PutObject, PutLost, Insert, Remove, Unlink, RemoveLost, MarkDeleted, Fetch, CommitFails
  <1>3. /\ call' \in [Threads -> Call]
        /\ Key(t) \in Keys /\ call[t].for.who \in Users /\ call[t].for.public \in BOOLEAN
        /\ call[t].store \in Stores
    BY <1>1, <1>2, TypeAnswer
  <1>4. CASE PutObject(t)
    BY <1>3, <1>4 DEF PutObject, Put, StorageTypeOK
  <1>5. CASE PutLost(t)
    BY <1>3, <1>5, TypeFault DEF PutLost, Put, StorageTypeOK
  <1>6. CASE Insert(t)
    <2>1. [status |-> "active", owner |-> call[t].for.who, public |-> call[t].for.public] \in Row
      BY <1>3 DEF Row
    <2> DEFINE row == [status |-> "active", owner |-> call[t].for.who, public |-> call[t].for.public]
    <2>2. rows' = [rows EXCEPT ![Key(t)] = row]
      BY <1>6 DEF Insert
    <2> HIDE DEF row
    <2> QED BY <1>3, <1>6, <2>1, <2>2 DEF Insert, StorageTypeOK, row
  <1>7. CASE Remove(t)
    BY <1>3, <1>7 DEF Remove, Take, StorageTypeOK, Stores
  <1>8. CASE Unlink(t)
    BY <1>3, <1>8 DEF Unlink, Take, StorageTypeOK
  <1>9. CASE RemoveLost(t)
    BY <1>3, <1>9, TypeFault DEF RemoveLost, Take, StorageTypeOK
  <1>10. CASE MarkDeleted(t)
    <2>1. [rows[Key(t)] EXCEPT !.status = "deleted"] \in Row
      BY <1>3 DEF StorageTypeOK, Row
    <2>2. rows' \in [Keys -> Row]
      BY <1>10, <2>1 DEF MarkDeleted, StorageTypeOK
    <2> QED BY <1>3, <1>10, <2>2 DEF MarkDeleted, StorageTypeOK
  <1>11. CASE Fetch(t)
    BY <1>3, <1>11 DEF Fetch, StorageTypeOK
  <1>12. CASE CommitFails(t)
    BY <1>3, <1>12, TypeFault DEF CommitFails, StorageTypeOK
  <1> QED BY <1>4, <1>5, <1>6, <1>7, <1>8, <1>9, <1>10, <1>11, <1>12

LEMMA TypeSurroundings ==
  ASSUME StorageTypeOK, Crash \/ MinioDown \/ MinioUp
  PROVE  StorageTypeOK'
  <1>1. CASE Crash
    <2>1. {Key(t) : t \in {u \in Threads : InTheMiddle(u)}} \subseteq Keys
      <3> SUFFICES ASSUME NEW t \in Threads, InTheMiddle(t) PROVE Key(t) \in Keys
        OBVIOUS
      <3>1. call[t] \in Call /\ call[t].stage \in {"act", "unlink", "commit"}
        BY DEF StorageTypeOK, InTheMiddle
      <3> QED BY <3>1, ActingType, TargetType DEF Key
    <2>2. call' \in [Threads -> Call]
      BY <1>1, IdleType DEF Crash
    <2> QED BY <1>1, <2>1, <2>2, TypeFault DEF Crash, StorageTypeOK
  <1>2. CASE MinioDown \/ MinioUp
    BY <1>2, TypeFault DEF MinioDown, MinioUp, StorageTypeOK
  <1> QED BY <1>1, <1>2

LEMMA TypeInit == StorageInit => StorageTypeOK
  <1> SUFFICES ASSUME StorageInit PROVE StorageTypeOK
    OBVIOUS
  <1>1. [status |-> "absent", owner |-> NoUser, public |-> FALSE] \in Row
    BY DEF Row
  <1>2. rows \in [Keys -> Row]
    BY <1>1 DEF StorageInit
  <1>3. call \in [Threads -> Call]
    BY IdleType DEF StorageInit
  <1>4. stored \in [Stores -> SUBSET Keys] /\ home \in [Keys -> Stores \union {"none"}]
    BY DEF StorageInit
  <1>5. faults \in 0 .. MaxFaults
    BY StorageAssumption DEF StorageInit
  <1>6. mode \in Stores \union {"auto"} /\ bucket \in BOOLEAN /\ reach \in BOOLEAN
    BY DEF StorageInit
  <1>7. cut \subseteq Keys /\ strayed \subseteq Keys /\ missed \subseteq Keys \X Stores
    BY DEF StorageInit
  <1> QED BY <1>2, <1>3, <1>4, <1>5, <1>6, <1>7 DEF StorageTypeOK

LEMMA TypeStep == StorageTypeOK /\ [StorageNext]_storageVars => StorageTypeOK'
  <1> SUFFICES ASSUME StorageTypeOK, [StorageNext]_storageVars PROVE StorageTypeOK'
    OBVIOUS
  <1>1. CASE UNCHANGED storageVars
    BY <1>1 DEF storageVars, StorageTypeOK
  <1> QED BY <1>1, TypeBegin, TypeChoose, TypeServe, TypeSurroundings DEF StorageNext

(* Rows, objects and calls keep their shape under every handler and every  *)
(* failure of the storage service.                                         *)
THEOREM StorageTypeCorrect == StorageSpec => []StorageTypeOK
  BY TypeInit, TypeStep, PTL DEF StorageSpec
-----------------------------------------------------------------------------
(* Rows and objects                                                        *)
(*                                                                         *)
(* RowsMatchObjects says nothing of what calls in progress will do, so the *)
(* inductive invariant adds it: an upload has its key to itself, its row   *)
(* still missing and its object stored once it is to insert the row; other *)
(* calls have keys with a row, and a delete that is to mark the row has    *)
(* removed the object from the store it looked in.  An object is in no     *)
(* store but the one it was put into.                                      *)

UploadSound(t) ==
    /\ t = EventLoop
    /\ rows[Key(t)].status = "absent"
    /\ call[t].stage = "commit" => Key(t) \in stored[call[t].store]
    /\ call[t].stage # "commit" => home[Key(t)] = "none"

OtherSound(t) ==
    /\ rows[Key(t)].status # "absent"
    /\ At(t, "delete", "commit") => Key(t) \notin stored[call[t].store]

CallSound(t) ==
    call[t].stage # "idle" =>
        IF call[t].for.op = "upload" THEN UploadSound(t) ELSE OtherSound(t)

OneHome == \A k \in Keys, s \in Stores : k \in stored[s] => home[k] = s

Inv ==
    /\ StorageTypeOK
    /\ \A t \in Threads : CallSound(t)
    /\ OneHome
    /\ RowsMatchObjects

LEMMA KeyType ==
  ASSUME StorageTypeOK, NEW t \in Threads, call[t].stage # "idle"
  PROVE  Key(t) \in Keys
  <1>1. call[t] \in Call
    BY DEF StorageTypeOK
  <1> QED BY <1>1, TargetType DEF Call, Key

(* One thread goes on, not from between object and row, and nothing else   *)
(* changes.                                                                *)
LEMMA Framed ==
  ASSUME Inv, StorageTypeOK', NEW t \in Threads, NEW c, call' = [call EXCEPT ![t] = c],
         ~InTheMiddle(t), CallSound(t)',
         UNCHANGED <<stored, rows, home, cut, strayed, missed>>
  PROVE  Inv'
  <1>1. \A u \in Threads \ {t} : call'[u] = call[u] /\ Key(u)' = Key(u)
    BY DEF StorageTypeOK, Inv, Key
  <1>2. ASSUME NEW u \in Threads \ {t} PROVE CallSound(u)'
    BY <1>1 DEF Inv, CallSound, UploadSound, OtherSound, At
  <1>3. OneHome'
    BY DEF Inv, OneHome
  <1>4. \A k \in Keys : (Deleting(k) => Deleting(k)') /\ (Uploading(k) => Uploading(k)')
    BY <1>1 DEF Deleting, Uploading, At, InTheMiddle
  <1>5. ActiveHasObject'
    BY <1>4 DEF Inv, RowsMatchObjects, ActiveHasObject
  <1>6. OrphansExplained'
    BY <1>4 DEF Inv, RowsMatchObjects, OrphansExplained
  <1>7. MissedExplained'
    BY <1>4 DEF Inv, RowsMatchObjects, MissedExplained
  <1> QED BY <1>2, <1>3, <1>5, <1>6, <1>7 DEF Inv, RowsMatchObjects

LEMMA InvBegin ==
  ASSUME Inv, StorageTypeOK', NEW k \in Keys, NEW u \in Users,
         \/ \E public \in BOOLEAN : BeginUpload(k, u, public)
         \/ \E t \in Pool, what \in Reads \union {"delete"} : BeginOther(t, what, u, k)
  PROVE  Inv'
  <1>1. PICK t \in Threads, for \in Target :
            /\ StorageBegin(t, for) /\ for.key = k
            /\ IF for.op = "upload" THEN t = EventLoop /\ Unused(k) ELSE rows[k].status # "absent"
            /\ UNCHANGED <<stored, rows, home, cut, strayed, missed>>
    <2>1. CASE \E public \in BOOLEAN : BeginUpload(k, u, public)
      <3>1. PICK public \in BOOLEAN : BeginUpload(k, u, public)
        BY <2>1
      <3>2. [op |-> "upload", key |-> k, who |-> u, public |-> public] \in Target
        BY DEF Target
      <3> QED BY <3>1, <3>2 DEF BeginUpload, Threads
    <2>2. CASE \E t \in Pool, what \in Reads \union {"delete"} : BeginOther(t, what, u, k)
      <3>1. PICK t \in Pool, what \in Reads \union {"delete"} : BeginOther(t, what, u, k)
        BY <2>2
      <3>2. [op |-> what, key |-> k, who |-> u, public |-> FALSE] \in Target
        BY DEF Target
      <3>3. what # "upload"
        BY DEF Reads
      <3> QED BY <3>1, <3>2, <3>3 DEF BeginOther, Threads
    <2> QED BY <2>1, <2>2
  <1> DEFINE c == [stage |-> "probe", store |-> "none", for |-> for]
  <1>2. call' = [call EXCEPT ![t] = c] /\ ~InTheMiddle(t)
    BY <1>1 DEF StorageBegin, InTheMiddle, StorageIdle
  <1>3. call'[t] = c
    BY <1>2 DEF Inv, StorageTypeOK
  <1>4. CallSound(t)'
    BY <1>1, <1>3 DEF CallSound, UploadSound, OtherSound, Key, At, Unused
  <1> HIDE DEF c
  <1> QED BY <1>1, <1>2, <1>4, Framed

LEMMA InvChoose ==
  ASSUME Inv, StorageTypeOK', NEW t \in Threads, Probe(t) \/ Make(t)
  PROVE  Inv'
  <1>1. call[t] \in Call /\ call[t].stage \in {"probe", "make"}
    BY DEF Inv, StorageTypeOK, Probe, Make
  <1>2. PICK c \in Call :
            /\ call' = [call EXCEPT ![t] = c]
            /\ c.for = call[t].for /\ c.stage \in {"act", "make"}
    <2>1. Go(t, "make") \/ \E s \in Stores : Chosen(t, s)
      BY DEF Probe, Make, Stores, Inv, StorageTypeOK
    <2>2. CASE Go(t, "make")
      <3> DEFINE c == [call[t] EXCEPT !.stage = "make"]
      <3>1. c \in Call /\ c.for = call[t].for /\ c.stage = "make"
        BY <1>1, ChosenType DEF Stores, Call
      <3>2. call' = [call EXCEPT ![t] = c]
        BY <2>2 DEF Go
      <3> HIDE DEF c
      <3> QED BY <3>1, <3>2
    <2>3. CASE \E s \in Stores : Chosen(t, s)
      <3> PICK s \in Stores : Chosen(t, s)
        BY <2>3
      <3> DEFINE c == [call[t] EXCEPT !.stage = "act", !.store = s]
      <3>1. c \in Call /\ c.for = call[t].for /\ c.stage = "act"
        BY <1>1, ChosenType DEF Call
      <3>2. call' = [call EXCEPT ![t] = c]
        BY DEF Chosen
      <3> HIDE DEF c
      <3> QED BY <3>1, <3>2
    <2> QED BY <2>1, <2>2, <2>3
  <1>3. call'[t] = c
    BY <1>2 DEF Inv, StorageTypeOK
  <1>4. UNCHANGED <<stored, rows, home, cut, strayed, missed>>
    BY DEF Probe, Make
  <1>5. CallSound(t)'
    BY <1>1, <1>2, <1>3, <1>4 DEF Inv, CallSound, UploadSound, OtherSound, Key, At
  <1>6. ~InTheMiddle(t)
    BY <1>1 DEF InTheMiddle
  <1> QED BY <1>2, <1>4, <1>5, <1>6, Framed
(* What a call that acts goes on to, from "act" or "unlink", when the      *)
(* store changes nothing, or has changed already                           *)
LEMMA GoOn ==
  ASSUME StorageTypeOK, NEW t \in Threads, NEW stage \in {"act", "unlink", "commit"},
         call[t].stage \in {"act", "unlink", "commit"}, Go(t, stage)
  PROVE  /\ call[t].for.op = call'[t].for.op /\ Key(t)' = Key(t) /\ Key(t) \in Keys
         /\ call'[t].store = call[t].store /\ call[t].store \in Stores
         /\ call'[t].stage = stage
         /\ \A u \in Threads \ {t} : call'[u] = call[u] /\ Key(u)' = Key(u)
         /\ \E c : call' = [call EXCEPT ![t] = c]
  <1> DEFINE c == [call[t] EXCEPT !.stage = stage]
  <1>1. call[t] \in Call
    BY DEF StorageTypeOK
  <1>2. /\ c.for = call[t].for /\ c.store = call[t].store /\ c.stage = stage
        /\ call[t].store \in Stores /\ call[t].for \in Target
    BY <1>1, ActingType
  <1>3. call' = [call EXCEPT ![t] = c]
    BY DEF Go
  <1> HIDE DEF c
  <1>4. call'[t] = c /\ \A u \in Threads \ {t} : call'[u] = call[u]
    BY <1>3 DEF StorageTypeOK
  <1> QED BY <1>2, <1>3, <1>4, TargetType DEF Key

LEMMA Answered ==
  ASSUME StorageTypeOK, NEW t \in Threads, call[t].stage \in {"act", "unlink", "commit"}, Answer(t)
  PROVE  /\ Key(t) \in Keys /\ call[t].store \in Stores
         /\ call'[t].stage = "idle"
         /\ CallSound(t)'
         /\ \A u \in Threads \ {t} : call'[u] = call[u] /\ Key(u)' = Key(u)
  <1>1. call[t] \in Call
    BY DEF StorageTypeOK
  <1>2. call'[t] = StorageIdle /\ \A u \in Threads \ {t} : call'[u] = call[u]
    BY DEF Answer, StorageTypeOK
  <1>3. call[t].store \in Stores /\ Key(t) \in Keys
    BY <1>1, ActingType, TargetType DEF Key
  <1>4. call'[t].stage = "idle" /\ CallSound(t)'
    BY <1>2 DEF StorageIdle, CallSound
  <1>5. \A u \in Threads \ {t} : Key(u)' = Key(u)
    BY <1>2 DEF Key
  <1> QED BY <1>2, <1>3, <1>4, <1>5

(* Calls that find nothing to do                                           *)
LEMMA InvRefused ==
  ASSUME Inv, StorageTypeOK', NEW t \in Threads, call[t].stage \in {"act", "unlink"}, Answer(t),
         UNCHANGED <<stored, rows, home, cut, strayed, missed>>
  PROVE  Inv'
  <1>1. call' = [call EXCEPT ![t] = StorageIdle] /\ ~InTheMiddle(t) /\ CallSound(t)'
    BY Answered DEF Inv, Answer, InTheMiddle
  <1> QED BY <1>1, Framed

(* An upload, once it has the object in the store                          *)
LEMMA InvPut ==
  ASSUME Inv, StorageTypeOK', NEW t \in Threads, At(t, "upload", "act"), Put(t),
         UNCHANGED <<rows, strayed, missed>>,
         \/ Go(t, "commit") /\ cut' = cut
         \/ Answer(t) /\ cut' = cut \union {Key(t)}
  PROVE  Inv'
  <1>0. PICK k \in Keys : k = Key(t)
    BY KeyType DEF Inv, At
  <1>1. /\ call[t].store \in Stores
        /\ \A u \in Threads \ {t} : call'[u] = call[u] /\ Key(u)' = Key(u)
    BY GoOn, Answered DEF Inv, At
  <1>2. UploadSound(t) /\ home[k] = "none" /\ rows[k].status = "absent"
    BY <1>0 DEF Inv, CallSound, UploadSound, At
  <1>3. \A s \in Stores : k \notin stored[s]
    BY <1>1, <1>2 DEF Inv, OneHome, Stores
  <1>4. \A u \in Threads \ {t} : call[u].stage # "idle" =>
            call[u].for.op # "upload" /\ Key(u) # k
    BY <1>0, <1>2 DEF Inv, CallSound, UploadSound, OtherSound
  <1>5. ASSUME NEW u \in Threads \ {t} PROVE CallSound(u)'
    <2>1. CASE call[u].stage = "idle"
      BY <1>1, <2>1 DEF CallSound
    <2>2. CASE call[u].stage # "idle"
      <3>1. Key(u) \in Keys /\ call[u] \in Call
        BY <2>2, KeyType DEF Inv, StorageTypeOK
      <3>2. OtherSound(u)
        BY <1>4, <2>2 DEF Inv, CallSound
      <3>3. \A s \in Stores : Key(u) \in stored'[s] <=> Key(u) \in stored[s]
        BY <1>0, <1>1, <1>4, <2>2, <3>1 DEF Put, Inv, StorageTypeOK
      <3>4. At(u, "delete", "commit") => call[u].store \in Stores
        BY <3>1, ActingType DEF At
      <3>5. OtherSound(u)'
        BY <1>1, <3>1, <3>2, <3>3, <3>4 DEF OtherSound, At
      <3> QED BY <1>1, <1>4, <2>2, <3>5 DEF CallSound
    <2> QED BY <2>1, <2>2
  <1>6. /\ k \in stored'[call[t].store] /\ home'[k] = call[t].store
        /\ \A s \in Stores : stored'[s] = IF s = call[t].store THEN stored[s] \union {k} ELSE stored[s]
        /\ \A j \in Keys \ {k} : home'[j] = home[j]
    BY <1>0, <1>1 DEF Put, Inv, StorageTypeOK
  <1>7. CallSound(t)'
    <2>1. CASE Go(t, "commit")
      BY <1>0, <1>2, <1>6, <2>1, GoOn DEF Inv, At, CallSound, UploadSound
    <2>2. CASE Answer(t)
      BY <2>2, Answered DEF Inv, At
    <2> QED BY <2>1, <2>2
  <1>8. OneHome'
    <2> SUFFICES ASSUME NEW j \in Keys, NEW s \in Stores, j \in stored'[s] PROVE home'[j] = s
      BY DEF OneHome
    <2>1. CASE j = k
      <3>1. k \in stored'[s] /\ k \notin stored[s]
        BY <1>3, <2>1
      <3>2. s = call[t].store
        BY <1>6, <3>1
      <3> QED BY <1>6, <2>1, <3>2
    <2>2. CASE j # k
      <3>1. j \in stored[s]
        BY <1>6, <2>2
      <3>2. home[j] = s
        BY <3>1 DEF Inv, OneHome
      <3> QED BY <1>6, <2>2, <3>2
    <2> QED BY <2>1, <2>2
  <1>9. \A j \in Keys : Deleting(j) => Deleting(j)'
    BY <1>1 DEF Deleting, At
  <1>10. k \in cut' \/ Uploading(k)'
    <2>1. CASE Go(t, "commit")
      BY <1>0, <2>1, GoOn DEF Inv, At, Uploading
    <2> QED BY <1>0, <2>1
  <1>11. \A j \in Keys : Uploading(j) => Uploading(j)'
    BY <1>1 DEF Uploading, At
  <1>12. ActiveHasObject'
    <2> SUFFICES ASSUME NEW j \in Keys, rows[j].status = "active"
                 PROVE (\E s \in Stores : j \in stored'[s]) \/ Deleting(j)' \/ j \in cut'
      BY DEF ActiveHasObject
    <2>1. (\E s \in Stores : j \in stored[s]) \/ Deleting(j) \/ j \in cut
      BY DEF Inv, RowsMatchObjects, ActiveHasObject
    <2>2. cut \subseteq cut'
      OBVIOUS
    <2>3. \A s \in Stores : stored[s] \subseteq stored'[s]
      BY <1>6
    <2> QED BY <1>9, <2>1, <2>2, <2>3
  <1>13. OrphansExplained'
    <2> SUFFICES ASSUME NEW j \in Keys, NEW s \in Stores, j \in stored'[s], rows[j].status # "active"
                 PROVE Uploading(j)' \/ j \in cut' \/ j \in strayed
      BY DEF OrphansExplained
    <2>1. CASE j = k
      BY <1>10, <2>1
    <2>2. CASE j # k
      <3>1. j \in stored[s]
        BY <1>6, <2>2
      <3>2. Uploading(j) \/ j \in cut \/ j \in strayed
        BY <3>1 DEF Inv, RowsMatchObjects, OrphansExplained
      <3>3. cut \subseteq cut'
        OBVIOUS
      <3> QED BY <1>11, <3>2, <3>3
    <2> QED BY <2>1, <2>2
  <1>14. MissedExplained'
    <2> SUFFICES ASSUME NEW j \in Keys, NEW s \in Stores, <<j, s>> \in missed
                 PROVE home'[j] \in Stores \ {s} \/ rows[j].status = "deleted" \/ Deleting(j)' \/ j \in cut'
      BY DEF MissedExplained
    <2>1. home[j] \in Stores \ {s} \/ rows[j].status = "deleted" \/ Deleting(j) \/ j \in cut
      BY DEF Inv, RowsMatchObjects, MissedExplained
    <2>2. home[j] \in Stores => home'[j] = home[j]
      BY <1>2, <1>6 DEF Stores
    <2>3. cut \subseteq cut'
      OBVIOUS
    <2> QED BY <1>9, <2>1, <2>2, <2>3
  <1> QED BY <1>5, <1>7, <1>8, <1>12, <1>13, <1>14 DEF Inv, RowsMatchObjects
(* A delete, once it has removed the object                                *)
LEMMA InvTake ==
  ASSUME Inv, StorageTypeOK', NEW t \in Threads, call[t].for.op = "delete",
         call[t].stage \in {"act", "unlink"}, Take(t),
         UNCHANGED <<rows, home, strayed, missed>>,
         \/ Go(t, "commit") /\ cut' = cut
         \/ Answer(t) /\ cut' = cut \union {Key(t)}
  PROVE  Inv'
  <1>0. PICK k \in Keys : k = Key(t)
    BY KeyType DEF Inv
  <1>1. /\ call[t].store \in Stores
        /\ \A u \in Threads \ {t} : call'[u] = call[u] /\ Key(u)' = Key(u)
    BY GoOn, Answered DEF Inv
  <1>2. rows[k].status # "absent"
    BY <1>0 DEF Inv, CallSound, OtherSound
  <1>3. /\ k \notin stored'[call[t].store]
        /\ \A s \in Stores : stored'[s] \subseteq stored[s]
        /\ \A s \in Stores, j \in Keys \ {k} : j \in stored'[s] <=> j \in stored[s]
    BY <1>0, <1>1 DEF Take, Inv, StorageTypeOK
  <1>4. ASSUME NEW u \in Threads \ {t} PROVE CallSound(u)'
    <2>1. CASE call[u].stage = "idle"
      BY <1>1, <2>1 DEF CallSound
    <2>2. CASE call[u].stage # "idle"
      <3>1. Key(u) \in Keys /\ call[u] \in Call
        BY <2>2, KeyType DEF Inv, StorageTypeOK
      <3>2. call[u].stage = "commit" => call[u].store \in Stores
        BY <3>1, ActingType
      <3>3. CASE call[u].for.op = "upload"
        <4>1. UploadSound(u) /\ Key(u) # k
          BY <1>2, <2>2, <3>3 DEF Inv, CallSound, UploadSound
        <4>2. UploadSound(u)'
          BY <1>1, <1>3, <3>1, <3>2, <4>1 DEF UploadSound
        <4> QED BY <1>1, <3>3, <4>2 DEF CallSound
      <3>4. CASE call[u].for.op # "upload"
        <4>1. OtherSound(u)
          BY <2>2, <3>4 DEF Inv, CallSound
        <4>2. OtherSound(u)'
          BY <1>1, <1>3, <3>1, <3>2, <4>1 DEF OtherSound, At
        <4> QED BY <1>1, <3>4, <4>2 DEF CallSound
      <3> QED BY <3>3, <3>4
    <2> QED BY <2>1, <2>2
  <1>5. CallSound(t)'
    <2>1. CASE Go(t, "commit")
      BY <1>0, <1>2, <1>3, <2>1, GoOn DEF Inv, CallSound, OtherSound
    <2>2. CASE Answer(t)
      BY <2>2, Answered DEF Inv
    <2> QED BY <2>1, <2>2
  <1>6. OneHome'
    BY <1>3 DEF Inv, OneHome
  <1>7. /\ \A j \in Keys : Deleting(j) => Deleting(j)'
        /\ \A j \in Keys : Uploading(j) => Uploading(j)'
    BY <1>1 DEF Deleting, Uploading, At
  <1>8. k \in cut' \/ Deleting(k)'
    <2>1. CASE Go(t, "commit")
      BY <1>0, <2>1, GoOn DEF Inv, At, Deleting
    <2> QED BY <1>0, <2>1
  <1>9. cut \subseteq cut'
    OBVIOUS
  <1>10. ActiveHasObject'
    <2> SUFFICES ASSUME NEW j \in Keys, rows[j].status = "active"
                 PROVE (\E s \in Stores : j \in stored'[s]) \/ Deleting(j)' \/ j \in cut'
      BY DEF ActiveHasObject
    <2>1. (\E s \in Stores : j \in stored[s]) \/ Deleting(j) \/ j \in cut
      BY DEF Inv, RowsMatchObjects, ActiveHasObject
    <2>2. CASE j = k
      BY <1>8, <2>2
    <2>3. CASE j # k
      BY <1>3, <1>7, <1>9, <2>1, <2>3
    <2> QED BY <2>2, <2>3
  <1>11. OrphansExplained'
    BY <1>3, <1>7, <1>9 DEF Inv, RowsMatchObjects, OrphansExplained
  <1>12. MissedExplained'
    BY <1>7, <1>9 DEF Inv, RowsMatchObjects, MissedExplained
  <1> QED BY <1>4, <1>5, <1>6, <1>10, <1>11, <1>12 DEF Inv, RowsMatchObjects

LEMMA InvInsert ==
  ASSUME Inv, StorageTypeOK', NEW t \in Threads, Insert(t)
  PROVE  Inv'
  <1>0. PICK k \in Keys : k = Key(t)
    BY KeyType DEF Inv, Insert, At
  <1>1. /\ call[t].store \in Stores /\ CallSound(t)'
        /\ \A u \in Threads \ {t} : call'[u] = call[u] /\ Key(u)' = Key(u)
    BY Answered DEF Inv, Insert, At
  <1>2. UploadSound(t)
    BY DEF Inv, CallSound, Insert, At
  <1>3. rows'[k].status = "active" /\ \A j \in Keys \ {k} : rows'[j] = rows[j]
    BY <1>0 DEF Insert, Inv, StorageTypeOK
  <1>4. ASSUME NEW u \in Threads \ {t} PROVE CallSound(u)'
    <2>1. CASE call[u].stage = "idle"
      BY <1>1, <2>1 DEF CallSound
    <2>2. CASE call[u].stage # "idle"
      <3>1. Key(u) \in Keys /\ call[u].for.op # "upload" /\ OtherSound(u)
        BY <1>2, <2>2, KeyType DEF Inv, CallSound, UploadSound
      <3>2. OtherSound(u)'
        BY <1>1, <1>3, <3>1 DEF OtherSound, Insert, At
      <3> QED BY <1>1, <3>1, <3>2 DEF CallSound
    <2> QED BY <2>1, <2>2
  <1>5. OneHome'
    BY DEF Inv, OneHome, Insert
  <1>6. /\ \A j \in Keys : Deleting(j) => Deleting(j)'
        /\ \A j \in Keys \ {k} : Uploading(j) => Uploading(j)'
    BY <1>0, <1>1 DEF Deleting, Uploading, At, Insert
  <1>7. rows[k].status = "absent" /\ \E s \in Stores : k \in stored[s]
    BY <1>0, <1>1, <1>2 DEF UploadSound, Insert, At
  <1>8. ActiveHasObject'
    BY <1>3, <1>6, <1>7 DEF Inv, RowsMatchObjects, ActiveHasObject, Insert
  <1>9. OrphansExplained'
    BY <1>3, <1>6 DEF Inv, RowsMatchObjects, OrphansExplained, Insert
  <1>10. MissedExplained'
    BY <1>3, <1>6, <1>7 DEF Inv, RowsMatchObjects, MissedExplained, Insert
  <1> QED BY <1>1, <1>4, <1>5, <1>8, <1>9, <1>10 DEF Inv, RowsMatchObjects

LEMMA InvMark ==
  ASSUME Inv, StorageTypeOK', NEW t \in Threads, MarkDeleted(t)
  PROVE  Inv'
  <1>0. PICK k \in Keys : k = Key(t)
    BY KeyType DEF Inv, MarkDeleted, At
  <1>1. /\ call[t].store \in Stores /\ CallSound(t)'
        /\ \A u \in Threads \ {t} : call'[u] = call[u] /\ Key(u)' = Key(u)
    BY Answered DEF Inv, MarkDeleted, At
  <1>2. OtherSound(t)
    BY DEF Inv, CallSound, MarkDeleted, At
  <1>3. rows'[k].status = "deleted" /\ \A j \in Keys \ {k} : rows'[j] = rows[j]
    BY <1>0 DEF MarkDeleted, Inv, StorageTypeOK, Row
  <1>4. ASSUME NEW u \in Threads \ {t} PROVE CallSound(u)'
    <2>1. CASE call[u].stage = "idle"
      BY <1>1, <2>1 DEF CallSound
    <2>2. CASE call[u].stage # "idle"
      <3>1. Key(u) \in Keys
        BY <2>2, KeyType DEF Inv
      <3>2. CASE call[u].for.op = "upload"
        <4>1. UploadSound(u) /\ Key(u) # k
          BY <1>0, <1>2, <2>2, <3>2 DEF Inv, CallSound, UploadSound, OtherSound
        <4>2. UploadSound(u)'
          BY <1>1, <1>3, <3>1, <4>1 DEF UploadSound, MarkDeleted
        <4> QED BY <1>1, <3>2, <4>2 DEF CallSound
      <3>3. CASE call[u].for.op # "upload"
        <4>1. OtherSound(u)
          BY <2>2, <3>3 DEF Inv, CallSound
        <4>2. OtherSound(u)'
          BY <1>1, <1>3, <3>1, <4>1 DEF OtherSound, At, MarkDeleted
        <4> QED BY <1>1, <3>3, <4>2 DEF CallSound
      <3> QED BY <3>2, <3>3
    <2> QED BY <2>1, <2>2
  <1>5. OneHome'
    BY DEF Inv, OneHome, MarkDeleted
  <1>6. /\ \A j \in Keys \ {k} : Deleting(j) => Deleting(j)'
        /\ \A j \in Keys : Uploading(j) => Uploading(j)'
    BY <1>0, <1>1 DEF Deleting, Uploading, At, MarkDeleted
  <1>7. (\E s \in Stores : k \in stored[s]) => k \in strayed'
    BY <1>0, <1>1, <1>2 DEF OtherSound, MarkDeleted, Inv, OneHome
  <1>8. ActiveHasObject'
    BY <1>3, <1>6 DEF Inv, RowsMatchObjects, ActiveHasObject, MarkDeleted
  <1>9. OrphansExplained'
    <2> SUFFICES ASSUME NEW j \in Keys, NEW s \in Stores, j \in stored'[s], rows'[j].status # "active"
                 PROVE Uploading(j)' \/ j \in cut' \/ j \in strayed'
      BY DEF OrphansExplained
    <2>1. CASE j = k
      BY <1>7, <2>1 DEF MarkDeleted
    <2>2. CASE j # k
      BY <1>3, <1>6, <2>2 DEF Inv, RowsMatchObjects, OrphansExplained, MarkDeleted
    <2> QED BY <2>1, <2>2
  <1>10. MissedExplained'
    BY <1>3, <1>6 DEF Inv, RowsMatchObjects, MissedExplained, MarkDeleted
  <1> QED BY <1>1, <1>4, <1>5, <1>8, <1>9, <1>10 DEF Inv, RowsMatchObjects

LEMMA InvFetch ==
  ASSUME Inv, StorageTypeOK', NEW t \in Threads, Fetch(t)
  PROVE  Inv'
  <1>0. PICK k \in Keys : k = Key(t)
    BY KeyType DEF Inv, Fetch
  <1>1. /\ call[t].store \in Stores /\ CallSound(t)'
        /\ \A u \in Threads \ {t} : call'[u] = call[u] /\ Key(u)' = Key(u)
    BY Answered DEF Inv, Fetch
  <1>2. \A u \in Threads \ {t} : CallSound(u)'
    BY <1>1 DEF Inv, CallSound, UploadSound, OtherSound, At, Fetch
  <1>3. OneHome'
    BY DEF Inv, OneHome, Fetch
  <1>4. \A j \in Keys : (Deleting(j) => Deleting(j)') /\ (Uploading(j) => Uploading(j)')
    BY <1>1 DEF Deleting, Uploading, At, Fetch
  <1>5. ActiveHasObject'
    BY <1>4 DEF Inv, RowsMatchObjects, ActiveHasObject, Fetch
  <1>6. OrphansExplained'
    BY <1>4 DEF Inv, RowsMatchObjects, OrphansExplained, Fetch
  <1>7. rows[k].status \in {"active", "deleted"}
    <2>1. call[t].for.op # "upload"
      BY DEF Fetch, Reads
    <2>2. OtherSound(t)
      BY <2>1 DEF Inv, CallSound, Fetch
    <2> QED BY <1>0, <2>2 DEF OtherSound, Inv, StorageTypeOK, Row
  <1>8. MissedExplained'
    <2> SUFFICES ASSUME NEW j \in Keys, NEW s \in Stores, <<j, s>> \in missed'
                 PROVE home[j] \in Stores \ {s} \/ rows[j].status = "deleted" \/ Deleting(j)' \/ j \in cut
      BY DEF MissedExplained, Fetch
    <2>1. CASE <<j, s>> \in missed
      BY <1>4, <2>1 DEF Inv, RowsMatchObjects, MissedExplained
    <2>2. CASE <<j, s>> \notin missed
      <3>1. j = k /\ s = call[t].store /\ k \notin stored[s]
        BY <1>0, <2>2 DEF Fetch
      <3>2. \/ rows[k].status = "deleted" \/ Deleting(k) \/ k \in cut
            \/ \E at \in Stores : k \in stored[at]
        BY <1>7 DEF Inv, RowsMatchObjects, ActiveHasObject
      <3>3. ASSUME NEW at \in Stores, k \in stored[at] PROVE home[k] \in Stores \ {s}
        BY <3>1, <3>3 DEF Inv, OneHome
      <3> QED BY <1>4, <3>1, <3>2, <3>3
    <2> QED BY <2>1, <2>2
  <1> QED BY <1>1, <1>2, <1>3, <1>5, <1>6, <1>8 DEF Inv, RowsMatchObjects
(* Calls end between object and row, and their keys are noted as cut off.  *)
LEMMA InvCutOff ==
  ASSUME Inv, StorageTypeOK', NEW S \in SUBSET Threads,
         \A t \in S : call'[t] = StorageIdle,
         \A t \in Threads \ S : call'[t] = call[t],
         cut \subseteq cut', \A t \in S : InTheMiddle(t) => Key(t) \in cut',
         UNCHANGED <<stored, rows, home, strayed, missed>>
  PROVE  Inv'
  <1>1. ASSUME NEW t \in Threads PROVE CallSound(t)'
    <2>1. CASE t \in S
      BY <2>1 DEF CallSound, StorageIdle
    <2>2. CASE t \notin S
      <3>1. call'[t] = call[t] /\ Key(t)' = Key(t)
        BY <2>2 DEF Key
      <3> QED BY <3>1 DEF Inv, CallSound, UploadSound, OtherSound, At
    <2> QED BY <2>1, <2>2
  <1>2. OneHome'
    BY DEF Inv, OneHome
  <1>3. ASSUME NEW k \in Keys
        PROVE  /\ Deleting(k) => Deleting(k)' \/ k \in cut'
               /\ Uploading(k) => Uploading(k)' \/ k \in cut'
    <2>1. ASSUME NEW t \in Threads, call[t].stage = "commit", Key(t) = k
          PROVE  k \in cut' \/ (call'[t] = call[t] /\ Key(t)' = k)
      <3>1. CASE t \in S
        <4>1. InTheMiddle(t)
          BY <2>1 DEF InTheMiddle
        <4>2. Key(t) \in cut'
          BY <3>1, <4>1
        <4> QED BY <2>1, <4>2
      <3>2. CASE t \notin S
        BY <2>1, <3>2 DEF Key
      <3> QED BY <3>1, <3>2
    <2>2. Deleting(k) => Deleting(k)' \/ k \in cut'
      BY <2>1 DEF Deleting, At
    <2>3. Uploading(k) => Uploading(k)' \/ k \in cut'
      BY <2>1 DEF Uploading, At
    <2> QED BY <2>2, <2>3
  <1>4. cut \subseteq cut'
    OBVIOUS
  <1>5. ActiveHasObject'
    BY <1>3, <1>4 DEF Inv, RowsMatchObjects, ActiveHasObject
  <1>6. OrphansExplained'
    BY <1>3, <1>4 DEF Inv, RowsMatchObjects, OrphansExplained
  <1>7. MissedExplained'
    BY <1>3, <1>4 DEF Inv, RowsMatchObjects, MissedExplained
  <1> QED BY <1>1, <1>2, <1>5, <1>6, <1>7 DEF Inv, RowsMatchObjects

LEMMA InvServe ==
  ASSUME Inv, StorageTypeOK', NEW t \in Threads,
         \/ PutObject(t) \/ PutLost(t) \/ Insert(t)
         \/ Remove(t) \/ Unlink(t) \/ RemoveLost(t) \/ MarkDeleted(t)
         \/ Fetch(t) \/ CommitFails(t)
  PROVE  Inv'
  <1>1. CASE PutObject(t)
    <2>1. CASE Works(call[t].store)
      BY <1>1, <2>1, InvPut DEF PutObject
    <2>2. CASE ~Works(call[t].store)
      BY <1>1, <2>2, InvRefused DEF PutObject, At
    <2> QED BY <2>1, <2>2
  <1>2. CASE PutLost(t)
    BY <1>2, InvPut DEF PutLost
  <1>3. CASE Remove(t)
    <2>1. CASE call[t].store = "local"
      <3> DEFINE stage == IF Key(t) \in stored["local"] THEN "unlink" ELSE "commit"
      <3>1. Go(t, stage) /\ At(t, "delete", "act") /\ ~InTheMiddle(t)
        BY <1>3, <2>1 DEF Remove, At, InTheMiddle
      <3>2. UNCHANGED <<stored, rows, home, cut, strayed, missed>>
        BY <1>3, <2>1 DEF Remove
      <3>3. stage \in {"act", "unlink", "commit"}
        OBVIOUS
      <3>4. /\ call[t].for.op = call'[t].for.op /\ Key(t)' = Key(t)
            /\ call'[t].store = call[t].store /\ call'[t].stage = stage
            /\ \E c : call' = [call EXCEPT ![t] = c]
        BY <3>1, <3>3, GoOn DEF Inv, At
      <3>5. OtherSound(t)
        BY <3>1 DEF Inv, CallSound, At
      <3>6. CallSound(t)'
        BY <2>1, <3>1, <3>2, <3>4, <3>5 DEF CallSound, OtherSound, At
      <3> QED BY <3>1, <3>2, <3>4, <3>6, Framed
    <2>2. CASE call[t].store # "local" /\ Works("minio")
      BY <1>3, <2>2, InvTake DEF Remove, At
    <2>3. CASE call[t].store # "local" /\ ~Works("minio")
      BY <1>3, <2>3, InvRefused DEF Remove, At
    <2> QED BY <2>1, <2>2, <2>3
  <1>4. CASE Unlink(t)
    <2>1. CASE Key(t) \in stored["local"]
      BY <1>4, <2>1, InvTake DEF Unlink, At
    <2>2. CASE Key(t) \notin stored["local"]
      BY <1>4, <2>2, InvRefused DEF Unlink, At
    <2> QED BY <2>1, <2>2
  <1>5. CASE RemoveLost(t)
    BY <1>5, InvTake DEF RemoveLost, At
  <1>6. CASE CommitFails(t)
    <2>1. call' = [call EXCEPT ![t] = StorageIdle] /\ InTheMiddle(t)
      BY <1>6 DEF CommitFails, Answer
    <2>2. call'[t] = StorageIdle /\ \A u \in Threads \ {t} : call'[u] = call[u]
      BY <2>1 DEF Inv, StorageTypeOK
    <2>3. cut \subseteq cut' /\ Key(t) \in cut'
      BY <1>6 DEF CommitFails
    <2>4. UNCHANGED <<stored, rows, home, strayed, missed>>
      BY <1>6 DEF CommitFails
    <2> DEFINE S == {t}
    <2>5. /\ \A u \in S : call'[u] = StorageIdle
          /\ \A u \in Threads \ S : call'[u] = call[u]
          /\ \A u \in S : InTheMiddle(u) => Key(u) \in cut'
      BY <2>2, <2>3
    <2>6. S \in SUBSET Threads
      OBVIOUS
    <2> HIDE DEF S
    <2> QED BY <2>3, <2>4, <2>5, <2>6, InvCutOff
  <1> QED BY <1>1, <1>2, <1>3, <1>4, <1>5, <1>6, InvInsert, InvMark, InvFetch

LEMMA InvSurroundings ==
  ASSUME Inv, StorageTypeOK', Crash \/ MinioDown \/ MinioUp
  PROVE  Inv'
  <1>1. CASE Crash
    BY <1>1, InvCutOff DEF Crash
  <1>2. CASE MinioDown \/ MinioUp
    <2> DEFINE S == {}
    <2>1. S \in SUBSET Threads /\ S = {}
      OBVIOUS
    <2>2. UNCHANGED <<stored, rows, call, home, cut, strayed, missed>>
      BY <1>2 DEF MinioDown, MinioUp
    <2>3. /\ \A t \in S : call'[t] = StorageIdle
          /\ \A t \in Threads \ S : call'[t] = call[t]
          /\ \A t \in S : InTheMiddle(t) => Key(t) \in cut'
          /\ cut \subseteq cut'
      BY <2>1, <2>2
    <2> HIDE DEF S
    <2> QED BY <2>3, <2>1, <2>2, InvCutOff
  <1> QED BY <1>1, <1>2

LEMMA InvInit == StorageInit => Inv
  <1> SUFFICES ASSUME StorageInit PROVE Inv
    OBVIOUS
  <1>1. StorageTypeOK
    BY TypeInit
  <1>2. \A t \in Threads : CallSound(t)
    BY DEF StorageInit, CallSound, StorageIdle
  <1>3. OneHome
    BY DEF StorageInit, OneHome
  <1>4. RowsMatchObjects
    BY DEF StorageInit, RowsMatchObjects, ActiveHasObject, OrphansExplained, MissedExplained
  <1> QED BY <1>1, <1>2, <1>3, <1>4 DEF Inv

LEMMA InvStep == Inv /\ [StorageNext]_storageVars => Inv'
  <1> SUFFICES ASSUME Inv, [StorageNext]_storageVars PROVE Inv'
    OBVIOUS
  <1>1. StorageTypeOK'
    BY TypeStep DEF Inv
  <1>2. CASE UNCHANGED storageVars
    <2> DEFINE S == {}
    <2>1. S \in SUBSET Threads /\ S = {}
      OBVIOUS
    <2>2. UNCHANGED <<stored, rows, call, home, cut, strayed, missed>>
      BY <1>2 DEF storageVars
    <2>3. /\ \A t \in S : call'[t] = StorageIdle
          /\ \A t \in Threads \ S : call'[t] = call[t]
          /\ \A t \in S : InTheMiddle(t) => Key(t) \in cut'
          /\ cut \subseteq cut'
      BY <2>1, <2>2
    <2> HIDE DEF S
    <2> QED BY <2>3, <1>1, <2>1, <2>2, InvCutOff
  <1> QED BY <1>1, <1>2, InvBegin, InvChoose, InvServe, InvSurroundings DEF StorageNext

(* Rows and objects belong together, apart from calls under way, cut off   *)
(* or sent to the other store, for any number of keys, threads and faults  *)
(* (upload, delete, get, download, _use_local_backend).                    *)
THEOREM RowsHaveObjects == StorageSpec => []RowsMatchObjects
  <1>1. Inv => RowsMatchObjects
    BY DEF Inv
  <1> QED BY <1>1, InvInit, InvStep, PTL DEF StorageSpec
=============================================================================
