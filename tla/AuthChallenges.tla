--------------------------- MODULE AuthChallenges ---------------------------
(***************************************************************************)
(* One-time codes of one account: signup, verification of the address,      *)
(* login by code, password reset with its token, change of the address, and  *)
(* the login with a social identity that may activate the account.  A code   *)
(* is checked in two steps, the read of the challenge with the comparison    *)
(* and the transaction that consumes it, and anything may happen between.    *)
(* Other accounts are not modelled.  SUSPENDED stands for DISABLED as well;  *)
(* DELETED is a row with deletedAt.                                         *)
(***************************************************************************)
EXTENDS Integers, Sequences, FiniteSets

CONSTANTS
    Requests,        \* API requests under way at once
    Emails, NoEmail,
    MaxAttempts,     \* maxAttempts of a challenge
    MaxChallenges,   \* bound on the challenges
    MaxCalls,        \* bound on the requests
    MaxAdmin,        \* bound on what administrators do
    MaxFaults        \* bound on crashes

ASSUME AuthAssumption ==
    /\ MaxAttempts \in Nat \ {0}
    /\ {MaxChallenges, MaxCalls, MaxAdmin, MaxFaults} \subseteq Nat
    /\ Emails # {} /\ NoEmail \notin Emails /\ IsFiniteSet(Requests)

VARIABLES
    user,        \* the row of the account
    challenge,   \* rows of otp_challenges in the order of their creation
    token,       \* password_reset_tokens, by challenge
    request,     \* per request: where it is
    calls, changes, faults

bounds == <<calls, changes, faults>>
vars == <<user, challenge, token, request, bounds>>

\* VERIFY_PHONE has one number, which is named like the first address.
Purposes == {"VERIFY_EMAIL", "VERIFY_PHONE", "LOGIN", "PASSWORD_RESET", "EMAIL_CHANGE"}
User == [status: {"NONE", "PENDING", "ACTIVE", "SUSPENDED", "DELETED"},
         email: Emails \cup {NoEmail}, pendingEmail: Emails \cup {NoEmail},
         linked: BOOLEAN]              \* has a social account
NoUser == [status |-> "NONE", email |-> NoEmail, pendingEmail |-> NoEmail,
           linked |-> FALSE]

\* "recent" for the 60 seconds of the cooldown, "valid" until it expires.
Challenge == [purpose: Purposes, destination: Emails,
              age: {"recent", "valid", "expired"},
              attempts: 0..MaxAttempts,
              locked: BOOLEAN, verified: BOOLEAN, consumed: BOOLEAN,
              deleted: BOOLEAN,
              guesses: Nat,            \* history: wrong codes compared with it
              outcomes: Nat]           \* history: what it was good for
NewChallenge(purpose, destination) ==
    [purpose |-> purpose, destination |-> destination, age |-> "recent",
     attempts |-> 0, locked |-> FALSE, verified |-> FALSE, consumed |-> FALSE,
     deleted |-> FALSE, guesses |-> 0, outcomes |-> 0]
Ids == 1..MaxChallenges

Request == [step: {"idle", "signup", "create", "record", "consume", "activate",
                   "session", "issue", "confirm", "link"},
            purpose: Purposes \cup {"none"}, email: Emails \cup {NoEmail},
            id: Ids \cup {0},
            status: {"none", "NONE", "PENDING", "ACTIVE"},   \* as it was read
            list: SUBSET Ids]                        \* tokens to be deleted
Idle == [step |-> "idle", purpose |-> "none", email |-> NoEmail, id |-> 0,
         status |-> "none", list |-> {}]

\* The address of the account.
First == CHOOSE e \in Emails : TRUE

\* Before the signup, or an account that is in use.
Init ==
    /\ user \in {NoUser, [NoUser EXCEPT !.status = "ACTIVE", !.email = First]}
    /\ challenge = <<>>
    /\ token = [i \in Ids |-> "none"]
    /\ request = [r \in Requests |-> Idle]
    /\ calls = 0 /\ changes = 0 /\ faults = 0

At(r, step) == request[r].step = step
Goto(r, step) == request' = [request EXCEPT ![r].step = step]
End(r) == request' = [request EXCEPT ![r] = Idle]

\* A request arrives; requests are alike, and the first free one is taken.
Call(r, values) ==
    /\ At(r, "idle") /\ r = CHOOSE q \in Requests : At(q, "idle")
    /\ calls < MaxCalls
    /\ request' = [request EXCEPT ![r] = values]
    /\ calls' = calls + 1
    /\ UNCHANGED <<user, challenge, token, changes, faults>>

\* The process dies; a transaction that is open is rolled back.
Crash(r) ==
    /\ ~At(r, "idle") /\ faults < MaxFaults
    /\ faults' = faults + 1
    /\ End(r)
    /\ UNCHANGED <<user, challenge, token, calls, changes>>

-----------------------------------------------------------------------------
(* Time and administration.                                                 *)

\* Every challenge lives as long as the others, so the oldest is first.
PassTime(i) ==
    /\ i \in DOMAIN challenge /\ challenge[i].age # "expired"
    /\ \A j \in 1..(i - 1) : \/ challenge[j].age = "expired"
                             \/ challenge[j].age = "valid" /\ challenge[i].age = "recent"
    /\ challenge' = [challenge EXCEPT ![i].age =
                       IF @ = "recent" THEN "valid" ELSE "expired"]
    /\ UNCHANGED <<user, token, request, bounds>>

TokenExpires(i) ==
    /\ token[i] = "live"
    /\ token' = [token EXCEPT ![i] = "expired"]
    /\ UNCHANGED <<user, challenge, request, bounds>>

\* The retention job deletes a challenge long after it expired, and the token
\* goes with it; no request is that old.
PurgeChallenge(i) ==
    /\ i \in DOMAIN challenge /\ challenge[i].age = "expired" /\ ~challenge[i].deleted
    /\ \A r \in Requests : request[r].id # i
    /\ challenge' = [challenge EXCEPT ![i].deleted = TRUE]
    /\ token' = [token EXCEPT ![i] = IF @ = "none" THEN "none" ELSE "deleted"]
    /\ UNCHANGED <<user, request, bounds>>

Change == changes < MaxAdmin /\ changes' = changes + 1 /\ UNCHANGED <<calls, faults>>

\* updateUser suspends an account, and brings it back.
UpdateUser(status) ==
    /\ Change
    /\ user.status \in {"PENDING", "ACTIVE", "SUSPENDED"} \ {status}
    /\ user' = [user EXCEPT !.status = status]
    /\ UNCHANGED <<challenge, token, request>>

\* deleteAccount, whose transaction also deletes challenges and tokens.
DeleteAccount ==
    /\ Change
    /\ user.status = "ACTIVE"
    /\ user' = [NoUser EXCEPT !.status = "DELETED"]
    /\ challenge' = [i \in DOMAIN challenge |-> [challenge[i] EXCEPT !.deleted = TRUE]]
    /\ token' = [i \in Ids |-> IF token[i] = "none" THEN "none" ELSE "deleted"]
    /\ UNCHANGED request

-----------------------------------------------------------------------------
(* Sending a code.                                                          *)

Add(purpose, destination) ==
    /\ Len(challenge) < MaxChallenges
    /\ challenge' = Append(challenge, NewChallenge(purpose, destination))

\* Challenges a request under way will still add.
Pending == Cardinality({q \in Requests : request[q].step \in {"signup", "create"}})
Room == Len(challenge) + Pending < MaxChallenges

\* The address is free when signupWithPassword looks.
SignupWithPassword(r) ==
    /\ user.status = "NONE" /\ Room
    /\ Call(r, [Idle EXCEPT !.step = "signup"])

\* The unique index on the address decides between two signups.
CreateUser(r) ==
    /\ At(r, "signup")
    /\ \/ /\ user.status = "NONE"
          /\ user' = [NoUser EXCEPT !.status = "PENDING", !.email = First]
          /\ Add("VERIFY_EMAIL", First)
       \/ user.status # "NONE" /\ UNCHANGED <<user, challenge>>
    /\ End(r)
    /\ UNCHANGED <<token, bounds>>

RequiredOtpUserStatus(purpose) ==
    IF purpose \in {"LOGIN", "PASSWORD_RESET"} THEN "ACTIVE" ELSE "PENDING"

RecentlySent(purpose, destination) ==
    \E i \in DOMAIN challenge :
        LET c == challenge[i]
        IN  /\ c.purpose = purpose /\ c.destination = destination
            /\ c.age = "recent" /\ ~c.consumed /\ ~c.locked /\ ~c.deleted
            /\ purpose = "PASSWORD_RESET" => ~c.verified

\* The user and the last challenge have been looked for.
Send(r, purpose, destination) ==
    /\ Room /\ ~RecentlySent(purpose, destination)
    /\ Call(r, [Idle EXCEPT !.step = "create", !.purpose = purpose,
                            !.email = destination])

SendOtp(r, purpose) ==
    /\ purpose \in {"VERIFY_EMAIL", "LOGIN"}
    /\ user.status = RequiredOtpUserStatus(purpose)
    /\ Send(r, purpose, user.email)

RequestPasswordReset(r) ==
    user.status = "ACTIVE" /\ Send(r, "PASSWORD_RESET", user.email)

\* sendPhoneVerification, of a user who is logged in.
SendPhoneVerification(r) ==
    user.status = "ACTIVE" /\ Send(r, "VERIFY_PHONE", First)

\* requestEmailChange with the right password; an address that is in use, or
\* pending already, is refused.
RequestEmailChange(r, email) ==
    /\ user.status = "ACTIVE" /\ Room
    /\ email \notin {user.email, user.pendingEmail}
    /\ Call(r, [Idle EXCEPT !.step = "create", !.purpose = "EMAIL_CHANGE",
                            !.email = email])

\* The code has been hashed, and the challenge is inserted.
CreateChallenge(r) ==
    /\ At(r, "create") /\ request[r].purpose # "EMAIL_CHANGE"
    /\ Add(request[r].purpose, request[r].email)
    /\ End(r)
    /\ UNCHANGED <<user, token, bounds>>

\* With a change of the address the row of the user is updated first, which
\* throws when the account was deleted meanwhile.
CreateEmailChange(r) ==
    /\ At(r, "create") /\ request[r].purpose = "EMAIL_CHANGE"
    /\ \/ /\ user.status # "DELETED"
          /\ user' = [user EXCEPT !.pendingEmail = request[r].email]
          /\ Add("EMAIL_CHANGE", request[r].email)
       \/ user.status = "DELETED" /\ UNCHANGED <<user, challenge>>
    /\ End(r)
    /\ UNCHANGED <<token, bounds>>

-----------------------------------------------------------------------------
(* Checking a code.                                                         *)

\* Mutant: the queries do not exclude challenges that are locked.
LockedToo(purpose, destination) ==
    {i \in DOMAIN challenge :
        LET c == challenge[i]
        IN  /\ c.purpose = purpose /\ c.destination = destination
            /\ ~c.consumed /\ ~c.deleted /\ ~c.verified}

\* The challenges of the query of verifyOtp, verifyPasswordResetOtp and
\* verifyEmailChange, of which the newest counts.
Candidates(purpose, destination) ==
    {i \in DOMAIN challenge :
        LET c == challenge[i]
        IN  /\ c.purpose = purpose /\ c.destination = destination
            /\ ~c.consumed /\ ~c.locked /\ ~c.deleted
            /\ purpose = "PASSWORD_RESET" => ~c.verified
            /\ purpose = "EMAIL_CHANGE" => c.age # "expired"}
Newest(ids) == CHOOSE i \in ids : \A j \in ids : j <= i

\* The challenge is read and the code compared with it.
Verify(r, purpose, destination, right) ==
    LET ids == Candidates(purpose, destination)
        i == Newest(ids)
    IN  /\ ids # {} /\ challenge[i].age # "expired"
        /\ purpose = "PASSWORD_RESET" => user.status = "ACTIVE"
        /\ At(r, "idle") /\ r = CHOOSE q \in Requests : At(q, "idle")
        /\ calls < MaxCalls /\ calls' = calls + 1
        /\ request' = [request EXCEPT ![r] =
                         [Idle EXCEPT !.step = IF right THEN "consume" ELSE "record",
                                      !.purpose = purpose, !.email = destination,
                                      !.id = i]]
        /\ challenge' = [challenge EXCEPT ![i].guesses = IF right THEN @ ELSE @ + 1]
        /\ UNCHANGED <<user, token, changes, faults>>

\* A transaction of a request has updated the row and is not finished.
RowLocked(i) == \E q \in Requests : /\ request[q].step \in {"activate", "issue"}
                                    /\ request[q].id = i

\* The update of recordInvalidOtpAttempt.
FailedAttempt(c) ==
    [c EXCEPT !.attempts = @ + 1, !.locked = c.attempts + 1 >= MaxAttempts]

\* Its condition.
RecordInvalidOtpAttempt(r) ==
    LET i == request[r].id
        c == challenge[i]
        counts == /\ c.attempts < MaxAttempts /\ c.age # "expired"
                  /\ ~c.consumed /\ ~c.verified /\ ~c.locked /\ ~c.deleted
    IN  /\ At(r, "record") /\ ~RowLocked(i)
        /\ challenge' = [challenge EXCEPT ![i] = IF counts THEN FailedAttempt(c) ELSE c]
        /\ End(r)
        /\ UNCHANGED <<user, token, bounds>>

\* Mutant: the update that consumes the challenge does not compare consumedAt.
NotLocked(c) == ~c.locked /\ ~c.deleted

\* The conditions all three transactions put on the challenge.
Consumable(c) == ~c.consumed /\ ~c.locked /\ ~c.deleted

\* The challenge is consumed, with an outcome or without.
Consumed(c, good) == [c EXCEPT !.consumed = TRUE,
                               !.outcomes = IF good THEN @ + 1 ELSE @]

\* A transaction that finds no challenge to consume leaves everything alone.
ConsumeFails(r) ==
    LET c == challenge[request[r].id]
    IN  /\ At(r, "consume") /\ ~RowLocked(request[r].id)
        /\ \/ ~Consumable(c)
           \/ request[r].purpose \in {"PASSWORD_RESET", "EMAIL_CHANGE"} /\ c.age = "expired"
           \/ request[r].purpose = "PASSWORD_RESET" /\ c.verified
        /\ End(r)
        /\ UNCHANGED <<user, challenge, token, bounds>>

\* A request consumes the challenge of its purpose.
Consumes(r, purpose) ==
    /\ At(r, "consume") /\ request[r].purpose = purpose
    /\ ~RowLocked(request[r].id)
    /\ Consumable(challenge[request[r].id])

\* verifyOtp for LOGIN consumes the code, and then looks at the account.
ConsumeLogin(r) ==
    /\ Consumes(r, "LOGIN")
    /\ challenge' = [challenge EXCEPT ![request[r].id] = Consumed(@, FALSE)]
    /\ IF user.status = "ACTIVE" THEN Goto(r, "session") ELSE End(r)
    /\ UNCHANGED <<user, token, bounds>>

\* createSession is a transaction of its own; updating lastLoginAt throws when
\* the account was deleted, and nothing in it looks at the status.
CreateSession(r) ==
    /\ At(r, "session")
    /\ challenge' = [challenge EXCEPT ![request[r].id] =
                       Consumed(@, user.status # "DELETED")]
    /\ End(r)
    /\ UNCHANGED <<user, token, bounds>>

\* verificationTransition: a status it does not let pass only consumes the code.
ReadUserStatus(r) ==
    /\ Consumes(r, "VERIFY_EMAIL") \/ Consumes(r, "VERIFY_PHONE")
    /\ \/ /\ user.status \in {"PENDING", "ACTIVE"}
          /\ request' = [request EXCEPT ![r].step = "activate",
                                        ![r].status = user.status]
          /\ UNCHANGED challenge
       \/ /\ user.status \notin {"PENDING", "ACTIVE"}
          /\ challenge' = [challenge EXCEPT ![request[r].id] = Consumed(@, FALSE)]
          /\ End(r)
    /\ UNCHANGED <<user, token, bounds>>

\* The condition of the update of the user.
SameStatus(r) == user.status = request[r].status

Activate(r) ==
    /\ At(r, "activate")
    /\ challenge' = [challenge EXCEPT ![request[r].id] = Consumed(@, SameStatus(r))]
    /\ user' = IF SameStatus(r) THEN [user EXCEPT !.status = "ACTIVE"] ELSE user
    /\ End(r)
    /\ UNCHANGED <<token, bounds>>

\* verifyPasswordResetOtp: the tokens the first statement finds are deleted,
\* and a token is inserted.
DeleteTokens(r) ==
    LET c == challenge[request[r].id]
    IN  /\ Consumes(r, "PASSWORD_RESET") /\ c.age # "expired" /\ ~c.verified
        /\ request' = [request EXCEPT ![r].step = "issue",
                         ![r].list = {i \in Ids : token[i] \in {"live", "expired"}}]
        /\ UNCHANGED <<user, challenge, token, bounds>>

IssueToken(r) ==
    /\ At(r, "issue")
    /\ challenge' = [challenge EXCEPT ![request[r].id].verified = TRUE]
    /\ token' = [i \in Ids |->
                   IF i = request[r].id THEN "live"
                   ELSE IF i \in request[r].list /\ token[i] # "used" THEN "deleted"
                   ELSE token[i]]
    /\ End(r)
    /\ UNCHANGED <<user, bounds>>

\* confirmPasswordReset finds the token of an active user, and hashes.
ConfirmPasswordReset(r, i) ==
    /\ token[i] = "live" /\ user.status = "ACTIVE"
    /\ Call(r, [Idle EXCEPT !.step = "confirm", !.id = i])

\* Mutant: an update that finds no user does not abort the reset.
AnyUser == TRUE

\* The condition of the update of the password.
EligibleUser == user.status = "ACTIVE"

\* Token, challenge and password change together, or not at all.
ResetPassword(r) ==
    LET i == request[r].id
    IN  /\ At(r, "confirm") /\ ~RowLocked(i)
        /\ \/ /\ token[i] = "live" /\ Consumable(challenge[i]) /\ EligibleUser
              /\ challenge' = [challenge EXCEPT ![i] = Consumed(@, TRUE)]
              /\ token' = [j \in Ids |-> IF j = i THEN "used"
                                         ELSE IF token[j] \in {"live", "expired"} THEN "deleted"
                                         ELSE token[j]]
           \/ /\ ~(token[i] = "live" /\ Consumable(challenge[i]) /\ EligibleUser)
              /\ UNCHANGED <<challenge, token>>
        /\ End(r)
        /\ UNCHANGED <<user, bounds>>

\* Mutant: the address that is pending becomes the address.
ChangePending(r) ==
    LET c == challenge[request[r].id]
        good == user.status = "ACTIVE" /\ user.pendingEmail # NoEmail
    IN  /\ Consumes(r, "EMAIL_CHANGE") /\ c.age # "expired"
        /\ challenge' = [challenge EXCEPT ![request[r].id] = Consumed(@, good)]
        /\ user' = IF good THEN [user EXCEPT !.email = user.pendingEmail,
                                             !.pendingEmail = NoEmail]
                   ELSE user
        /\ End(r)
        /\ UNCHANGED <<token, bounds>>

\* verifyEmailChange consumes the challenge even if the address is not pending
\* any more.
VerifyEmailChange(r) ==
    LET c == challenge[request[r].id]
        good == user.status = "ACTIVE" /\ user.pendingEmail = request[r].email
    IN  /\ Consumes(r, "EMAIL_CHANGE") /\ c.age # "expired"
        /\ challenge' = [challenge EXCEPT ![request[r].id] = Consumed(@, good)]
        /\ user' = IF good THEN [user EXCEPT !.email = request[r].email,
                                             !.pendingEmail = NoEmail]
                   ELSE user
        /\ End(r)
        /\ UNCHANGED <<token, bounds>>

-----------------------------------------------------------------------------
(* loginWithSocial, by an identity with the account's address.               *)

\* An identity that is not linked finds the user, or none.
LoginWithSocial(r) ==
    /\ ~user.linked
    /\ user.email \in {First, NoEmail}
    /\ user.status \in {"NONE", "PENDING", "ACTIVE"}
    /\ Call(r, [Idle EXCEPT !.step = "link", !.status = user.status])

\* The user is inserted or updated by id, and linked; the unique indexes and
\* deletedAt make the transaction throw, the status does not.
LinkSocialAccount(r) ==
    /\ At(r, "link")
    /\ \/ /\ request[r].status = "NONE" /\ user.status = "NONE"
          /\ user' = [NoUser EXCEPT !.status = "ACTIVE", !.email = First,
                                    !.linked = TRUE]
       \/ /\ request[r].status # "NONE" /\ user.status # "DELETED" /\ ~user.linked
          /\ user' = [user EXCEPT !.status = "ACTIVE", !.linked = TRUE]
       \/ /\ \/ request[r].status = "NONE" /\ user.status # "NONE"
             \/ request[r].status # "NONE" /\ (user.status = "DELETED" \/ user.linked)
          /\ UNCHANGED user
    /\ End(r)
    /\ UNCHANGED <<challenge, token, bounds>>

-----------------------------------------------------------------------------
Sending(r) ==
    \/ SignupWithPassword(r) \/ CreateUser(r)
    \/ \E p \in Purposes : SendOtp(r, p)
    \/ RequestPasswordReset(r) \/ SendPhoneVerification(r)
    \/ \E e \in Emails : RequestEmailChange(r, e)
    \/ CreateChallenge(r) \/ CreateEmailChange(r)

Checking(r) ==
    \/ \E p \in Purposes, e \in Emails, right \in BOOLEAN : Verify(r, p, e, right)
    \/ RecordInvalidOtpAttempt(r) \/ ConsumeFails(r)
    \/ ConsumeLogin(r) \/ CreateSession(r) \/ ReadUserStatus(r) \/ Activate(r)
    \/ DeleteTokens(r) \/ IssueToken(r)
    \/ \E i \in Ids : ConfirmPasswordReset(r, i)
    \/ ResetPassword(r) \/ VerifyEmailChange(r)

Linking(r) == LoginWithSocial(r) \/ LinkSocialAccount(r)

Next ==
    \/ \E r \in Requests : Sending(r) \/ Checking(r) \/ Linking(r) \/ Crash(r)
    \/ \E i \in Ids : PassTime(i) \/ TokenExpires(i) \/ PurgeChallenge(i)
    \/ \E status \in {"ACTIVE", "SUSPENDED"} : UpdateUser(status)
    \/ DeleteAccount

Spec == Init /\ [][Next]_vars

-----------------------------------------------------------------------------
(* Properties.                                                              *)

\* Types of the variables.
TypeOK ==
    /\ user \in User
    /\ \A i \in DOMAIN challenge : challenge[i] \in Challenge
    /\ Len(challenge) <= MaxChallenges
    /\ token \in [Ids -> {"none", "live", "used", "deleted", "expired"}]
    /\ request \in [Requests -> Request]
    /\ calls \in 0..MaxCalls /\ changes \in 0..MaxAdmin /\ faults \in 0..MaxFaults

\* A challenge that ran out of attempts was and will be good for nothing, also
\* for a right code that was compared before the last wrong one was counted.
LockedIsFinal ==
    \A i \in DOMAIN challenge :
        LET c == challenge[i]
        IN  c.attempts = MaxAttempts =>
                c.locked /\ ~c.verified /\ ~c.consumed /\ c.outcomes = 0

\* Guesses that overlap are compared before they are counted, but there are at
\* most as many too many as requests under way, and one for each crash.
GuessesBounded ==
    \A i \in DOMAIN challenge :
        challenge[i].guesses <= MaxAttempts - 1 + Cardinality(Requests) + faults

\* A code logs in, verifies, resets or changes the address at most once, however
\* often it is presented at the same time.
OneOutcome ==
    \A i \in DOMAIN challenge :
        challenge[i].outcomes <= (IF challenge[i].consumed THEN 1 ELSE 0)

Outcomes == [i \in DOMAIN challenge |-> challenge[i].outcomes]

\* In a suspended or deleted account no code verifies, resets or changes
\* anything, although the request had found the account in order before.  A
\* login by code is the exception: no login passes its check while the account
\* is suspended, but one that passed it before still gets its session, unless
\* the account was deleted.  And a suspended account is activated by an
\* administrator, or by a social login that read it before, never by a code.
SuspensionHolds ==
    [][/\ user.status \in {"SUSPENDED", "DELETED"} =>
             /\ \A i \in DOMAIN challenge :
                   \/ Outcomes'[i] = Outcomes[i]
                   \/ /\ user.status = "SUSPENDED"
                      /\ \E r \in Requests : At(r, "session") /\ request[r].id = i
             /\ \A r \in Requests :
                   request'[r].step = "session" =>
                       At(r, "session") /\ request'[r].id = request[r].id
       /\ user.status = "SUSPENDED" /\ user'.status = "ACTIVE" =>
             UpdateUser("ACTIVE") \/ \E r \in Requests : LinkSocialAccount(r)]_vars

\* The account has an address other than its first only if the code sent to
\* that address was presented, whatever other changes were requested meanwhile.
EmailProven ==
    user.email \in {First, NoEmail}
        \/ \E i \in DOMAIN challenge : /\ challenge[i].purpose = "EMAIL_CHANGE"
                                       /\ challenge[i].destination = user.email
                                       /\ challenge[i].outcomes = 1

\* The invariant of the codes: types, one outcome for a code, and none for one
\* that ran out of attempts, however its presentations overlap.
AuthInv == TypeOK /\ LockedIsFinal /\ OneOutcome

=============================================================================
