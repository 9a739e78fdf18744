----------------------- MODULE AuthChallengesProofs -------------------------
(***************************************************************************)
(* Theorems about AuthChallenges, for any number of requests, addresses,    *)
(* challenges and attempts.                                                 *)
(*                                                                          *)
(* A code is compared in one step and consumed in another, so the invariant  *)
(* says what a request still knows of its challenge at each step             *)
(* (RequestOK), that a transaction which has updated a challenge, or a login *)
(* that has consumed one, is alone with it (ExclusiveInv), and, for the bound on guesses, that a challenge    *)
(* that can still be guessed has counted every wrong code except those under  *)
(* way and those lost in a crash (GuessInv).                                 *)
(***************************************************************************)
EXTENDS AuthChallenges, FiniteSetTheorems, SequenceTheorems, WellFoundedInduction, TLAPS

\* What a challenge has gone through: one that ran out of attempts is locked and
\* was good for nothing.
RowOK(c) ==
    /\ c.attempts = MaxAttempts => c.locked /\ ~c.verified /\ ~c.consumed
    /\ c.outcomes <= (IF c.consumed THEN 1 ELSE 0)
    /\ c.verified => c.purpose = "PASSWORD_RESET"

RowsInv ==
    /\ challenge \in Seq(Challenge)
    /\ \A i \in 1..Len(challenge) : RowOK(challenge[i])

\* The transaction of r has updated its challenge and is not finished, or r has
\* consumed it and has no session yet.
Holds(r) == request[r].step \in {"activate", "issue", "session"}

Checks(r) == request[r].step \in {"record", "consume", "activate", "issue", "session"}

RequestOK(r) ==
    LET q == request[r]
        c == challenge[q.id]
    IN  /\ Checks(r) \/ q.step = "confirm" => q.id \in 1..Len(challenge)
        /\ Checks(r) => c.purpose = q.purpose /\ c.destination = q.email
        /\ q.step = "create" => q.purpose \in Purposes /\ q.email \in Emails
        /\ Holds(r) => ~c.locked /\ (c.consumed <=> q.step = "session")
        /\ q.step = "session" => c.outcomes = 0
        /\ q.step = "issue" => q.purpose = "PASSWORD_RESET"
        /\ q.step = "activate" => q.status \in {"PENDING", "ACTIVE"}
        /\ q.step = "link" => /\ q.status # "none"
                              /\ q.status # "NONE" => user.status # "NONE"

ExclusiveInv ==
    \A q, r \in Requests : Holds(q) /\ Holds(r) /\ request[q].id = request[r].id => q = r

TokensInv == \A i \in Ids : token[i] = "live" => i \in 1..Len(challenge)

UserInv == user.status \notin {"NONE", "DELETED"} => user.email \in Emails

\* A code can still be compared with the challenge.
Guessable(c) ==
    /\ c.age # "expired"
    /\ ~c.consumed /\ ~c.verified /\ ~c.locked /\ ~c.deleted

Recorders(i) == {r \in Requests : request[r].step = "record" /\ request[r].id = i}

GuessInv ==
    \A i \in 1..Len(challenge) :
        LET c == challenge[i]
        IN  /\ Guessable(c) => c.guesses <= c.attempts + Cardinality(Recorders(i)) + faults
            /\ c.guesses <= MaxAttempts - 1 + Cardinality(Requests) + faults

CodesInv ==
    /\ TypeOK
    /\ RowsInv
    /\ \A r \in Requests : RequestOK(r)
    /\ ExclusiveInv
    /\ TokensInv
    /\ UserInv
    /\ GuessInv
    /\ EmailProven

-----------------------------------------------------------------------------
(* Sequences of challenges.                                                 *)

\* A set of numbers that is bounded and not empty has a greatest one, which is
\* the newest challenge.
LEMMA GreatestExists ==
    ASSUME NEW n \in Nat, NEW S \in SUBSET (1..n), S # {}
    PROVE  \E i \in S : \A j \in S : j <= i
<1> DEFINE B == {k \in Nat : \A j \in S : j <= k}
<1>1. B \subseteq Nat /\ n \in B
  OBVIOUS
<1>2. PICK m \in B : \A k \in B : ~(<<k, m>> \in OpToRel(<, Nat))
  <2> HIDE DEF B
  <2> QED
    BY <1>1, NatLessThanWellFounded, WFMin
<1>3. \A k \in B : ~(k < m)
  BY <1>1, <1>2 DEF OpToRel
<1>4. CASE m \in S
  BY <1>4
<1>5. CASE m \notin S
  <2>1. PICK j \in S : TRUE
    OBVIOUS
  <2>2. m >= 1
    BY <2>1
  <2>3. m - 1 \in B
    BY <1>5, <2>2
  <2> QED
    BY <1>3, <2>3
<1> QED
  BY <1>4, <1>5

\* The newest of some challenges is one of them.
LEMMA NewestIsOne ==
    ASSUME NEW n \in Nat, NEW S \in SUBSET (1..n), S # {}
    PROVE  Newest(S) \in S
BY GreatestExists DEF Newest

\* What a step may do to a challenge: it stays a challenge of its purpose and
\* address, cannot be guessed again once it could not, and keeps its outcome.
RowStep(c, d) ==
    /\ d.purpose = c.purpose /\ d.destination = c.destination
    /\ Guessable(d) => Guessable(c)
    /\ c.outcomes = 1 => d.outcomes = 1

\* What a step may do to the table.
RowsStep ==
    /\ RowsInv'
    /\ Len(challenge) <= Len(challenge') /\ Len(challenge') <= MaxChallenges
    /\ \A i \in 1..Len(challenge) : RowStep(challenge[i], challenge'[i])
    /\ \A i \in 1..Len(challenge') : i > Len(challenge) => challenge'[i].guesses = 0

\* The table as the provers see it.
LEMMA TableFacts ==
    ASSUME CodesInv
    PROVE  /\ challenge \in Seq(Challenge)
           /\ Len(challenge) \in Nat /\ Len(challenge) <= MaxChallenges
           /\ DOMAIN challenge = 1..Len(challenge)
           /\ \A i \in 1..Len(challenge) :
                 challenge[i] \in Challenge /\ RowOK(challenge[i]) /\ i \in Ids
<1>1. challenge \in Seq(Challenge) /\ Len(challenge) <= MaxChallenges
  BY DEF CodesInv, RowsInv, TypeOK
<1>2. Len(challenge) \in Nat /\ DOMAIN challenge = 1..Len(challenge)
  BY <1>1, LenProperties
<1>3. \A i \in 1..Len(challenge) : challenge[i] \in Challenge
  BY <1>1, ElementOfSeq
<1> QED
  BY <1>1, <1>2, <1>3, AuthAssumption DEF CodesInv, RowsInv, Ids

\* A table that stays has taken a step.
LEMMA RowsStay ==
    ASSUME CodesInv, UNCHANGED challenge
    PROVE  RowsStep
BY TableFacts DEF CodesInv, RowsInv, RowsStep, RowStep, RowOK, Guessable

\* The update of one challenge.
LEMMA OneRow ==
    ASSUME CodesInv, NEW i \in 1..Len(challenge), NEW c \in Challenge, RowOK(c),
           RowStep(challenge[i], c), challenge' = [challenge EXCEPT ![i] = c]
    PROVE  /\ RowsStep
           /\ Len(challenge') = Len(challenge)
           /\ challenge'[i] = c
           /\ \A j \in 1..Len(challenge) : j # i => challenge'[j] = challenge[j]
<1>1. /\ challenge' \in Seq(Challenge) /\ Len(challenge') = Len(challenge)
      /\ \A j \in 1..Len(challenge) : challenge'[j] = IF j = i THEN c ELSE challenge[j]
  BY TableFacts, ExceptSeq
<1>2. RowsInv'
  BY <1>1, TableFacts DEF RowsInv
<1>3. \A j \in 1..Len(challenge) : RowStep(challenge[j], challenge'[j])
  BY <1>1, TableFacts DEF RowStep
<1> QED
  BY <1>1, <1>2, <1>3, TableFacts DEF RowsStep

\* A challenge is added.
LEMMA NewRow ==
    ASSUME CodesInv, NEW purpose \in Purposes, NEW destination \in Emails,
           Add(purpose, destination)
    PROVE  /\ RowsStep
           /\ Len(challenge') = Len(challenge) + 1
           /\ \A i \in 1..Len(challenge) : challenge'[i] = challenge[i]
<1> DEFINE c == NewChallenge(purpose, destination)
<1>1. c \in Challenge /\ RowOK(c) /\ c.guesses = 0
  BY AuthAssumption DEF NewChallenge, Challenge, RowOK
<1>2. challenge' = Append(challenge, c) /\ Len(challenge) < MaxChallenges
  BY DEF Add
<1> HIDE DEF c
<1>3. /\ challenge' \in Seq(Challenge) /\ Len(challenge') = Len(challenge) + 1
      /\ \A i \in 1..Len(challenge) : challenge'[i] = challenge[i]
      /\ challenge'[Len(challenge) + 1] = c
  BY <1>1, <1>2, TableFacts
<1>4. RowsInv'
  BY <1>1, <1>3, TableFacts DEF RowsInv
<1>5. \A i \in 1..Len(challenge) : RowStep(challenge[i], challenge'[i])
  BY <1>3 DEF RowStep
<1> QED
  BY <1>1, <1>2, <1>3, <1>4, <1>5, TableFacts, AuthAssumption DEF RowsStep

-----------------------------------------------------------------------------
(* What a step leaves alone.                                                *)

\* The other requests that hold their challenge keep it as it is.
LocksKept(q) ==
    Holds(q) => /\ challenge'[request[q].id].consumed = challenge[request[q].id].consumed
                /\ challenge'[request[q].id].locked = challenge[request[q].id].locked
                /\ challenge'[request[q].id].outcomes = challenge[request[q].id].outcomes

GuessesKept ==
    \A i \in 1..Len(challenge) : /\ challenge'[i].guesses = challenge[i].guesses
                                 /\ challenge'[i].attempts = challenge[i].attempts

UserStays == user.status # "NONE" => user'.status # "NONE"

\* A request that does not move still knows what it knew.
LEMMA OthersOK ==
    ASSUME CodesInv, RowsStep, UserStays, NEW q \in Requests,
           request'[q] = request[q], LocksKept(q)
    PROVE  RequestOK(q)'
<1>1. RequestOK(q) /\ request[q].id \in Nat
  BY AuthAssumption DEF CodesInv, TypeOK, Request, Ids
<1>2. Holds(q) => Checks(q)
  BY DEF Holds, Checks
<1>3. ASSUME request[q].id \in 1..Len(challenge)
      PROVE  /\ request[q].id \in 1..Len(challenge')
             /\ challenge'[request[q].id].purpose = challenge[request[q].id].purpose
             /\ challenge'[request[q].id].destination = challenge[request[q].id].destination
  <2>1. Len(challenge) \in Nat /\ Len(challenge') \in Nat
    BY TableFacts, LenProperties DEF RowsStep, RowsInv
  <2> QED
    BY <1>3, <2>1 DEF RowsStep, RowStep
<1> QED
  BY <1>1, <1>2, <1>3 DEF RequestOK, Holds, Checks, LocksKept, UserStays

\* A challenge that is not consumed and that no transaction holds may be updated.
LEMMA NobodyHolds ==
    ASSUME CodesInv, NEW i, ~RowLocked(i), ~challenge[i].consumed,
           NEW q \in Requests, Holds(q)
    PROVE  request[q].id # i
BY DEF RowLocked, Holds, CodesInv, RequestOK

\* A proven address stays proven.
LEMMA EmailStays ==
    ASSUME CodesInv, RowsStep, user'.email \in {user.email, First, NoEmail}
    PROVE  EmailProven'
<1>1. /\ DOMAIN challenge = 1..Len(challenge) /\ DOMAIN challenge' = 1..Len(challenge')
      /\ Len(challenge) \in Nat /\ Len(challenge') \in Nat
  BY TableFacts, LenProperties DEF RowsStep, RowsInv
<1>2. EmailProven
  BY DEF CodesInv
<1>3. CASE user'.email \in {First, NoEmail}
  BY <1>3 DEF EmailProven
<1>4. CASE user'.email = user.email /\ user.email \notin {First, NoEmail}
  <2>1. PICK i \in DOMAIN challenge : /\ challenge[i].purpose = "EMAIL_CHANGE"
                                      /\ challenge[i].destination = user.email
                                      /\ challenge[i].outcomes = 1
    BY <1>2, <1>4 DEF EmailProven
  <2>2. RowStep(challenge[i], challenge'[i]) /\ i \in DOMAIN challenge'
    BY <1>1, <2>1 DEF RowsStep
  <2> QED
    BY <1>4, <2>1, <2>2 DEF EmailProven, RowStep
<1> QED
  BY <1>3, <1>4

\* The requests that record a wrong code are finitely many.
LEMMA RecordersFinite ==
    ASSUME NEW i
    PROVE  /\ IsFiniteSet(Recorders(i)) /\ Cardinality(Recorders(i)) \in Nat
           /\ Cardinality(Recorders(i)) <= Cardinality(Requests)
           /\ Cardinality(Requests) \in Nat
<1>1. Recorders(i) \subseteq Requests /\ IsFiniteSet(Requests)
  BY AuthAssumption DEF Recorders
<1>2. IsFiniteSet(Recorders(i)) /\ Cardinality(Recorders(i)) <= Cardinality(Requests)
  BY <1>1, FS_Subset
<1> QED
  BY <1>1, <1>2, FS_CardinalityType

\* The same in the next state.
LEMMA RecordersFiniteNext ==
    ASSUME NEW i
    PROVE  /\ IsFiniteSet(Recorders(i)') /\ Cardinality(Recorders(i)') \in Nat
           /\ Cardinality(Recorders(i)') <= Cardinality(Requests)
<1>1. Recorders(i)' \subseteq Requests /\ IsFiniteSet(Requests)
  BY AuthAssumption DEF Recorders
<1>2. IsFiniteSet(Recorders(i)') /\ Cardinality(Recorders(i)') <= Cardinality(Requests)
  BY <1>1, FS_Subset
<1> QED
  BY <1>1, <1>2, FS_CardinalityType

\* The numbers a challenge counts with.
LEMMA RowNumbers ==
    ASSUME CodesInv, NEW i \in 1..Len(challenge)
    PROVE  /\ challenge[i].guesses \in Nat /\ challenge[i].attempts \in 0..MaxAttempts
           /\ challenge[i].outcomes \in Nat /\ faults \in Nat /\ MaxAttempts \in Nat
           /\ Guessable(challenge[i]) => challenge[i].attempts <= MaxAttempts - 1
<1>1. challenge[i] \in Challenge /\ RowOK(challenge[i])
  BY TableFacts
<1>2. faults \in Nat /\ MaxAttempts \in Nat
  BY AuthAssumption DEF CodesInv, TypeOK
<1>3. challenge[i].guesses \in Nat /\ challenge[i].attempts \in 0..MaxAttempts
      /\ challenge[i].outcomes \in Nat
  BY <1>1 DEF Challenge
<1>4. Guessable(challenge[i]) => challenge[i].attempts # MaxAttempts
  BY <1>1 DEF RowOK, Guessable
<1> QED
  BY <1>2, <1>3, <1>4

\* The bound on guesses where none is compared and none is counted.
LEMMA GuessStays ==
    ASSUME CodesInv, RowsStep, GuessesKept, faults' \in Nat, faults <= faults',
           \A i \in 1..Len(challenge) : Recorders(i)' = Recorders(i)
    PROVE  GuessInv'
<1>1. Len(challenge) \in Nat /\ Len(challenge') \in Nat
  BY TableFacts, LenProperties DEF RowsStep, RowsInv
<1> SUFFICES ASSUME NEW i \in 1..Len(challenge')
             PROVE  /\ Guessable(challenge'[i]) =>
                          challenge'[i].guesses <= challenge'[i].attempts
                                                   + Cardinality(Recorders(i)') + faults'
                    /\ challenge'[i].guesses <= MaxAttempts - 1 + Cardinality(Requests) + faults'
  BY DEF GuessInv, Guessable
<1>2. /\ Cardinality(Requests) \in Nat /\ Cardinality(Recorders(i)') \in Nat
      /\ MaxAttempts \in Nat /\ MaxAttempts >= 1
  BY RecordersFinite, RecordersFiniteNext, AuthAssumption
<1>3. CASE i > Len(challenge)
  <2>1. challenge'[i].guesses = 0
    BY <1>3 DEF RowsStep
  <2>2. challenge'[i] \in Challenge
    BY ElementOfSeq DEF RowsStep, RowsInv
  <2>3. challenge'[i].attempts \in 0..MaxAttempts
    BY <2>2 DEF Challenge
  <2> HIDE DEF GuessInv
  <2> QED
    BY <1>2, <2>1, <2>3
<1>4. CASE i \in 1..Len(challenge)
  <2>1. Guessable(challenge'[i]) => Guessable(challenge[i])
    BY <1>4 DEF RowsStep, RowStep
  <2>2. /\ Guessable(challenge[i]) =>
             challenge[i].guesses <= challenge[i].attempts + Cardinality(Recorders(i)) + faults
        /\ challenge[i].guesses <= MaxAttempts - 1 + Cardinality(Requests) + faults
    BY <1>4 DEF CodesInv, GuessInv
  <2>3. challenge[i].guesses \in Nat /\ challenge[i].attempts \in Nat /\ faults \in Nat
    BY <1>4, RowNumbers
  <2>4. /\ Recorders(i)' = Recorders(i)
        /\ challenge'[i].guesses = challenge[i].guesses
        /\ challenge'[i].attempts = challenge[i].attempts
    BY <1>4 DEF GuessesKept
  <2>5. Cardinality(Recorders(i)') = Cardinality(Recorders(i))
    BY <2>4
  <2>6. challenge'[i].guesses <= MaxAttempts - 1 + Cardinality(Requests) + faults'
    BY <1>2, <2>2, <2>3, <2>4
  <2>7. ASSUME Guessable(challenge'[i])
        PROVE  challenge'[i].guesses <= challenge'[i].attempts
                                        + Cardinality(Recorders(i)') + faults'
    <3>1. challenge[i].guesses <= challenge[i].attempts + Cardinality(Recorders(i)') + faults
      BY <2>1, <2>2, <2>5, <2>7
    <3> QED
      BY <1>2, <2>3, <2>4, <3>1
  <2> QED
    BY <2>6, <2>7
<1> QED
  BY <1>1, <1>3, <1>4

\* The requests that record stay the same when r neither begins nor ends to.
LEMMA RecordersStay ==
    ASSUME CodesInv, NEW r \in Requests,
           \A q \in Requests \ {r} : request'[q] = request[q],
           request[r].step # "record", request'[r].step # "record", NEW i
    PROVE  Recorders(i)' = Recorders(i)
BY DEF Recorders

\* One request acts: what is left to show of the invariant.
LEMMA ActorStep ==
    ASSUME CodesInv, RowsStep, TypeOK', UserStays, NEW r \in Requests,
           \A q \in Requests \ {r} : request'[q] = request[q] /\ LocksKept(q),
           RequestOK(r)',
           Holds(r)' => \A q \in Requests \ {r} : Holds(q) => request[q].id # request'[r].id,
           UserInv', EmailProven', GuessInv',
           \A i \in Ids : token'[i] = "live" => token[i] = "live" \/ i \in 1..Len(challenge)
    PROVE  CodesInv'
<1>1. \A q \in Requests : RequestOK(q)'
  <2> SUFFICES ASSUME NEW q \in Requests PROVE RequestOK(q)'
    OBVIOUS
  <2>1. CASE q = r
    BY <2>1
  <2>2. CASE q # r
    BY <2>2, OthersOK
  <2> QED
    BY <2>1, <2>2
<1>2. ExclusiveInv'
  <2>1. \A p, q \in Requests \ {r} :
           Holds(p)' /\ Holds(q)' /\ request'[p].id = request'[q].id => p = q
    BY DEF CodesInv, ExclusiveInv, Holds
  <2>2. \A q \in Requests \ {r} :
           ~(Holds(r)' /\ Holds(q)' /\ request'[q].id = request'[r].id)
    BY DEF Holds
  <2> QED
    BY <2>1, <2>2 DEF ExclusiveInv
<1>3. TokensInv'
  <2>1. Len(challenge) \in Nat /\ Len(challenge') \in Nat /\ Len(challenge) <= Len(challenge')
    BY TableFacts, LenProperties DEF RowsStep, RowsInv
  <2> QED
    BY <2>1 DEF CodesInv, TokensInv, Ids
<1>4. RowsInv'
  BY DEF RowsStep
<1> QED
  BY <1>1, <1>2, <1>3, <1>4 DEF CodesInv

\* No request acts.
LEMMA NobodyActs ==
    ASSUME CodesInv, RowsStep, TypeOK', UserStays, UNCHANGED request,
           \A q \in Requests : LocksKept(q), GuessesKept, faults' = faults,
           UserInv', user'.email \in {user.email, First, NoEmail},
           \A i \in Ids : token'[i] = "live" => token[i] = "live"
    PROVE  CodesInv'
<1>1. \A q \in Requests : RequestOK(q)'
  BY OthersOK
<1>2. ExclusiveInv'
  BY DEF CodesInv, ExclusiveInv, Holds
<1>3. TokensInv'
  <2>1. Len(challenge) \in Nat /\ Len(challenge') \in Nat /\ Len(challenge) <= Len(challenge')
    BY TableFacts, LenProperties DEF RowsStep, RowsInv
  <2> QED
    BY <2>1 DEF CodesInv, TokensInv, Ids
<1>4. RowsInv'
  BY DEF RowsStep
<1>5. GuessInv'
  <2>1. \A i : Recorders(i)' = Recorders(i)
    BY DEF Recorders
  <2>2. faults \in Nat
    BY AuthAssumption DEF CodesInv, TypeOK
  <2> QED
    BY <2>1, <2>2, GuessStays
<1>6. EmailProven'
  BY EmailStays
<1> QED
  BY <1>1, <1>2, <1>3, <1>4, <1>5, <1>6 DEF CodesInv

\* A request that ends knows nothing.
LEMMA EndFacts ==
    ASSUME CodesInv, NEW r \in Requests, End(r)
    PROVE  /\ request' \in [Requests -> Request]
           /\ \A q \in Requests \ {r} : request'[q] = request[q]
           /\ request'[r].step = "idle"
           /\ RequestOK(r)' /\ ~Holds(r)'
<1>1. Idle \in Request
  BY DEF Idle, Request
<1>2. request \in [Requests -> Request] /\ request' = [request EXCEPT ![r] = Idle]
  BY DEF CodesInv, TypeOK, End
<1>3. request'[r] = Idle /\ Idle.step = "idle"
  BY <1>2 DEF Idle
<1> QED
  BY <1>1, <1>2, <1>3 DEF RequestOK, Holds, Checks

\* The types of the next state, from those of what changes.
LEMMA TypeStep ==
    ASSUME CodesInv, RowsStep, user' \in User,
           token' \in [Ids -> {"none", "live", "used", "deleted", "expired"}],
           request' \in [Requests -> Request],
           calls' \in 0..MaxCalls, changes' \in 0..MaxAdmin, faults' \in 0..MaxFaults
    PROVE  TypeOK'
<1>1. challenge' \in Seq(Challenge) /\ Len(challenge') <= MaxChallenges
  BY DEF RowsStep, RowsInv
<1>2. \A i \in DOMAIN challenge' : challenge'[i] \in Challenge
  BY <1>1, ElementOfSeq, LenProperties
<1> QED
  BY <1>1, <1>2 DEF TypeOK

\* A request ends, and no wrong code is involved.
LEMMA EndStep ==
    ASSUME CodesInv, RowsStep, GuessesKept, UserStays, NEW r \in Requests, End(r),
           request[r].step # "record",
           \A q \in Requests \ {r} : LocksKept(q),
           user' \in User, UserInv', EmailProven',
           token' \in [Ids -> {"none", "live", "used", "deleted", "expired"}],
           \A i \in Ids : token'[i] = "live" => token[i] = "live" \/ i \in 1..Len(challenge),
           UNCHANGED bounds
    PROVE  CodesInv'
<1>1. UNCHANGED <<calls, changes, faults>>
  BY DEF bounds
<1>2. TypeOK'
  <2>1. calls \in 0..MaxCalls /\ changes \in 0..MaxAdmin /\ faults \in 0..MaxFaults
    BY DEF CodesInv, TypeOK
  <2> QED
    BY <1>1, <2>1, TypeStep, EndFacts
<1>3. GuessInv'
  <2>1. \A i : Recorders(i)' = Recorders(i)
    BY EndFacts, RecordersStay
  <2>2. faults \in Nat
    BY AuthAssumption DEF CodesInv, TypeOK
  <2> QED
    BY <1>1, <2>1, <2>2, GuessStays
<1> QED
  BY <1>2, <1>3, EndFacts, ActorStep

\* A challenge that is not updated keeps what the locks and guesses see.
LEMMA NothingMoves ==
    ASSUME CodesInv, UNCHANGED challenge
    PROVE  RowsStep /\ GuessesKept /\ \A q \in Requests : LocksKept(q)
BY RowsStay DEF GuessesKept, LocksKept

\* A request arrives that compares no code.
LEMMA CallStep ==
    ASSUME CodesInv, NEW r \in Requests, NEW values \in Request, Call(r, values),
           values.step \notin {"record", "activate", "issue", "session"}, RequestOK(r)'
    PROVE  CodesInv'
<1>1. /\ request' = [request EXCEPT ![r] = values] /\ request[r].step = "idle"
      /\ calls < MaxCalls /\ calls' = calls + 1
      /\ UNCHANGED <<user, challenge, token, changes, faults>>
  BY DEF Call, At
<1>2. request \in [Requests -> Request]
  BY DEF CodesInv, TypeOK
<1>3. /\ request' \in [Requests -> Request] /\ request'[r] = values
      /\ \A q \in Requests \ {r} : request'[q] = request[q]
  BY <1>1, <1>2
<1>4. RowsStep /\ GuessesKept /\ \A q \in Requests : LocksKept(q)
  BY <1>1, NothingMoves
<1>5. TypeOK'
  <2>1. calls' \in 0..MaxCalls
    BY <1>1, AuthAssumption DEF CodesInv, TypeOK
  <2> QED
    BY <1>1, <1>3, <1>4, <2>1, TypeStep DEF CodesInv, TypeOK
<1>6. GuessInv'
  <2>1. \A i : Recorders(i)' = Recorders(i)
    BY <1>1, <1>3, RecordersStay
  <2>2. faults \in Nat
    BY AuthAssumption DEF CodesInv, TypeOK
  <2> QED
    BY <1>1, <1>4, <2>1, <2>2, GuessStays
<1>7. EmailProven'
  BY <1>1, <1>4, EmailStays
<1>8. UserInv' /\ UserStays
  BY <1>1 DEF CodesInv, UserInv, UserStays
<1>9. ~Holds(r)'
  BY <1>3 DEF Holds
<1> QED
  BY <1>1, <1>3, <1>4, <1>5, <1>6, <1>7, <1>8, <1>9, ActorStep

\* What the request r knows after its call.
LEMMA CallKnows ==
    ASSUME CodesInv, NEW r \in Requests, NEW values \in Request, Call(r, values),
           values.step \in {"signup", "create", "confirm", "link"},
           values.step = "create" => values.purpose \in Purposes /\ values.email \in Emails,
           values.step = "confirm" => values.id \in 1..Len(challenge),
           values.step = "link" => /\ values.status # "none"
                                   /\ values.status # "NONE" => user.status # "NONE"
    PROVE  CodesInv'
<1>1. /\ request'[r] = values /\ UNCHANGED <<user, challenge>>
  BY DEF Call, CodesInv, TypeOK
<1>2. RequestOK(r)'
  BY <1>1 DEF RequestOK, Checks, Holds
<1> QED
  BY <1>2, CallStep

\* The user of an account in use has an address.
LEMMA UserFacts ==
    ASSUME CodesInv
    PROVE  /\ user \in User
           /\ user.status \in {"PENDING", "ACTIVE", "SUSPENDED"} => user.email \in Emails
           /\ First \in Emails
<1>1. user \in User /\ UserInv
  BY DEF CodesInv, TypeOK
<1>2. First \in Emails
  BY AuthAssumption DEF First
<1> QED
  BY <1>1, <1>2 DEF UserInv, User

\* Sends preserve the invariant.
LEMMA SendKeeps ==
    ASSUME CodesInv, NEW r \in Requests, NEW purpose \in Purposes, NEW e \in Emails,
           Call(r, [Idle EXCEPT !.step = "create", !.purpose = purpose, !.email = e])
    PROVE  CodesInv'
<1> DEFINE v == [Idle EXCEPT !.step = "create", !.purpose = purpose, !.email = e]
<1>1. v \in Request /\ v.step = "create" /\ v.purpose = purpose /\ v.email = e
  BY DEF Idle, Request
<1> HIDE DEF v
<1>2. Call(r, v)
  BY DEF v
<1> QED
  BY <1>1, <1>2, CallKnows

\* The requests that only look, before anything is written.
LEMMA CallsKeep ==
    ASSUME CodesInv, NEW r \in Requests
    PROVE  /\ SignupWithPassword(r) => CodesInv'
           /\ \A p \in Purposes : SendOtp(r, p) => CodesInv'
           /\ RequestPasswordReset(r) => CodesInv'
           /\ SendPhoneVerification(r) => CodesInv'
           /\ \A e \in Emails : RequestEmailChange(r, e) => CodesInv'
           /\ \A i \in Ids : ConfirmPasswordReset(r, i) => CodesInv'
           /\ LoginWithSocial(r) => CodesInv'
<1>1. ASSUME SignupWithPassword(r) PROVE CodesInv'
  <2> DEFINE v == [Idle EXCEPT !.step = "signup"]
  <2>1. v \in Request /\ v.step = "signup"
    BY DEF Idle, Request
  <2> HIDE DEF v
  <2>2. Call(r, v)
    BY <1>1 DEF SignupWithPassword, v
  <2> QED
    BY <2>1, <2>2, CallKnows
<1>2. ASSUME NEW p \in Purposes, SendOtp(r, p) PROVE CodesInv'
  <2>1. user.status \in {"PENDING", "ACTIVE"}
    BY <1>2 DEF SendOtp, RequiredOtpUserStatus
  <2>2. user.email \in Emails
    BY <2>1, UserFacts
  <2>3. Call(r, [Idle EXCEPT !.step = "create", !.purpose = p, !.email = user.email])
    BY <1>2 DEF SendOtp, Send
  <2> QED
    BY <2>2, <2>3, SendKeeps
<1>3. ASSUME RequestPasswordReset(r) PROVE CodesInv'
  <2>1. user.email \in Emails /\ "PASSWORD_RESET" \in Purposes
    BY <1>3, UserFacts DEF RequestPasswordReset, Purposes
  <2>2. Call(r, [Idle EXCEPT !.step = "create", !.purpose = "PASSWORD_RESET",
                             !.email = user.email])
    BY <1>3 DEF RequestPasswordReset, Send
  <2> QED
    BY <2>1, <2>2, SendKeeps
<1>4. ASSUME SendPhoneVerification(r) PROVE CodesInv'
  <2>1. First \in Emails /\ "VERIFY_PHONE" \in Purposes
    BY UserFacts DEF Purposes
  <2>2. Call(r, [Idle EXCEPT !.step = "create", !.purpose = "VERIFY_PHONE",
                             !.email = First])
    BY <1>4 DEF SendPhoneVerification, Send
  <2> QED
    BY <2>1, <2>2, SendKeeps
<1>5. ASSUME NEW e \in Emails, RequestEmailChange(r, e) PROVE CodesInv'
  <2>1. "EMAIL_CHANGE" \in Purposes
    BY DEF Purposes
  <2>2. Call(r, [Idle EXCEPT !.step = "create", !.purpose = "EMAIL_CHANGE",
                             !.email = e])
    BY <1>5 DEF RequestEmailChange
  <2> QED
    BY <2>1, <2>2, SendKeeps
<1>6. ASSUME NEW i \in Ids, ConfirmPasswordReset(r, i) PROVE CodesInv'
  <2> DEFINE v == [Idle EXCEPT !.step = "confirm", !.id = i]
  <2>1. v \in Request /\ v.step = "confirm" /\ v.id = i
    BY DEF Idle, Request
  <2> HIDE DEF v
  <2>2. Call(r, v) /\ i \in 1..Len(challenge)
    BY <1>6 DEF ConfirmPasswordReset, CodesInv, TokensInv, v
  <2> QED
    BY <2>1, <2>2, CallKnows
<1>7. ASSUME LoginWithSocial(r) PROVE CodesInv'
  <2> DEFINE v == [Idle EXCEPT !.step = "link", !.status = user.status]
  <2>1. user.status \in {"NONE", "PENDING", "ACTIVE"}
    BY <1>7 DEF LoginWithSocial
  <2>2. v \in Request /\ v.step = "link" /\ v.status = user.status
    BY <2>1 DEF Idle, Request
  <2> HIDE DEF v
  <2>3. Call(r, v)
    BY <1>7 DEF LoginWithSocial, v
  <2> QED
    BY <2>1, <2>2, <2>3, CallKnows
<1> QED
  BY <1>1, <1>2, <1>3, <1>4, <1>5, <1>6, <1>7

\* What the three steps that insert a challenge share.
LEMMA AddMoves ==
    ASSUME CodesInv, NEW purpose \in Purposes, NEW destination \in Emails,
           Add(purpose, destination)
    PROVE  RowsStep /\ GuessesKept /\ \A q \in Requests : LocksKept(q)
<1>1. RowsStep /\ \A i \in 1..Len(challenge) : challenge'[i] = challenge[i]
  BY NewRow
<1>2. ASSUME NEW q \in Requests PROVE LocksKept(q)
  <2>1. Holds(q) => request[q].id \in 1..Len(challenge)
    BY DEF CodesInv, RequestOK, Checks, Holds
  <2> QED
    BY <1>1, <2>1 DEF LocksKept
<1> QED
  BY <1>1, <1>2 DEF GuessesKept

\* The steps of a request that end it and insert a challenge or nothing.
LEMMA CreatesKeep ==
    ASSUME CodesInv, NEW r \in Requests
    PROVE  /\ CreateUser(r) => CodesInv'
           /\ CreateChallenge(r) => CodesInv'
           /\ CreateEmailChange(r) => CodesInv'
<1>1. /\ user \in User /\ UserInv
      /\ token \in [Ids -> {"none", "live", "used", "deleted", "expired"}]
      /\ First \in Emails
  BY UserFacts DEF CodesInv, TypeOK
<1>2. ASSUME CreateUser(r) PROVE CodesInv'
  <2>1. /\ request[r].step # "record" /\ End(r) /\ token' = token /\ UNCHANGED bounds
    BY <1>2 DEF CreateUser, At
  <2>2. CASE user.status = "NONE"
    <3>1. /\ user' = [NoUser EXCEPT !.status = "PENDING", !.email = First]
          /\ Add("VERIFY_EMAIL", First)
      BY <1>2, <2>2 DEF CreateUser
    <3>2. user' \in User /\ user'.email = First /\ user'.status = "PENDING"
      BY <1>1, <3>1 DEF NoUser, User
    <3>3. UserInv' /\ UserStays
      BY <1>1, <3>2 DEF UserInv, UserStays
    <3>4. "VERIFY_EMAIL" \in Purposes
      BY DEF Purposes
    <3>5. RowsStep /\ GuessesKept /\ \A q \in Requests : LocksKept(q)
      BY <1>1, <3>1, <3>4, AddMoves
    <3>6. EmailProven'
      BY <3>2 DEF EmailProven
    <3> QED
      BY <1>1, <2>1, <3>2, <3>3, <3>5, <3>6, EndStep
  <2>3. CASE user.status # "NONE"
    <3>1. UNCHANGED <<user, challenge>>
      BY <1>2, <2>3 DEF CreateUser
    <3>2. UserInv' /\ UserStays
      BY <1>1, <3>1 DEF UserInv, UserStays
    <3>3. RowsStep /\ GuessesKept /\ \A q \in Requests : LocksKept(q)
      BY <3>1, NothingMoves
    <3>4. EmailProven'
      BY <3>1, <3>3, EmailStays
    <3> QED
      BY <1>1, <2>1, <3>1, <3>2, <3>3, <3>4, EndStep
  <2> QED
    BY <2>2, <2>3
<1>3. request[r].step = "create" => request[r].purpose \in Purposes /\ request[r].email \in Emails
  BY DEF CodesInv, RequestOK
<1>4. ASSUME CreateChallenge(r) PROVE CodesInv'
  <2>1. /\ request[r].step = "create" /\ End(r) /\ UNCHANGED <<user, token>> /\ UNCHANGED bounds
        /\ Add(request[r].purpose, request[r].email)
    BY <1>4 DEF CreateChallenge, At
  <2>2. RowsStep /\ GuessesKept /\ \A q \in Requests : LocksKept(q)
    BY <1>3, <2>1, AddMoves
  <2>3. UserInv' /\ UserStays
    BY <1>1, <2>1 DEF UserInv, UserStays
  <2>4. EmailProven'
    BY <2>1, <2>2, EmailStays
  <2> QED
    BY <1>1, <2>1, <2>2, <2>3, <2>4, EndStep
<1>5. ASSUME CreateEmailChange(r) PROVE CodesInv'
  <2>1. /\ request[r].step = "create" /\ End(r) /\ token' = token /\ UNCHANGED bounds
    BY <1>5 DEF CreateEmailChange, At
  <2>2. CASE user.status # "DELETED"
    <3>1. /\ user' = [user EXCEPT !.pendingEmail = request[r].email]
          /\ Add("EMAIL_CHANGE", request[r].email) /\ "EMAIL_CHANGE" \in Purposes
      BY <1>5, <2>2 DEF CreateEmailChange, Purposes
    <3>2. user' \in User /\ user'.email = user.email /\ user'.status = user.status
      BY <1>1, <1>3, <2>1, <3>1 DEF User
    <3>3. UserInv' /\ UserStays
      BY <1>1, <3>2 DEF UserInv, UserStays
    <3>4. RowsStep /\ GuessesKept /\ \A q \in Requests : LocksKept(q)
      BY <1>3, <2>1, <3>1, AddMoves
    <3>5. EmailProven'
      BY <3>2, <3>4, EmailStays
    <3> QED
      BY <1>1, <2>1, <3>2, <3>3, <3>4, <3>5, EndStep
  <2>3. CASE user.status = "DELETED"
    <3>1. UNCHANGED <<user, challenge>>
      BY <1>5, <2>3 DEF CreateEmailChange
    <3>2. UserInv' /\ UserStays
      BY <1>1, <3>1 DEF UserInv, UserStays
    <3>3. RowsStep /\ GuessesKept /\ \A q \in Requests : LocksKept(q)
      BY <3>1, NothingMoves
    <3>4. EmailProven'
      BY <3>1, <3>3, EmailStays
    <3> QED
      BY <1>1, <2>1, <3>1, <3>2, <3>3, <3>4, EndStep
  <2> QED
    BY <2>2, <2>3
<1> QED
  BY <1>2, <1>4, <1>5

\* The end of a social login, and of a transaction that found nothing to consume.
LEMMA PlainEndsKeep ==
    ASSUME CodesInv, NEW r \in Requests
    PROVE  /\ LinkSocialAccount(r) => CodesInv'
           /\ ConsumeFails(r) => CodesInv'
<1>1. /\ user \in User /\ UserInv
      /\ token \in [Ids -> {"none", "live", "used", "deleted", "expired"}]
      /\ First \in Emails
  BY UserFacts DEF CodesInv, TypeOK
<1>2. ASSUME LinkSocialAccount(r) PROVE CodesInv'
  <2>1. /\ request[r].step = "link" /\ End(r) /\ UNCHANGED <<challenge, token>>
        /\ UNCHANGED bounds
    BY <1>2 DEF LinkSocialAccount, At
  <2>2. request[r].status # "NONE" => user.status # "NONE"
    BY <2>1 DEF CodesInv, RequestOK
  <2>3. \/ /\ user' = [NoUser EXCEPT !.status = "ACTIVE", !.email = First, !.linked = TRUE]
        \/ /\ user' = [user EXCEPT !.status = "ACTIVE", !.linked = TRUE]
           /\ user.status \in {"PENDING", "ACTIVE", "SUSPENDED"}
        \/ user' = user
    BY <1>1, <1>2, <2>2 DEF LinkSocialAccount, User
  <2>4. /\ user' \in User /\ user'.email \in {user.email, First}
        /\ user'.status # user.status => user'.status = "ACTIVE" /\ user'.email \in Emails
        /\ user'.status = user.status => user'.email = user.email \/ user'.email \in Emails
    <3>1. CASE user' = [NoUser EXCEPT !.status = "ACTIVE", !.email = First, !.linked = TRUE]
      <4>1. user' \in User /\ user'.status = "ACTIVE" /\ user'.email = First
        BY <1>1, <3>1 DEF NoUser, User
      <4> QED
        BY <1>1, <4>1
    <3>2. CASE /\ user' = [user EXCEPT !.status = "ACTIVE", !.linked = TRUE]
               /\ user.status \in {"PENDING", "ACTIVE", "SUSPENDED"}
      <4>1. user' \in User /\ user'.status = "ACTIVE" /\ user'.email = user.email
        BY <1>1, <3>2 DEF User
      <4> QED
        BY <3>2, <4>1, UserFacts
    <3>3. CASE user' = user
      BY <1>1, <3>3
    <3> QED
      BY <2>3, <3>1, <3>2, <3>3
  <2>5. UserInv' /\ UserStays
    BY <1>1, <2>4 DEF UserInv, UserStays
  <2>6. RowsStep /\ GuessesKept /\ \A q \in Requests : LocksKept(q)
    BY <2>1, NothingMoves
  <2>7. EmailProven'
    BY <2>4, <2>6, EmailStays
  <2> QED
    BY <1>1, <2>1, <2>4, <2>5, <2>6, <2>7, EndStep
<1>3. ASSUME ConsumeFails(r) PROVE CodesInv'
  <2>1. /\ request[r].step = "consume" /\ End(r) /\ UNCHANGED <<user, challenge, token>>
        /\ UNCHANGED bounds
    BY <1>3 DEF ConsumeFails, At
  <2>2. UserInv' /\ UserStays
    BY <1>1, <2>1 DEF UserInv, UserStays
  <2>3. RowsStep /\ GuessesKept /\ \A q \in Requests : LocksKept(q)
    BY <2>1, NothingMoves
  <2>4. EmailProven'
    BY <2>1, <2>3, EmailStays
  <2> QED
    BY <1>1, <2>1, <2>2, <2>3, <2>4, EndStep
<1> QED
  BY <1>2, <1>3

-----------------------------------------------------------------------------
(* A code is consumed.                                                      *)

\* A challenge that is neither consumed nor locked can be consumed.
LEMMA ConsumedOK ==
    ASSUME NEW c \in Challenge, RowOK(c), ~c.consumed, ~c.locked, NEW good \in BOOLEAN
    PROVE  /\ Consumed(c, good) \in Challenge /\ RowOK(Consumed(c, good))
           /\ RowStep(c, Consumed(c, good))
           /\ Consumed(c, good).guesses = c.guesses /\ Consumed(c, good).attempts = c.attempts
           /\ good => Consumed(c, good).outcomes = 1
           /\ ~good => Consumed(c, good).outcomes = c.outcomes
<1> DEFINE n == IF good THEN c.outcomes + 1 ELSE c.outcomes
<1>1. c.outcomes = 0 /\ c.attempts # MaxAttempts
  BY DEF RowOK, Challenge
<1>2. n \in Nat /\ n <= 1 /\ (good => n = 1) /\ (~good => n = c.outcomes)
  BY <1>1
<1>3. Consumed(c, good) = [c EXCEPT !.consumed = TRUE, !.outcomes = n]
  BY DEF Consumed
<1> HIDE DEF n
<1> DEFINE d == [c EXCEPT !.consumed = TRUE, !.outcomes = n]
<1>4. d \in Challenge
  BY <1>2 DEF Challenge
<1>5. /\ d.purpose = c.purpose /\ d.destination = c.destination /\ d.attempts = c.attempts
      /\ d.verified = c.verified /\ d.guesses = c.guesses /\ d.outcomes = n /\ d.consumed = TRUE
  BY DEF Challenge
<1> HIDE DEF d
<1>6. RowOK(d) /\ RowStep(c, d)
  BY <1>1, <1>2, <1>5 DEF RowOK, RowStep, Guessable
<1>7. Consumed(c, good) = d
  BY <1>3 DEF d
<1> QED
  BY <1>2, <1>4, <1>5, <1>6, <1>7

\* The request r updates a challenge that no other transaction holds.
LEMMA RowMoves ==
    ASSUME CodesInv, NEW r, NEW i \in 1..Len(challenge), NEW d \in Challenge, RowOK(d),
           RowStep(challenge[i], d), challenge' = [challenge EXCEPT ![i] = d],
           d.guesses = challenge[i].guesses, d.attempts = challenge[i].attempts,
           \A q \in Requests \ {r} : Holds(q) => request[q].id # i
    PROVE  RowsStep /\ GuessesKept /\ \A q \in Requests \ {r} : LocksKept(q)
<1>1. /\ RowsStep /\ challenge'[i] = d
      /\ \A j \in 1..Len(challenge) : j # i => challenge'[j] = challenge[j]
  BY OneRow
<1>2. ASSUME NEW q \in Requests \ {r} PROVE LocksKept(q)
  <2>1. Holds(q) => request[q].id \in 1..Len(challenge)
    BY DEF CodesInv, RequestOK, Checks, Holds
  <2> QED
    BY <1>1, <2>1 DEF LocksKept
<1>3. GuessesKept
  BY <1>1 DEF GuessesKept
<1> QED
  BY <1>1, <1>2, <1>3

\* The request r consumes its challenge and ends.
LEMMA ConsumeStep ==
    ASSUME CodesInv, NEW r \in Requests, NEW good \in BOOLEAN, End(r), UNCHANGED bounds,
           request[r].id \in 1..Len(challenge), request[r].step # "record",
           ~challenge[request[r].id].consumed, ~challenge[request[r].id].locked,
           \A q \in Requests \ {r} : Holds(q) => request[q].id # request[r].id,
           challenge' = [challenge EXCEPT ![request[r].id] = Consumed(@, good)],
           UserStays, user' \in User, UserInv', RowsStep => EmailProven',
           token' \in [Ids -> {"none", "live", "used", "deleted", "expired"}],
           \A i \in Ids : token'[i] = "live" => token[i] = "live"
    PROVE  CodesInv'
<1> DEFINE i == request[r].id
           d == Consumed(challenge[i], good)
<1>1. challenge[i] \in Challenge /\ RowOK(challenge[i])
  BY TableFacts
<1>2. /\ d \in Challenge /\ RowOK(d) /\ RowStep(challenge[i], d)
      /\ d.guesses = challenge[i].guesses /\ d.attempts = challenge[i].attempts
  BY <1>1, ConsumedOK
<1>3. challenge' = [challenge EXCEPT ![i] = d]
  OBVIOUS
<1> HIDE DEF d
<1>4. RowsStep /\ GuessesKept /\ \A q \in Requests \ {r} : LocksKept(q)
  BY <1>2, <1>3, RowMoves
<1> QED
  BY <1>4, EndStep

\* What a request that may consume its challenge has found.
LEMMA ConsumesFacts ==
    ASSUME CodesInv, NEW r \in Requests, NEW purpose, Consumes(r, purpose)
    PROVE  /\ request[r].step = "consume" /\ request[r].purpose = purpose
           /\ request[r].id \in 1..Len(challenge)
           /\ ~challenge[request[r].id].consumed /\ ~challenge[request[r].id].locked
           /\ challenge[request[r].id].purpose = purpose
           /\ challenge[request[r].id].destination = request[r].email
           /\ \A q \in Requests : Holds(q) => request[q].id # request[r].id
<1>1. /\ request[r].step = "consume" /\ ~RowLocked(request[r].id)
      /\ request[r].purpose = purpose
      /\ ~challenge[request[r].id].consumed /\ ~challenge[request[r].id].locked
  BY DEF Consumes, At, Consumable
<1>2. /\ request[r].id \in 1..Len(challenge)
      /\ challenge[request[r].id].purpose = request[r].purpose
      /\ challenge[request[r].id].destination = request[r].email
  BY <1>1 DEF CodesInv, RequestOK, Checks
<1> QED
  BY <1>1, <1>2, NobodyHolds

\* What a request whose transaction holds its challenge knows.
LEMMA HoldsFacts ==
    ASSUME CodesInv, NEW r \in Requests, Holds(r)
    PROVE  /\ request[r].id \in 1..Len(challenge)
           /\ challenge[request[r].id].consumed <=> request[r].step = "session"
           /\ request[r].step = "session" => challenge[request[r].id].outcomes = 0
           /\ ~challenge[request[r].id].locked
           /\ challenge[request[r].id].purpose = request[r].purpose
           /\ \A q \in Requests \ {r} : Holds(q) => request[q].id # request[r].id
<1>1. RequestOK(r) /\ Checks(r)
  BY DEF CodesInv, Holds, Checks
<1> QED
  BY <1>1 DEF RequestOK, CodesInv, ExclusiveInv

\* A user that stays.
LEMMA SameUser ==
    ASSUME CodesInv, UNCHANGED user
    PROVE  UserStays /\ user' \in User /\ UserInv' /\ (RowsStep => EmailProven')
BY EmailStays DEF UserStays, CodesInv, UserInv, TypeOK

\* A login that has consumed its code and found the account active goes on; the
\* code has had no outcome.
LEMMA LoginGoesOn ==
    ASSUME CodesInv, NEW r \in Requests, ConsumeLogin(r), user.status = "ACTIVE"
    PROVE  CodesInv'
<1> DEFINE i == request[r].id
           d == Consumed(challenge[i], FALSE)
           v == [request[r] EXCEPT !.step = "session"]
<1>1. /\ Consumes(r, "LOGIN") /\ UNCHANGED <<user, token>> /\ UNCHANGED bounds
      /\ challenge' = [challenge EXCEPT ![i] = d]
      /\ request' = [request EXCEPT ![r].step = "session"]
  BY DEF ConsumeLogin, Goto
<1>2. /\ request \in [Requests -> Request] /\ UNCHANGED <<calls, changes, faults>>
      /\ faults \in Nat
  BY <1>1, AuthAssumption DEF CodesInv, TypeOK, bounds
<1>3. /\ i \in 1..Len(challenge) /\ ~challenge[i].consumed /\ ~challenge[i].locked
      /\ challenge[i].purpose = request[r].purpose
      /\ challenge[i].destination = request[r].email
      /\ request[r].step = "consume"
      /\ \A q \in Requests : Holds(q) => request[q].id # i
  BY <1>1, ConsumesFacts
<1>4. challenge[i] \in Challenge /\ RowOK(challenge[i])
  BY <1>3, TableFacts
<1>5. /\ d \in Challenge /\ RowOK(d) /\ RowStep(challenge[i], d)
      /\ d.guesses = challenge[i].guesses /\ d.attempts = challenge[i].attempts
      /\ d.outcomes = challenge[i].outcomes
  BY <1>3, <1>4, ConsumedOK
<1>6. d.consumed /\ d.locked = challenge[i].locked /\ challenge[i].outcomes = 0
  BY <1>3, <1>4 DEF Consumed, Challenge, RowOK
<1> HIDE DEF d
<1>7. RowsStep /\ GuessesKept /\ \A q \in Requests \ {r} : LocksKept(q)
  BY <1>1, <1>3, <1>5, RowMoves
<1>8. challenge'[i] = d /\ Len(challenge') = Len(challenge)
  BY <1>1, <1>3, <1>5, OneRow
<1>9. request' = [request EXCEPT ![r] = v]
  BY <1>1, <1>2
<1>10. /\ v \in Request /\ v.step = "session" /\ v.id = i
       /\ v.purpose = request[r].purpose /\ v.email = request[r].email
  BY <1>2 DEF Request
<1> HIDE DEF v
<1>11. /\ request' \in [Requests -> Request] /\ request'[r] = v
       /\ \A q \in Requests \ {r} : request'[q] = request[q]
  BY <1>2, <1>9, <1>10
<1>12. TypeOK'
  BY <1>1, <1>2, <1>7, <1>11, TypeStep DEF CodesInv, TypeOK
<1>13. RequestOK(r)'
  <2>1. challenge'[request'[r].id] = d /\ request'[r].id \in 1..Len(challenge')
    BY <1>3, <1>8, <1>10, <1>11
  <2>2. /\ d.purpose = request'[r].purpose /\ d.destination = request'[r].email
        /\ d.outcomes = 0 /\ ~d.locked
    BY <1>3, <1>5, <1>6, <1>10, <1>11 DEF RowStep
  <2>3. request'[r].step = "session"
    BY <1>10, <1>11
  <2> QED
    BY <1>6, <2>1, <2>2, <2>3 DEF RequestOK, Checks, Holds
<1>14. GuessInv'
  <2>1. \A j : Recorders(j)' = Recorders(j)
    BY <1>3, <1>10, <1>11, RecordersStay
  <2> QED
    BY <1>2, <1>7, <2>1, GuessStays
<1>15. \A q \in Requests \ {r} : Holds(q) => request[q].id # request'[r].id
  BY <1>3, <1>10, <1>11
<1> QED
  BY <1>1, <1>7, <1>11, <1>12, <1>13, <1>14, <1>15, SameUser, ActorStep

\* A code consumed for a login.
LEMMA LoginKeeps ==
    ASSUME CodesInv, NEW r \in Requests, ConsumeLogin(r)
    PROVE  CodesInv'
<1>1. token \in [Ids -> {"none", "live", "used", "deleted", "expired"}]
  BY DEF CodesInv, TypeOK
<1>2. CASE user.status # "ACTIVE"
  <2>1. /\ Consumes(r, "LOGIN") /\ End(r) /\ UNCHANGED <<user, token>> /\ UNCHANGED bounds
        /\ challenge' = [challenge EXCEPT ![request[r].id] = Consumed(@, FALSE)]
    BY <1>2 DEF ConsumeLogin
  <2> QED
    BY <1>1, <2>1, ConsumesFacts, SameUser, ConsumeStep
<1> QED
  BY <1>2, LoginGoesOn

\* The session of a login is the one outcome of the code it has consumed.
LEMMA SessionKeeps ==
    ASSUME CodesInv, NEW r \in Requests, CreateSession(r)
    PROVE  CodesInv'
<1> DEFINE i == request[r].id
           n == IF user.status # "DELETED" THEN challenge[i].outcomes + 1
                ELSE challenge[i].outcomes
           d == [challenge[i] EXCEPT !.consumed = TRUE, !.outcomes = n]
<1>1. /\ request[r].step = "session" /\ End(r) /\ UNCHANGED <<user, token>>
      /\ UNCHANGED bounds
      /\ challenge' = [challenge EXCEPT ![i] = d]
  BY DEF CreateSession, At, Consumed
<1>2. /\ i \in 1..Len(challenge) /\ challenge[i].consumed /\ challenge[i].outcomes = 0
      /\ \A q \in Requests \ {r} : Holds(q) => request[q].id # i
  BY <1>1, HoldsFacts DEF Holds
<1>3. challenge[i] \in Challenge /\ RowOK(challenge[i])
  BY <1>2, TableFacts
<1>4. n \in Nat /\ n <= 1
  BY <1>2
<1> HIDE DEF n
<1>5. d \in Challenge
  BY <1>3, <1>4 DEF Challenge
<1>6. /\ d.purpose = challenge[i].purpose /\ d.destination = challenge[i].destination
      /\ d.attempts = challenge[i].attempts /\ d.guesses = challenge[i].guesses
      /\ d.verified = challenge[i].verified /\ d.outcomes = n /\ d.consumed = TRUE
  BY <1>3 DEF Challenge
<1> HIDE DEF d
<1>7. RowOK(d) /\ RowStep(challenge[i], d)
  BY <1>2, <1>3, <1>4, <1>6 DEF RowOK, RowStep, Guessable
<1>8. RowsStep /\ GuessesKept /\ \A q \in Requests \ {r} : LocksKept(q)
  BY <1>1, <1>2, <1>5, <1>6, <1>7, RowMoves
<1>9. token \in [Ids -> {"none", "live", "used", "deleted", "expired"}]
  BY DEF CodesInv, TypeOK
<1> QED
  BY <1>1, <1>8, <1>9, SameUser, EndStep

\* The update of the user that a verified code makes.
LEMMA ActivateKeeps ==
    ASSUME CodesInv, NEW r \in Requests, Activate(r)
    PROVE  CodesInv'
<1>1. /\ request[r].step = "activate" /\ End(r) /\ token' = token /\ UNCHANGED bounds
      /\ challenge' = [challenge EXCEPT ![request[r].id] = Consumed(@, SameStatus(r))]
      /\ user' = IF SameStatus(r) THEN [user EXCEPT !.status = "ACTIVE"] ELSE user
  BY DEF Activate, At
<1>2. token \in [Ids -> {"none", "live", "used", "deleted", "expired"}]
  BY DEF CodesInv, TypeOK
<1>3. Holds(r) /\ request[r].status \in {"PENDING", "ACTIVE"}
  BY <1>1 DEF Holds, CodesInv, RequestOK
<1>4. UserStays /\ user' \in User /\ UserInv' /\ (RowsStep => EmailProven')
  <2>1. CASE SameStatus(r)
    <3>1. user.status \in {"PENDING", "ACTIVE"}
      BY <1>3, <2>1 DEF SameStatus
    <3>2. user' \in User /\ user'.email = user.email /\ user'.status = "ACTIVE"
      BY <1>1, <2>1, UserFacts DEF User
    <3> QED
      BY <3>1, <3>2, UserFacts, EmailStays DEF UserStays, UserInv
  <2>2. CASE ~SameStatus(r)
    BY <1>1, <2>2, SameUser
  <2> QED
    BY <2>1, <2>2
<1>5. SameStatus(r) \in BOOLEAN
  BY DEF SameStatus
<1> HIDE DEF SameStatus
<1> QED
  BY <1>1, <1>2, <1>3, <1>4, <1>5, HoldsFacts, ConsumeStep

\* The change of the address, whose code was sent to the new one.
LEMMA EmailChangeKeeps ==
    ASSUME CodesInv, NEW r \in Requests, VerifyEmailChange(r)
    PROVE  CodesInv'
<1> DEFINE i == request[r].id
           good == user.status = "ACTIVE" /\ user.pendingEmail = request[r].email
<1>1. /\ Consumes(r, "EMAIL_CHANGE") /\ End(r) /\ token' = token /\ UNCHANGED bounds
      /\ challenge' = [challenge EXCEPT ![i] = Consumed(@, good)]
      /\ user' = IF good THEN [user EXCEPT !.email = request[r].email, !.pendingEmail = NoEmail]
                 ELSE user
  BY DEF VerifyEmailChange
<1>2. token \in [Ids -> {"none", "live", "used", "deleted", "expired"}]
  BY DEF CodesInv, TypeOK
<1>3. /\ i \in 1..Len(challenge) /\ ~challenge[i].consumed /\ ~challenge[i].locked
      /\ challenge[i].purpose = "EMAIL_CHANGE" /\ challenge[i].destination = request[r].email
      /\ request[r].step = "consume"
      /\ \A q \in Requests : Holds(q) => request[q].id # i
  BY <1>1, ConsumesFacts
<1>4. challenge[i] \in Challenge /\ RowOK(challenge[i]) /\ DOMAIN challenge = 1..Len(challenge)
  BY <1>3, TableFacts
<1>5. request[r].email \in Emails
  BY <1>3, <1>4 DEF Challenge
<1>6. UserStays /\ user' \in User /\ UserInv' /\ (RowsStep => EmailProven')
  <2>1. CASE good
    <3>1. /\ user' \in User /\ user'.email = request[r].email /\ user'.status = user.status
      BY <1>1, <1>5, <2>1, UserFacts DEF User
    <3>2. UserStays /\ UserInv'
      BY <1>5, <3>1 DEF UserStays, UserInv
    <3>3. i \in DOMAIN challenge' /\ challenge'[i] = Consumed(challenge[i], TRUE)
      BY <1>1, <1>3, <1>4, <2>1
    <3>4. Consumed(challenge[i], TRUE).outcomes = 1
          /\ RowStep(challenge[i], Consumed(challenge[i], TRUE))
      BY <1>3, <1>4, ConsumedOK
    <3>5. EmailProven'
      BY <1>3, <3>1, <3>3, <3>4 DEF EmailProven, RowStep
    <3> QED
      BY <3>1, <3>2, <3>5
  <2>2. CASE ~good
    BY <1>1, <2>2, SameUser
  <2> QED
    BY <2>1, <2>2
<1>7. good \in BOOLEAN
  OBVIOUS
<1> HIDE DEF good
<1> QED
  BY <1>1, <1>2, <1>3, <1>6, <1>7, ConsumeStep

\* A transaction takes the lock of its challenge and goes on.
LEMMA HoldStep ==
    ASSUME CodesInv, NEW r \in Requests, NEW v \in Request,
           request' = [request EXCEPT ![r] = v], UNCHANGED <<user, challenge, token>>,
           UNCHANGED bounds, request[r].step = "consume",
           v.step \in {"activate", "issue"}, v.id = request[r].id,
           v.purpose = request[r].purpose, v.email = request[r].email,
           v.step = "issue" => v.purpose = "PASSWORD_RESET",
           v.step = "activate" => v.status \in {"PENDING", "ACTIVE"},
           Consumes(r, request[r].purpose)
    PROVE  CodesInv'
<1>1. request \in [Requests -> Request] /\ UNCHANGED <<calls, changes, faults>>
  BY DEF CodesInv, TypeOK, bounds
<1>2. /\ request' \in [Requests -> Request] /\ request'[r] = v
      /\ \A q \in Requests \ {r} : request'[q] = request[q]
  BY <1>1
<1>3. RowsStep /\ GuessesKept /\ \A q \in Requests : LocksKept(q)
  BY NothingMoves
<1>4. TypeOK'
  BY <1>1, <1>2, <1>3, TypeStep DEF CodesInv, TypeOK
<1>5. RequestOK(r)'
  <2>1. v.step \notin {"create", "link"}
    OBVIOUS
  <2> QED
    BY <1>2, <2>1, ConsumesFacts DEF RequestOK, Checks, Holds
<1>6. GuessInv'
  <2>1. \A j : Recorders(j)' = Recorders(j)
    BY <1>2, RecordersStay
  <2>2. faults \in Nat
    BY AuthAssumption DEF CodesInv, TypeOK
  <2> QED
    BY <1>1, <1>3, <2>1, <2>2, GuessStays
<1>7. UserStays /\ UserInv' /\ EmailProven'
  BY <1>3, SameUser
<1>8. \A q \in Requests \ {r} : Holds(q) => request[q].id # request'[r].id
  BY <1>2, ConsumesFacts
<1> QED
  BY <1>2, <1>3, <1>4, <1>5, <1>6, <1>7, <1>8, ActorStep

\* The reads of the two transactions that take more than one statement.
LEMMA ReadsKeep ==
    ASSUME CodesInv, NEW r \in Requests
    PROVE  /\ ReadUserStatus(r) => CodesInv'
           /\ DeleteTokens(r) => CodesInv'
<1>1. /\ request \in [Requests -> Request] /\ user.status # "none"
      /\ token \in [Ids -> {"none", "live", "used", "deleted", "expired"}]
  BY DEF CodesInv, TypeOK, User
<1>2. ASSUME ReadUserStatus(r) PROVE CodesInv'
  <2>1. /\ Consumes(r, "VERIFY_EMAIL") \/ Consumes(r, "VERIFY_PHONE")
        /\ UNCHANGED <<user, token>> /\ UNCHANGED bounds
    BY <1>2 DEF ReadUserStatus
  <2>2. Consumes(r, request[r].purpose) /\ request[r].step = "consume"
    BY <2>1 DEF Consumes, At
  <2>3. CASE user.status \in {"PENDING", "ACTIVE"}
    <3> DEFINE v == [request[r] EXCEPT !.step = "activate", !.status = user.status]
    <3>1. request' = [request EXCEPT ![r] = v] /\ challenge' = challenge
      BY <1>1, <1>2, <2>3 DEF ReadUserStatus
    <3>2. request[r] \in Request /\ user.status \in {"none", "NONE", "PENDING", "ACTIVE"}
      BY <1>1, <2>3
    <3>3. /\ v.step = "activate" /\ v.id = request[r].id
          /\ v.purpose = request[r].purpose /\ v.email = request[r].email
          /\ v.status = user.status
      BY <3>2 DEF Request
    <3>4. v \in Request
      BY <3>2 DEF Request
    <3> HIDE DEF v
    <3> QED
      BY <2>1, <2>2, <2>3, <3>1, <3>3, <3>4, HoldStep
  <2>4. CASE user.status \notin {"PENDING", "ACTIVE"}
    <3>1. /\ End(r)
          /\ challenge' = [challenge EXCEPT ![request[r].id] = Consumed(@, FALSE)]
      BY <1>2, <2>4 DEF ReadUserStatus
    <3> QED
      BY <1>1, <2>1, <2>2, <3>1, ConsumesFacts, SameUser, ConsumeStep
  <2> QED
    BY <2>3, <2>4
<1>3. ASSUME DeleteTokens(r) PROVE CodesInv'
  <2> DEFINE l == {i \in Ids : token[i] \in {"live", "expired"}}
             v == [request[r] EXCEPT !.step = "issue", !.list = l]
  <2>1. /\ Consumes(r, "PASSWORD_RESET") /\ UNCHANGED <<user, challenge, token>>
        /\ UNCHANGED bounds
        /\ request' = [request EXCEPT ![r].step = "issue", ![r].list = l]
    BY <1>3 DEF DeleteTokens
  <2>2. Consumes(r, request[r].purpose) /\ request[r].step = "consume"
        /\ request[r].purpose = "PASSWORD_RESET"
    BY <2>1 DEF Consumes, At
  <2>3. l \in SUBSET Ids
    OBVIOUS
  <2> HIDE DEF l
  <2>4. request' = [request EXCEPT ![r] = v]
    BY <1>1, <2>1
  <2>5. /\ v \in Request /\ v.step = "issue" /\ v.id = request[r].id
        /\ v.purpose = request[r].purpose /\ v.email = request[r].email
    BY <1>1, <2>3 DEF Request
  <2> HIDE DEF v
  <2> QED
    BY <2>1, <2>2, <2>4, <2>5, HoldStep
<1> QED
  BY <1>2, <1>3

\* The token of a password reset is issued.
LEMMA IssueKeeps ==
    ASSUME CodesInv, NEW r \in Requests, IssueToken(r)
    PROVE  CodesInv'
<1> DEFINE i == request[r].id
           d == [challenge[i] EXCEPT !.verified = TRUE]
<1>1. /\ request[r].step = "issue" /\ End(r) /\ user' = user /\ UNCHANGED bounds
      /\ challenge' = [challenge EXCEPT ![i].verified = TRUE]
      /\ token' = [j \in Ids |->
                     IF j = i THEN "live"
                     ELSE IF j \in request[r].list /\ token[j] # "used" THEN "deleted"
                     ELSE token[j]]
  BY DEF IssueToken, At
<1>2. token \in [Ids -> {"none", "live", "used", "deleted", "expired"}]
  BY DEF CodesInv, TypeOK
<1>3. /\ i \in 1..Len(challenge) /\ ~challenge[i].consumed /\ ~challenge[i].locked
      /\ challenge[i].purpose = "PASSWORD_RESET"
      /\ \A q \in Requests \ {r} : Holds(q) => request[q].id # i
  <2>1. Holds(r) /\ request[r].purpose = "PASSWORD_RESET"
    BY <1>1 DEF Holds, CodesInv, RequestOK
  <2> QED
    BY <1>1, <2>1, HoldsFacts
<1>4. challenge[i] \in Challenge /\ RowOK(challenge[i]) /\ DOMAIN challenge = 1..Len(challenge)
  BY <1>3, TableFacts
<1>5. challenge' = [challenge EXCEPT ![i] = d]
  BY <1>1, <1>3, <1>4
<1>6. /\ d \in Challenge
      /\ d.purpose = challenge[i].purpose /\ d.destination = challenge[i].destination
      /\ d.attempts = challenge[i].attempts /\ d.guesses = challenge[i].guesses
      /\ d.outcomes = challenge[i].outcomes /\ d.consumed = challenge[i].consumed
      /\ d.verified = TRUE /\ d.locked = challenge[i].locked
  BY <1>4 DEF Challenge
<1> HIDE DEF d
<1>7. RowOK(d) /\ RowStep(challenge[i], d)
  BY <1>3, <1>4, <1>6 DEF RowOK, RowStep, Guessable
<1>8. RowsStep /\ GuessesKept /\ \A q \in Requests \ {r} : LocksKept(q)
  BY <1>3, <1>5, <1>6, <1>7, RowMoves
<1>9. /\ token' \in [Ids -> {"none", "live", "used", "deleted", "expired"}]
      /\ \A j \in Ids : token'[j] = "live" => token[j] = "live" \/ j \in 1..Len(challenge)
  BY <1>1, <1>2, <1>3
<1> QED
  BY <1>1, <1>8, <1>9, SameUser, EndStep

\* The password is reset, or the token is found to be no good any more.
LEMMA ResetKeeps ==
    ASSUME CodesInv, NEW r \in Requests, ResetPassword(r)
    PROVE  CodesInv'
<1> DEFINE i == request[r].id
           ok == token[i] = "live" /\ Consumable(challenge[i]) /\ EligibleUser
<1>1. /\ request[r].step = "confirm" /\ ~RowLocked(i) /\ End(r) /\ user' = user
      /\ UNCHANGED bounds
  BY DEF ResetPassword, At
<1>2. token \in [Ids -> {"none", "live", "used", "deleted", "expired"}]
  BY DEF CodesInv, TypeOK
<1>3. i \in 1..Len(challenge)
  BY <1>1 DEF CodesInv, RequestOK
<1>4. CASE ok
  <2>1. /\ challenge' = [challenge EXCEPT ![i] = Consumed(@, TRUE)]
        /\ token' = [j \in Ids |-> IF j = i THEN "used"
                                   ELSE IF token[j] \in {"live", "expired"} THEN "deleted"
                                   ELSE token[j]]
    BY <1>4 DEF ResetPassword
  <2>2. ~challenge[i].consumed /\ ~challenge[i].locked
    BY <1>4 DEF Consumable
  <2>3. /\ token' \in [Ids -> {"none", "live", "used", "deleted", "expired"}]
        /\ \A j \in Ids : token'[j] = "live" => token[j] = "live"
    BY <1>2, <2>1
  <2>4. \A q \in Requests : Holds(q) => request[q].id # i
    BY <1>1, <2>2, NobodyHolds
  <2>5. request[r].step # "record"
    BY <1>1
  <2> QED
    BY <1>1, <1>3, <2>1, <2>2, <2>3, <2>4, <2>5, SameUser, ConsumeStep
<1>5. CASE ~ok
  <2>1. UNCHANGED <<challenge, token>>
    BY <1>5 DEF ResetPassword
  <2>2. RowsStep /\ GuessesKept /\ \A q \in Requests : LocksKept(q)
    BY <2>1, NothingMoves
  <2> QED
    BY <1>1, <1>2, <2>1, <2>2, SameUser, EndStep
<1> QED
  BY <1>4, <1>5

-----------------------------------------------------------------------------
(* Time and administrators.                                                 *)

\* A challenge grows older or is deleted.
LEMMA OutsideRow ==
    ASSUME CodesInv, NEW i \in 1..Len(challenge), NEW d \in Challenge,
           challenge' = [challenge EXCEPT ![i] = d],
           d.purpose = challenge[i].purpose, d.destination = challenge[i].destination,
           d.attempts = challenge[i].attempts, d.guesses = challenge[i].guesses,
           d.outcomes = challenge[i].outcomes, d.consumed = challenge[i].consumed,
           d.verified = challenge[i].verified, d.locked = challenge[i].locked,
           challenge[i].age # "expired" \/ d.age = challenge[i].age,
           d.deleted = challenge[i].deleted \/ d.deleted = TRUE
    PROVE  RowsStep /\ GuessesKept /\ \A q \in Requests : LocksKept(q)
<1>1. RowOK(d) /\ RowStep(challenge[i], d)
  BY TableFacts DEF RowOK, RowStep, Guessable
<1>2. /\ RowsStep /\ challenge'[i] = d
      /\ \A j \in 1..Len(challenge) : j # i => challenge'[j] = challenge[j]
  BY <1>1, OneRow
<1>3. ASSUME NEW q \in Requests PROVE LocksKept(q)
  <2>1. Holds(q) => request[q].id \in 1..Len(challenge)
    BY DEF CodesInv, RequestOK, Checks, Holds
  <2> QED
    BY <1>2, <2>1 DEF LocksKept
<1>4. GuessesKept
  BY <1>2 DEF GuessesKept
<1> QED
  BY <1>2, <1>3, <1>4

\* Time passes, and the retention job deletes.
LEMMA TimeKeeps ==
    ASSUME CodesInv, NEW i \in Ids
    PROVE  /\ PassTime(i) => CodesInv'
           /\ TokenExpires(i) => CodesInv'
           /\ PurgeChallenge(i) => CodesInv'
<1>1. /\ request \in [Requests -> Request]
      /\ token \in [Ids -> {"none", "live", "used", "deleted", "expired"}]
      /\ calls \in 0..MaxCalls /\ changes \in 0..MaxAdmin /\ faults \in 0..MaxFaults
  BY DEF CodesInv, TypeOK
<1>2. DOMAIN challenge = 1..Len(challenge)
      /\ \A j \in 1..Len(challenge) : challenge[j] \in Challenge
  BY TableFacts
<1>3. ASSUME PassTime(i) PROVE CodesInv'
  <2> DEFINE a == IF challenge[i].age = "recent" THEN "valid" ELSE "expired"
             d == [challenge[i] EXCEPT !.age = a]
  <2>1. /\ i \in 1..Len(challenge) /\ challenge[i].age # "expired"
        /\ challenge' = [challenge EXCEPT ![i].age = IF @ = "recent" THEN "valid" ELSE "expired"]
        /\ UNCHANGED <<user, token, request>> /\ UNCHANGED bounds
    BY <1>2, <1>3 DEF PassTime
  <2>2. challenge' = [challenge EXCEPT ![i] = d]
    BY <1>2, <2>1
  <2>3. a \in {"recent", "valid", "expired"}
    OBVIOUS
  <2> HIDE DEF a
  <2>4. /\ d \in Challenge
        /\ d.purpose = challenge[i].purpose /\ d.destination = challenge[i].destination
        /\ d.attempts = challenge[i].attempts /\ d.guesses = challenge[i].guesses
        /\ d.outcomes = challenge[i].outcomes /\ d.consumed = challenge[i].consumed
        /\ d.verified = challenge[i].verified /\ d.locked = challenge[i].locked
        /\ d.deleted = challenge[i].deleted
    BY <1>2, <2>1, <2>3 DEF Challenge
  <2> HIDE DEF d
  <2>5. RowsStep /\ GuessesKept /\ \A q \in Requests : LocksKept(q)
    BY <2>1, <2>2, <2>4, OutsideRow
  <2>6. TypeOK'
    BY <1>1, <2>1, <2>5, TypeStep, SameUser DEF bounds
  <2> QED
    BY <2>1, <2>5, <2>6, SameUser, NobodyActs DEF bounds
<1>4. ASSUME TokenExpires(i) PROVE CodesInv'
  <2>1. /\ token' = [token EXCEPT ![i] = "expired"]
        /\ UNCHANGED <<user, challenge, request>> /\ UNCHANGED bounds
    BY <1>4 DEF TokenExpires
  <2>2. RowsStep /\ GuessesKept /\ \A q \in Requests : LocksKept(q)
    BY <2>1, NothingMoves
  <2>3. /\ token' \in [Ids -> {"none", "live", "used", "deleted", "expired"}]
        /\ \A j \in Ids : token'[j] = "live" => token[j] = "live"
    BY <1>1, <2>1
  <2>4. TypeOK'
    BY <1>1, <2>1, <2>2, <2>3, TypeStep, SameUser DEF bounds
  <2> QED
    BY <2>1, <2>2, <2>3, <2>4, SameUser, NobodyActs DEF bounds
<1>5. ASSUME PurgeChallenge(i) PROVE CodesInv'
  <2> DEFINE d == [challenge[i] EXCEPT !.deleted = TRUE]
  <2>1. /\ i \in 1..Len(challenge)
        /\ challenge' = [challenge EXCEPT ![i].deleted = TRUE]
        /\ token' = [token EXCEPT ![i] = IF @ = "none" THEN "none" ELSE "deleted"]
        /\ UNCHANGED <<user, request>> /\ UNCHANGED bounds
    BY <1>2, <1>5 DEF PurgeChallenge
  <2>2. challenge' = [challenge EXCEPT ![i] = d]
    BY <1>2, <2>1
  <2>3. /\ d \in Challenge
        /\ d.purpose = challenge[i].purpose /\ d.destination = challenge[i].destination
        /\ d.attempts = challenge[i].attempts /\ d.guesses = challenge[i].guesses
        /\ d.outcomes = challenge[i].outcomes /\ d.consumed = challenge[i].consumed
        /\ d.verified = challenge[i].verified /\ d.locked = challenge[i].locked
        /\ d.deleted = TRUE /\ d.age = challenge[i].age
    BY <1>2, <2>1 DEF Challenge
  <2> HIDE DEF d
  <2>4. RowsStep /\ GuessesKept /\ \A q \in Requests : LocksKept(q)
    BY <2>1, <2>2, <2>3, OutsideRow
  <2>5. /\ token' \in [Ids -> {"none", "live", "used", "deleted", "expired"}]
        /\ \A j \in Ids : token'[j] = "live" => token[j] = "live"
    BY <1>1, <2>1
  <2>6. TypeOK'
    BY <1>1, <2>1, <2>4, <2>5, TypeStep, SameUser DEF bounds
  <2> QED
    BY <2>1, <2>4, <2>5, <2>6, SameUser, NobodyActs DEF bounds
<1> QED
  BY <1>3, <1>4, <1>5

\* An administrator suspends, restores or deletes the account.
LEMMA AdminKeeps ==
    ASSUME CodesInv
    PROVE  /\ \A status \in {"ACTIVE", "SUSPENDED"} : UpdateUser(status) => CodesInv'
           /\ DeleteAccount => CodesInv'
<1>1. /\ request \in [Requests -> Request] /\ user \in User
      /\ token \in [Ids -> {"none", "live", "used", "deleted", "expired"}]
      /\ calls \in 0..MaxCalls /\ changes \in 0..MaxAdmin /\ faults \in 0..MaxFaults
  BY DEF CodesInv, TypeOK
<1>2. Change => changes' \in 0..MaxAdmin /\ UNCHANGED <<calls, faults>>
  BY <1>1, AuthAssumption DEF Change
<1>3. ASSUME NEW status \in {"ACTIVE", "SUSPENDED"}, UpdateUser(status) PROVE CodesInv'
  <2>1. /\ Change /\ user.status \in {"PENDING", "ACTIVE", "SUSPENDED"}
        /\ user' = [user EXCEPT !.status = status]
        /\ UNCHANGED <<challenge, token, request>>
    BY <1>3 DEF UpdateUser
  <2>2. user' \in User /\ user'.status = status /\ user'.email = user.email
    BY <1>1, <2>1 DEF User
  <2>3. UserStays /\ UserInv'
    BY <2>1, <2>2, UserFacts DEF UserStays, UserInv
  <2>4. RowsStep /\ GuessesKept /\ \A q \in Requests : LocksKept(q)
    BY <2>1, NothingMoves
  <2>5. TypeOK'
    BY <1>1, <1>2, <2>1, <2>2, <2>4, TypeStep
  <2> QED
    BY <1>2, <2>1, <2>2, <2>3, <2>4, <2>5, NobodyActs
<1>4. ASSUME DeleteAccount PROVE CodesInv'
  <2>1. /\ Change /\ user' = [NoUser EXCEPT !.status = "DELETED"]
        /\ challenge' = [j \in DOMAIN challenge |-> [challenge[j] EXCEPT !.deleted = TRUE]]
        /\ token' = [j \in Ids |-> IF token[j] = "none" THEN "none" ELSE "deleted"]
        /\ request' = request
    BY <1>4 DEF DeleteAccount
  <2>2. user' \in User /\ user'.status = "DELETED" /\ user'.email = NoEmail
    BY <2>1 DEF NoUser, User
  <2>3. UserStays /\ UserInv'
    BY <2>2 DEF UserStays, UserInv
  <2>4. /\ Len(challenge) \in Nat /\ Len(challenge) <= MaxChallenges
        /\ DOMAIN challenge = 1..Len(challenge)
        /\ \A j \in 1..Len(challenge) : challenge[j] \in Challenge /\ RowOK(challenge[j])
    BY TableFacts
  <2>5. \A j \in 1..Len(challenge) :
          /\ challenge'[j] \in Challenge /\ challenge'[j].deleted
          /\ challenge'[j].purpose = challenge[j].purpose
          /\ challenge'[j].destination = challenge[j].destination
          /\ challenge'[j].attempts = challenge[j].attempts
          /\ challenge'[j].guesses = challenge[j].guesses
          /\ challenge'[j].outcomes = challenge[j].outcomes
          /\ challenge'[j].consumed = challenge[j].consumed
          /\ challenge'[j].verified = challenge[j].verified
          /\ challenge'[j].locked = challenge[j].locked
    BY <2>1, <2>4 DEF Challenge
  <2>6. challenge' \in Seq(Challenge) /\ Len(challenge') = Len(challenge)
    <3>1. challenge' \in [1..Len(challenge) -> Challenge]
      BY <2>1, <2>4, <2>5
    <3>2. challenge' \in Seq(Challenge)
      BY <2>4, <3>1, SeqDef
    <3> QED
      BY <2>4, <3>1, <3>2, LenProperties
  <2>7. /\ \A j \in 1..Len(challenge) : RowOK(challenge'[j])
        /\ \A j \in 1..Len(challenge) : RowStep(challenge[j], challenge'[j])
    BY <2>4, <2>5 DEF RowOK, RowStep, Guessable
  <2>8. RowsStep
    BY <2>4, <2>6, <2>7 DEF RowsStep, RowsInv
  <2>9. GuessesKept
    BY <2>5 DEF GuessesKept
  <2>10. ASSUME NEW q \in Requests PROVE LocksKept(q)
    <3>1. Holds(q) => request[q].id \in 1..Len(challenge)
      BY DEF CodesInv, RequestOK, Checks, Holds
    <3> QED
      BY <2>5, <3>1 DEF LocksKept
  <2>11. /\ token' \in [Ids -> {"none", "live", "used", "deleted", "expired"}]
         /\ \A j \in Ids : token'[j] = "live" => token[j] = "live"
    BY <1>1, <2>1
  <2>12. TypeOK'
    BY <1>1, <1>2, <2>1, <2>2, <2>8, <2>11, TypeStep
  <2> QED
    BY <1>2, <2>1, <2>2, <2>3, <2>8, <2>9, <2>10, <2>11, <2>12, NobodyActs
<1> QED
  BY <1>3, <1>4

-----------------------------------------------------------------------------
(* Wrong codes.                                                             *)

GuessOK(i) ==
    LET c == challenge[i]
    IN  /\ Guessable(c) => c.guesses <= c.attempts + Cardinality(Recorders(i)) + faults
        /\ c.guesses <= MaxAttempts - 1 + Cardinality(Requests) + faults

\* A request ends to record a wrong code, or crashes before it did.
LEMMA RecorderLeaves ==
    ASSUME CodesInv, NEW r \in Requests, request[r].step = "record",
           \A q \in Requests \ {r} : request'[q] = request[q],
           request'[r].step # "record", NEW i
    PROVE  /\ i = request[r].id => Cardinality(Recorders(i)') + 1 = Cardinality(Recorders(i))
           /\ i # request[r].id => Recorders(i)' = Recorders(i)
<1>1. ASSUME i = request[r].id
      PROVE  Cardinality(Recorders(i)') + 1 = Cardinality(Recorders(i))
  <2>1. Recorders(i)' = Recorders(i) \ {r} /\ r \in Recorders(i)
    BY <1>1 DEF Recorders
  <2>2. IsFiniteSet(Recorders(i)) /\ Cardinality(Recorders(i)) \in Nat
    BY RecordersFinite
  <2>3. Cardinality(Recorders(i) \ {r}) = Cardinality(Recorders(i)) - 1
    BY <2>1, <2>2, FS_RemoveElement
  <2> QED
    BY <2>1, <2>2, <2>3
<1>2. i # request[r].id => Recorders(i)' = Recorders(i)
  BY DEF Recorders
<1> QED
  BY <1>1, <1>2

\* A request is about to record a wrong code.
LEMMA RecorderJoins ==
    ASSUME CodesInv, NEW r \in Requests, request[r].step # "record",
           \A q \in Requests \ {r} : request'[q] = request[q],
           request'[r].step = "record", NEW i
    PROVE  /\ i = request'[r].id => Cardinality(Recorders(i)') = Cardinality(Recorders(i)) + 1
           /\ i # request'[r].id => Recorders(i)' = Recorders(i)
<1>1. ASSUME i = request'[r].id
      PROVE  Cardinality(Recorders(i)') = Cardinality(Recorders(i)) + 1
  <2>1. Recorders(i)' = Recorders(i) \cup {r} /\ r \notin Recorders(i)
    BY <1>1 DEF Recorders
  <2>2. IsFiniteSet(Recorders(i))
    BY RecordersFinite
  <2>3. Cardinality(Recorders(i) \cup {r}) = Cardinality(Recorders(i)) + 1
    BY <2>1, <2>2, FS_AddElement
  <2> QED
    BY <2>1, <2>3
<1>2. i # request'[r].id => Recorders(i)' = Recorders(i)
  BY DEF Recorders
<1> QED
  BY <1>1, <1>2

\* A challenge whose count no wrong code changes.
LEMMA GuessRowStays ==
    ASSUME CodesInv, RowsStep, NEW i \in 1..Len(challenge),
           challenge'[i].guesses = challenge[i].guesses,
           challenge'[i].attempts = challenge[i].attempts,
           faults' \in Nat, faults <= faults',
           Cardinality(Recorders(i)) + faults <= Cardinality(Recorders(i)') + faults'
    PROVE  /\ Guessable(challenge'[i]) =>
                 challenge'[i].guesses <= challenge'[i].attempts
                                          + Cardinality(Recorders(i)') + faults'
           /\ challenge'[i].guesses <= MaxAttempts - 1 + Cardinality(Requests) + faults'
<1>1. GuessOK(i)
  BY DEF CodesInv, GuessInv, GuessOK
<1>2. /\ challenge[i].guesses \in Nat /\ challenge[i].attempts \in Nat /\ faults \in Nat
      /\ MaxAttempts \in Nat
  BY RowNumbers
<1>3. /\ Cardinality(Requests) \in Nat /\ Cardinality(Recorders(i)) \in Nat
      /\ Cardinality(Recorders(i)') \in Nat
  BY RecordersFinite, RecordersFiniteNext
<1>4. challenge'[i].guesses <= MaxAttempts - 1 + Cardinality(Requests) + faults'
  BY SMTT(40), <1>1, <1>2, <1>3 DEF GuessOK
<1>5. ASSUME Guessable(challenge'[i])
      PROVE  challenge'[i].guesses <= challenge'[i].attempts
                                      + Cardinality(Recorders(i)') + faults'
  <2>1. Guessable(challenge[i])
    BY <1>5 DEF RowsStep, RowStep
  <2>2. challenge[i].guesses <= challenge[i].attempts + Cardinality(Recorders(i)) + faults
    BY <1>1, <2>1 DEF GuessOK
  <2> QED
    BY SMTT(40), <1>2, <1>3, <2>2
<1> QED
  BY <1>4, <1>5

\* The process dies, with a wrong code that is not counted perhaps.
LEMMA CrashKeeps ==
    ASSUME CodesInv, NEW r \in Requests, Crash(r)
    PROVE  CodesInv'
<1>1. /\ faults' = faults + 1 /\ End(r) /\ faults < MaxFaults
      /\ UNCHANGED <<user, challenge, token, calls, changes>>
  BY DEF Crash
<1>2. faults \in Nat /\ faults' \in Nat /\ faults <= faults' /\ faults' \in 0..MaxFaults
  BY <1>1, AuthAssumption DEF CodesInv, TypeOK
<1>3. RowsStep /\ GuessesKept /\ \A q \in Requests : LocksKept(q)
  BY <1>1, NothingMoves
<1>4. TypeOK'
  BY <1>1, <1>2, <1>3, TypeStep, EndFacts DEF CodesInv, TypeOK
<1>5. ASSUME NEW i
      PROVE  Cardinality(Recorders(i)) + faults <= Cardinality(Recorders(i)') + faults'
  <2>1. Cardinality(Recorders(i)) \in Nat /\ Cardinality(Recorders(i)') \in Nat
    BY RecordersFinite, RecordersFiniteNext
  <2>2. CASE request[r].step = "record" /\ i = request[r].id
    <3>1. Cardinality(Recorders(i)') + 1 = Cardinality(Recorders(i))
      BY <1>1, <2>2, EndFacts, RecorderLeaves
    <3> QED
      BY <1>1, <1>2, <2>1, <3>1
  <2>3. CASE ~(request[r].step = "record" /\ i = request[r].id)
    <3>1. Recorders(i)' = Recorders(i)
      BY <1>1, <2>3, EndFacts, RecorderLeaves, RecordersStay
    <3>2. Cardinality(Recorders(i)') = Cardinality(Recorders(i))
      BY <3>1
    <3> QED
      BY <1>2, <2>1, <3>2
  <2> QED
    BY <2>2, <2>3
<1>6. GuessInv'
  <2>1. \A i \in 1..Len(challenge) :
          /\ Guessable(challenge'[i]) =>
                challenge'[i].guesses <= challenge'[i].attempts
                                         + Cardinality(Recorders(i)') + faults'
          /\ challenge'[i].guesses <= MaxAttempts - 1 + Cardinality(Requests) + faults'
    BY <1>2, <1>3, <1>5, GuessRowStays DEF GuessesKept
  <2> QED
    BY <1>1, <2>1 DEF GuessInv, Guessable
<1> QED
  BY <1>1, <1>3, <1>4, <1>6, SameUser, EndFacts, ActorStep

\* The newest challenge a code is compared with can be guessed.
LEMMA CandidateFacts ==
    ASSUME CodesInv, NEW purpose \in Purposes, NEW destination \in Emails,
           Candidates(purpose, destination) # {}
    PROVE  LET i == Newest(Candidates(purpose, destination))
           IN  /\ i \in 1..Len(challenge)
               /\ challenge[i].purpose = purpose /\ challenge[i].destination = destination
               /\ challenge[i].age # "expired" => Guessable(challenge[i])
<1> DEFINE S == Candidates(purpose, destination)
           i == Newest(S)
<1>1. Len(challenge) \in Nat /\ S \in SUBSET (1..Len(challenge))
  BY TableFacts DEF Candidates
<1>2. i \in S
  BY <1>1, NewestIsOne
<1>3. /\ i \in 1..Len(challenge) /\ challenge[i].purpose = purpose
      /\ challenge[i].destination = destination
      /\ ~challenge[i].consumed /\ ~challenge[i].locked /\ ~challenge[i].deleted
      /\ purpose = "PASSWORD_RESET" => ~challenge[i].verified
  BY <1>1, <1>2 DEF Candidates
<1>4. challenge[i].verified => challenge[i].purpose = "PASSWORD_RESET"
  BY <1>3, TableFacts DEF RowOK
<1> QED
  BY <1>3, <1>4 DEF Guessable

\* A code is compared, and a wrong one is on its way to be counted.
LEMMA VerifyKeeps ==
    ASSUME CodesInv, NEW r \in Requests, NEW purpose \in Purposes,
           NEW destination \in Emails, NEW right \in BOOLEAN,
           Verify(r, purpose, destination, right)
    PROVE  CodesInv'
<1> DEFINE i == Newest(Candidates(purpose, destination))
           v == [Idle EXCEPT !.step = IF right THEN "consume" ELSE "record",
                             !.purpose = purpose, !.email = destination, !.id = i]
           g == IF right THEN challenge[i].guesses ELSE challenge[i].guesses + 1
           d == [challenge[i] EXCEPT !.guesses = g]
<1>1. /\ Candidates(purpose, destination) # {} /\ challenge[i].age # "expired"
      /\ request[r].step = "idle" /\ calls < MaxCalls /\ calls' = calls + 1
      /\ request' = [request EXCEPT ![r] = v]
      /\ challenge' = [challenge EXCEPT ![i].guesses = IF right THEN @ ELSE @ + 1]
      /\ UNCHANGED <<user, token, changes, faults>>
  BY DEF Verify, At
<1>2. /\ i \in 1..Len(challenge) /\ Guessable(challenge[i])
      /\ challenge[i].purpose = purpose /\ challenge[i].destination = destination
  BY <1>1, CandidateFacts
<1>3. /\ challenge[i] \in Challenge /\ RowOK(challenge[i]) /\ i \in Ids
      /\ DOMAIN challenge = 1..Len(challenge)
  BY <1>2, TableFacts
<1> HIDE DEF i
<1>4. /\ v \in Request /\ v.step = (IF right THEN "consume" ELSE "record")
      /\ v.purpose = purpose /\ v.email = destination /\ v.id = i
  BY <1>3 DEF Idle, Request
<1> HIDE DEF v
<1>5. /\ request' \in [Requests -> Request] /\ request'[r] = v
      /\ \A q \in Requests \ {r} : request'[q] = request[q]
  BY <1>1, <1>4 DEF CodesInv, TypeOK
<1>6. g \in Nat
  BY <1>3 DEF Challenge
<1>7. challenge' = [challenge EXCEPT ![i] = d]
  BY <1>1, <1>2, <1>3
<1> HIDE DEF g
<1>8. /\ d \in Challenge
      /\ d.purpose = challenge[i].purpose /\ d.destination = challenge[i].destination
      /\ d.attempts = challenge[i].attempts /\ d.guesses = g
      /\ d.outcomes = challenge[i].outcomes /\ d.consumed = challenge[i].consumed
      /\ d.verified = challenge[i].verified /\ d.locked = challenge[i].locked
  BY <1>3, <1>6 DEF Challenge
<1> HIDE DEF d
<1>9. RowOK(d) /\ RowStep(challenge[i], d)
  BY <1>2, <1>3, <1>8 DEF RowOK, RowStep
<1>10. /\ RowsStep /\ Len(challenge') = Len(challenge) /\ challenge'[i] = d
       /\ \A j \in 1..Len(challenge) : j # i => challenge'[j] = challenge[j]
  BY <1>2, <1>7, <1>8, <1>9, OneRow
<1>11. TypeOK'
  <2>1. calls' \in 0..MaxCalls
    BY <1>1, AuthAssumption DEF CodesInv, TypeOK
  <2> QED
    BY <1>1, <1>5, <1>10, <2>1, TypeStep DEF CodesInv, TypeOK
<1>12. ASSUME NEW q \in Requests \ {r} PROVE LocksKept(q)
  <2>1. Holds(q) => request[q].id \in 1..Len(challenge)
    BY DEF CodesInv, RequestOK, Checks, Holds
  <2> QED
    BY <1>8, <1>10, <2>1 DEF LocksKept
<1>13. RequestOK(r)' /\ ~Holds(r)'
  BY <1>2, <1>4, <1>5, <1>8, <1>10 DEF RequestOK, Checks, Holds
<1>14. faults \in Nat /\ faults' = faults
  BY <1>1, AuthAssumption DEF CodesInv, TypeOK
<1>15. ASSUME NEW j \in 1..Len(challenge)
       PROVE  /\ Guessable(challenge'[j]) =>
                    challenge'[j].guesses <= challenge'[j].attempts
                                             + Cardinality(Recorders(j)') + faults'
              /\ challenge'[j].guesses <= MaxAttempts - 1 + Cardinality(Requests) + faults'
  <2>1. /\ Cardinality(Recorders(j)) \in Nat /\ Cardinality(Recorders(j)') \in Nat
        /\ Cardinality(Requests) \in Nat /\ Cardinality(Recorders(j)') <= Cardinality(Requests)
    BY RecordersFinite, RecordersFiniteNext
  <2>2. CASE right
    <3>1. Recorders(j)' = Recorders(j)
      BY <1>1, <1>4, <1>5, <2>2, RecordersStay
    <3>2. Cardinality(Recorders(j)') = Cardinality(Recorders(j))
      BY <3>1
    <3>3. challenge'[j].guesses = challenge[j].guesses /\ challenge'[j].attempts = challenge[j].attempts
      BY <1>8, <1>10, <2>2 DEF g
    <3>4. Cardinality(Recorders(j)) + faults <= Cardinality(Recorders(j)') + faults'
      BY <1>14, <2>1, <3>2
    <3> QED
      BY <1>10, <1>14, <3>3, <3>4, GuessRowStays
  <2>3. CASE ~right /\ j # i
    <3>1. Recorders(j)' = Recorders(j)
      BY <1>1, <1>4, <1>5, <2>3, RecorderJoins
    <3>2. Cardinality(Recorders(j)') = Cardinality(Recorders(j))
      BY <3>1
    <3>3. challenge'[j].guesses = challenge[j].guesses /\ challenge'[j].attempts = challenge[j].attempts
      BY <1>10, <2>3
    <3>4. Cardinality(Recorders(j)) + faults <= Cardinality(Recorders(j)') + faults'
      BY <1>14, <2>1, <3>2
    <3> QED
      BY <1>10, <1>14, <3>3, <3>4, GuessRowStays
  <2>4. CASE ~right /\ j = i
    <3>1. Cardinality(Recorders(j)') = Cardinality(Recorders(j)) + 1
      BY <1>1, <1>4, <1>5, <2>4, RecorderJoins
    <3>2. challenge[j].guesses <= challenge[j].attempts + Cardinality(Recorders(j)) + faults
      BY <1>2, <2>4 DEF CodesInv, GuessInv
    <3>3. /\ challenge[j].guesses \in Nat /\ challenge[j].attempts \in Nat
          /\ challenge[j].attempts <= MaxAttempts - 1 /\ MaxAttempts \in Nat
      BY <1>2, <2>4, RowNumbers
    <3>4. challenge'[j].guesses = challenge[j].guesses + 1
          /\ challenge'[j].attempts = challenge[j].attempts
      BY <1>8, <1>10, <2>4 DEF g
    <3>5. challenge'[j].guesses <= challenge'[j].attempts + Cardinality(Recorders(j)') + faults'
      BY SMTT(40), <1>14, <2>1, <3>1, <3>2, <3>3, <3>4
    <3>6. challenge'[j].guesses <= MaxAttempts - 1 + Cardinality(Requests) + faults'
      BY SMTT(40), <1>14, <2>1, <3>3, <3>4, <3>5
    <3> QED
      BY <3>5, <3>6
  <2> QED
    BY <2>2, <2>3, <2>4
<1>16. GuessInv'
  BY <1>10, <1>15 DEF GuessInv, Guessable
<1> QED
  BY <1>1, <1>5, <1>10, <1>11, <1>12, <1>13, <1>16, SameUser, ActorStep

\* A wrong code is counted, or finds that the challenge is out of play.
LEMMA RecordKeeps ==
    ASSUME CodesInv, NEW r \in Requests, RecordInvalidOtpAttempt(r)
    PROVE  CodesInv'
<1> DEFINE i == request[r].id
           c == challenge[i]
           counts == /\ c.attempts < MaxAttempts /\ c.age # "expired"
                     /\ ~c.consumed /\ ~c.verified /\ ~c.locked /\ ~c.deleted
           d == IF counts THEN FailedAttempt(c) ELSE c
<1>1. /\ request[r].step = "record" /\ ~RowLocked(i) /\ End(r)
      /\ challenge' = [challenge EXCEPT ![i] = d]
      /\ UNCHANGED <<user, token>> /\ UNCHANGED bounds
  BY DEF RecordInvalidOtpAttempt, At
<1>2. i \in 1..Len(challenge)
  BY <1>1 DEF CodesInv, RequestOK, Checks
<1>3. c \in Challenge /\ RowOK(c)
  BY <1>2, TableFacts
<1>4. /\ d \in Challenge /\ RowOK(d) /\ RowStep(c, d) /\ d.guesses = c.guesses
      /\ Guessable(d) => d.attempts = c.attempts + 1
  <2>1. CASE counts
    <3> DEFINE n == c.attempts + 1
               l == n >= MaxAttempts
    <3>1. n \in 0..MaxAttempts /\ l \in BOOLEAN /\ (n = MaxAttempts => l)
      BY <1>3, <2>1, AuthAssumption DEF Challenge
    <3>2. d = [c EXCEPT !.attempts = n, !.locked = l]
      BY <2>1 DEF FailedAttempt
    <3> HIDE DEF l
    <3> HIDE DEF n
    <3>3. /\ d \in Challenge
          /\ d.purpose = c.purpose /\ d.destination = c.destination
          /\ d.attempts = n /\ d.guesses = c.guesses /\ d.outcomes = c.outcomes
          /\ d.consumed = c.consumed /\ d.verified = c.verified /\ d.locked = l
          /\ d.age = c.age /\ d.deleted = c.deleted
      BY <1>3, <3>1, <3>2 DEF Challenge
    <3>4. RowOK(d)
      BY <1>3, <2>1, <3>1, <3>3 DEF RowOK
    <3>5. RowStep(c, d)
      BY <2>1, <3>3 DEF RowStep, Guessable
    <3> QED
      BY <3>3, <3>4, <3>5 DEF n
  <2>2. CASE ~counts
    <3>1. d = c
      BY <2>2
    <3>2. ~Guessable(c)
      BY <1>2, <2>2, RowNumbers DEF Guessable
    <3> HIDE DEF d, c
    <3> QED
      BY <1>3, <3>1, <3>2 DEF RowStep
  <2> QED
    BY <2>1, <2>2
<1> HIDE DEF d
<1>5. /\ RowsStep /\ Len(challenge') = Len(challenge) /\ challenge'[i] = d
      /\ \A j \in 1..Len(challenge) : j # i => challenge'[j] = challenge[j]
  BY <1>1, <1>2, <1>4, OneRow
<1>6. faults \in Nat /\ faults' = faults
  BY <1>1, AuthAssumption DEF CodesInv, TypeOK, bounds
<1>7. TypeOK'
  BY <1>1, <1>5, TypeStep, EndFacts DEF CodesInv, TypeOK, bounds
<1>8. ASSUME NEW q \in Requests \ {r} PROVE LocksKept(q)
  <2>1. Holds(q) => request[q].id \in 1..Len(challenge)
    BY DEF CodesInv, RequestOK, Checks, Holds
  <2>2. CASE c.consumed
    <3>1. d = c
      BY <2>2 DEF d
    <3>2. challenge'[i] = challenge[i]
      BY <1>5, <3>1
    <3> QED
      BY <1>5, <2>1, <3>2 DEF LocksKept
  <2>3. CASE ~c.consumed
    <3>1. Holds(q) => request[q].id # i
      BY <1>1, <2>3, NobodyHolds
    <3> QED
      BY <1>5, <2>1, <3>1 DEF LocksKept
  <2> QED
    BY <2>2, <2>3
<1>9. ASSUME NEW j \in 1..Len(challenge)
      PROVE  /\ Guessable(challenge'[j]) =>
                   challenge'[j].guesses <= challenge'[j].attempts
                                            + Cardinality(Recorders(j)') + faults'
             /\ challenge'[j].guesses <= MaxAttempts - 1 + Cardinality(Requests) + faults'
  <2>1. /\ Cardinality(Recorders(j)) \in Nat /\ Cardinality(Recorders(j)') \in Nat
        /\ Cardinality(Requests) \in Nat
    BY RecordersFinite, RecordersFiniteNext
  <2>2. CASE j # i
    <3>1. Recorders(j)' = Recorders(j)
      BY <1>1, <2>2, EndFacts, RecorderLeaves
    <3>2. Cardinality(Recorders(j)') = Cardinality(Recorders(j))
      BY <3>1
    <3>3. challenge'[j].guesses = challenge[j].guesses /\ challenge'[j].attempts = challenge[j].attempts
      BY <1>5, <2>2
    <3>4. Cardinality(Recorders(j)) + faults <= Cardinality(Recorders(j)') + faults'
      BY <1>6, <2>1, <3>2
    <3> QED
      BY <1>5, <1>6, <3>3, <3>4, GuessRowStays
  <2>3. CASE j = i
    <3>1. Cardinality(Recorders(j)') + 1 = Cardinality(Recorders(j))
      BY <1>1, <2>3, EndFacts, RecorderLeaves
    <3>2. GuessOK(j)
      BY DEF CodesInv, GuessInv, GuessOK
    <3>3. challenge'[j] = d /\ challenge'[j].guesses = challenge[j].guesses
      BY <1>4, <1>5, <2>3
    <3>4. challenge[j].guesses \in Nat /\ challenge[j].attempts \in Nat
      BY RowNumbers
    <3>5. challenge'[j].guesses <= MaxAttempts - 1 + Cardinality(Requests) + faults'
      BY <1>6, <3>2, <3>3 DEF GuessOK
    <3>6. ASSUME Guessable(challenge'[j])
          PROVE  challenge'[j].guesses <= challenge'[j].attempts
                                          + Cardinality(Recorders(j)') + faults'
      <4>1. challenge'[j].attempts = challenge[j].attempts + 1
        BY <1>4, <2>3, <3>3, <3>6
      <4>2. Guessable(challenge[j])
        BY <1>4, <2>3, <3>3, <3>6 DEF RowStep
      <4>3. challenge[j].guesses <= challenge[j].attempts + Cardinality(Recorders(j)) + faults
        BY <3>2, <4>2 DEF GuessOK
      <4> QED
        BY <1>6, <2>1, <3>1, <3>3, <3>4, <4>1, <4>3
    <3> QED
      BY <3>5, <3>6
  <2> QED
    BY <2>2, <2>3
<1>10. GuessInv'
  BY <1>5, <1>9 DEF GuessInv, Guessable
<1>11. \A j \in Ids : token'[j] = "live" => token[j] = "live"
  BY <1>1
<1> QED
  BY <1>1, <1>5, <1>7, <1>8, <1>10, <1>11, SameUser, EndFacts, ActorStep

-----------------------------------------------------------------------------
(* The theorems.                                                            *)

\* The invariant holds before the first request.
LEMMA CodesInit == Init => CodesInv
<1> SUFFICES ASSUME Init PROVE CodesInv
  OBVIOUS
<1>1. First \in Emails
  BY AuthAssumption DEF First
<1>2. user \in User /\ UserInv /\ user.email \in {First, NoEmail}
  <2>1. CASE user = NoUser
    BY <1>1, <2>1 DEF NoUser, User, UserInv
  <2>2. CASE user = [NoUser EXCEPT !.status = "ACTIVE", !.email = First]
    <3>1. /\ user \in User /\ user.email = First
      BY <1>1, <2>2 DEF NoUser, User
    <3> QED
      BY <1>1, <3>1 DEF UserInv
  <2> QED
    BY <2>1, <2>2 DEF Init
<1>3. challenge = <<>> /\ challenge \in Seq(Challenge) /\ Len(challenge) = 0
  BY DEF Init
<1>4. Idle \in Request /\ Idle.step = "idle"
  BY DEF Idle, Request
<1>5. \A r \in Requests : request[r] = Idle
  BY DEF Init
<1>6. TypeOK
  <2>1. request \in [Requests -> Request]
    BY <1>4 DEF Init
  <2>2. token \in [Ids -> {"none", "live", "used", "deleted", "expired"}]
    BY DEF Init
  <2>3. calls \in 0..MaxCalls /\ changes \in 0..MaxAdmin /\ faults \in 0..MaxFaults
    BY AuthAssumption DEF Init
  <2> QED
    BY <1>2, <1>3, <2>1, <2>2, <2>3, AuthAssumption DEF TypeOK
<1>7. \A r \in Requests : RequestOK(r) /\ ~Holds(r)
  BY <1>4, <1>5 DEF RequestOK, Checks, Holds
<1>8. TokensInv
  BY DEF TokensInv, Init
<1> QED
  BY <1>2, <1>3, <1>6, <1>7, <1>8
  DEF CodesInv, RowsInv, ExclusiveInv, GuessInv, EmailProven

\* Every step preserves the invariant.
LEMMA CodesStep == CodesInv /\ [Next]_vars => CodesInv'
<1> SUFFICES ASSUME CodesInv, [Next]_vars PROVE CodesInv'
  OBVIOUS
<1>1. CASE UNCHANGED vars
  <2>1. UNCHANGED <<user, challenge, token, request>> /\ UNCHANGED <<calls, changes, faults>>
    BY <1>1 DEF vars, bounds
  <2>2. RowsStep /\ GuessesKept /\ \A q \in Requests : LocksKept(q)
    BY <2>1, NothingMoves
  <2>3. TypeOK'
    BY <2>1, <2>2, TypeStep DEF CodesInv, TypeOK
  <2> QED
    BY <2>1, <2>2, <2>3, SameUser, NobodyActs
<1>2. CASE Next
  <2>1. ASSUME NEW r \in Requests, Sending(r) PROVE CodesInv'
    BY <2>1, CallsKeep, CreatesKeep DEF Sending
  <2>2. ASSUME NEW r \in Requests, Checking(r) PROVE CodesInv'
    <3>1. CASE \E p \in Purposes, e \in Emails, right \in BOOLEAN : Verify(r, p, e, right)
      BY <3>1, VerifyKeeps
    <3>2. CASE RecordInvalidOtpAttempt(r) \/ ConsumeFails(r)
      BY <3>2, RecordKeeps, PlainEndsKeep
    <3>3. CASE ConsumeLogin(r) \/ CreateSession(r) \/ ReadUserStatus(r) \/ Activate(r)
      BY <3>3, LoginKeeps, SessionKeeps, ReadsKeep, ActivateKeeps
    <3>4. CASE DeleteTokens(r) \/ IssueToken(r)
      BY <3>4, ReadsKeep, IssueKeeps
    <3>5. CASE \E i \in Ids : ConfirmPasswordReset(r, i)
      BY <3>5, CallsKeep
    <3>6. CASE ResetPassword(r) \/ VerifyEmailChange(r)
      BY <3>6, ResetKeeps, EmailChangeKeeps
    <3> QED
      BY <2>2, <3>1, <3>2, <3>3, <3>4, <3>5, <3>6 DEF Checking
  <2>3. ASSUME NEW r \in Requests, Linking(r) \/ Crash(r) PROVE CodesInv'
    BY <2>3, CallsKeep, PlainEndsKeep, CrashKeeps DEF Linking
  <2>4. ASSUME NEW i \in Ids, PassTime(i) \/ TokenExpires(i) \/ PurgeChallenge(i)
        PROVE  CodesInv'
    BY <2>4, TimeKeeps
  <2>5. CASE (\E status \in {"ACTIVE", "SUSPENDED"} : UpdateUser(status)) \/ DeleteAccount
    BY <2>5, AdminKeeps
  <2> QED
    BY <1>2, <2>1, <2>2, <2>3, <2>4, <2>5 DEF Next
<1> QED
  BY <1>1, <1>2

\* What the invariant says of the challenges.
LEMMA CodesImply == CodesInv => AuthInv /\ GuessesBounded /\ EmailProven
<1> SUFFICES ASSUME CodesInv PROVE AuthInv /\ GuessesBounded /\ EmailProven
  OBVIOUS
<1>1. DOMAIN challenge = 1..Len(challenge)
  BY TableFacts
<1>2. \A i \in DOMAIN challenge : challenge[i] \in Challenge /\ RowOK(challenge[i])
  BY <1>1, TableFacts
<1>3. OneOutcome
  BY <1>2 DEF OneOutcome, RowOK
<1>4. LockedIsFinal
  BY <1>2 DEF LockedIsFinal, RowOK, Challenge
<1>5. GuessesBounded
  BY <1>1 DEF CodesInv, GuessInv, GuessesBounded
<1> QED
  BY <1>3, <1>4, <1>5 DEF CodesInv, AuthInv

\* The inductive invariant of the codes.
LEMMA CodesAlways == Spec => []CodesInv
<1>1. Init => CodesInv
  BY CodesInit
<1>2. CodesInv /\ [Next]_vars => CodesInv'
  BY CodesStep
<1> QED
  BY <1>1, <1>2, PTL DEF Spec

\* A code has one outcome at most, and none once its challenge ran out of
\* attempts, for any number of requests that present it at the same time
\* (verifyOtp, verifyPasswordResetOtp, confirmPasswordReset, verifyEmailChange).
THEOREM AuthTheorem == Spec => []AuthInv
<1>1. CodesInv => AuthInv
  BY CodesImply
<1> QED
  BY <1>1, CodesAlways, PTL

\* Overlapping guesses exceed maxAttempts by the requests under way and the
\* crashes at most: recordInvalidOtpAttempt counts after the comparison.
THEOREM GuessesTheorem == Spec => []GuessesBounded
<1>1. CodesInv => GuessesBounded
  BY CodesImply
<1> QED
  BY <1>1, CodesAlways, PTL

\* The account's address is its first one or one whose code was presented
\* (verifyEmailChange), whatever changes were requested meanwhile.
THEOREM EmailTheorem == Spec => []EmailProven
<1>1. CodesInv => EmailProven
  BY CodesImply
<1> QED
  BY <1>1, CodesAlways, PTL

-----------------------------------------------------------------------------
(* Suspension.                                                              *)

OutcomesKept ==
    \A i \in 1..Len(challenge) : /\ i \in DOMAIN challenge'
                                 /\ challenge'[i].outcomes = challenge[i].outcomes

\* An update of one challenge that is no outcome of it.
LEMMA OutcomesOneRow ==
    ASSUME CodesInv, NEW i, NEW d, i \in 1..Len(challenge) => d.outcomes = challenge[i].outcomes,
           challenge' = [challenge EXCEPT ![i] = d]
    PROVE  OutcomesKept
BY TableFacts DEF OutcomesKept

\* A challenge consumed without an outcome.
LEMMA OutcomesConsumed ==
    ASSUME CodesInv, NEW i \in 1..Len(challenge), NEW good, good = FALSE,
           challenge' = [challenge EXCEPT ![i] = Consumed(@, good)]
    PROVE  OutcomesKept
<1> DEFINE d == [challenge[i] EXCEPT !.consumed = TRUE]
<1>1. challenge[i] \in Challenge
  BY TableFacts
<1>2. Consumed(challenge[i], good) = [challenge[i] EXCEPT !.consumed = TRUE,
                                                          !.outcomes = challenge[i].outcomes]
  BY DEF Consumed
<1>3. Consumed(challenge[i], good).outcomes = challenge[i].outcomes
  BY <1>1, <1>2 DEF Challenge
<1>4. challenge' = [challenge EXCEPT ![i] = Consumed(challenge[i], good)]
  OBVIOUS
<1> QED
  BY <1>3, <1>4, OutcomesOneRow

\* No code has an outcome while the account is suspended or deleted, save the
\* login that has consumed its own.
LEMMA NoOutcome ==
    ASSUME CodesInv, Next, user.status \in {"SUSPENDED", "DELETED"},
           \A r \in Requests : ~CreateSession(r)
    PROVE  OutcomesKept
<1>1. /\ Len(challenge) \in Nat /\ DOMAIN challenge = 1..Len(challenge)
      /\ \A i \in 1..Len(challenge) : challenge[i] \in Challenge
  BY TableFacts
<1>2. CASE UNCHANGED challenge
  BY <1>1, <1>2 DEF OutcomesKept
<1>3. ASSUME NEW p \in Purposes, NEW e \in Emails, Add(p, e) PROVE OutcomesKept
  <2>1. /\ RowsStep /\ Len(challenge') = Len(challenge) + 1
        /\ \A i \in 1..Len(challenge) : challenge'[i] = challenge[i]
    BY <1>3, NewRow
  <2>2. DOMAIN challenge' = 1..Len(challenge')
    BY <2>1, LenProperties DEF RowsStep, RowsInv
  <2> QED
    BY <1>1, <2>1, <2>2 DEF OutcomesKept
<1>4. ASSUME NEW r \in Requests, Sending(r) PROVE OutcomesKept
  <2>1. CASE UNCHANGED challenge
    BY <1>2, <2>1
  <2>2. CASE CreateUser(r)
    BY <1>2, <2>2 DEF CreateUser
  <2>3. CASE CreateChallenge(r) \/ CreateEmailChange(r)
    <3>1. request[r].purpose \in Purposes /\ request[r].email \in Emails
      BY <2>3 DEF CodesInv, RequestOK, CreateChallenge, CreateEmailChange, At
    <3>2. \/ challenge' = challenge \/ Add(request[r].purpose, request[r].email)
      BY <2>3 DEF CreateChallenge, CreateEmailChange
    <3> QED
      BY <1>2, <1>3, <3>1, <3>2
  <2> QED
    BY <1>4, <2>1, <2>2, <2>3
    DEF Sending, SignupWithPassword, SendOtp, RequestPasswordReset,
        SendPhoneVerification, RequestEmailChange, Send, Call
<1>5. ASSUME NEW r \in Requests, NEW p \in Purposes, NEW e \in Emails,
             NEW right \in BOOLEAN, Verify(r, p, e, right)
      PROVE  OutcomesKept
  <2> DEFINE i == Newest(Candidates(p, e))
             g == IF right THEN challenge[i].guesses ELSE challenge[i].guesses + 1
             d == [challenge[i] EXCEPT !.guesses = g]
  <2>1. /\ Candidates(p, e) # {}
        /\ challenge' = [challenge EXCEPT ![i].guesses = IF right THEN @ ELSE @ + 1]
    BY <1>5 DEF Verify
  <2>2. i \in 1..Len(challenge)
    BY <2>1, CandidateFacts
  <2> HIDE DEF i
  <2>3. challenge' = [challenge EXCEPT ![i] = d]
    BY <1>1, <2>1, <2>2
  <2> HIDE DEF g
  <2>4. d.outcomes = challenge[i].outcomes
    BY <1>1, <2>2 DEF Challenge
  <2> HIDE DEF d
  <2> QED
    BY <2>3, <2>4, OutcomesOneRow
<1>6. ASSUME NEW r \in Requests, RecordInvalidOtpAttempt(r) PROVE OutcomesKept
  <2> DEFINE i == request[r].id
             c == challenge[i]
             counts == /\ c.attempts < MaxAttempts /\ c.age # "expired"
                       /\ ~c.consumed /\ ~c.verified /\ ~c.locked /\ ~c.deleted
             d == IF counts THEN FailedAttempt(c) ELSE c
  <2>1. challenge' = [challenge EXCEPT ![i] = d]
    BY <1>6 DEF RecordInvalidOtpAttempt
  <2>2. i \in 1..Len(challenge) => d.outcomes = challenge[i].outcomes
    BY <1>1 DEF FailedAttempt, Challenge
  <2> HIDE DEF d
  <2> QED
    BY <2>1, <2>2, OutcomesOneRow
<1>7. ASSUME NEW r \in Requests, ConsumeLogin(r) PROVE OutcomesKept
  <2>1. /\ Consumes(r, "LOGIN")
        /\ challenge' = [challenge EXCEPT ![request[r].id] = Consumed(@, FALSE)]
    BY <1>7 DEF ConsumeLogin
  <2> QED
    BY <2>1, ConsumesFacts, OutcomesConsumed
<1>8. ASSUME NEW r \in Requests, ReadUserStatus(r) PROVE OutcomesKept
  <2>1. /\ Consumes(r, "VERIFY_EMAIL") \/ Consumes(r, "VERIFY_PHONE")
        /\ challenge' = [challenge EXCEPT ![request[r].id] = Consumed(@, FALSE)]
    BY <1>8 DEF ReadUserStatus
  <2> QED
    BY <2>1, ConsumesFacts, OutcomesConsumed
<1>9. ASSUME NEW r \in Requests, Activate(r) PROVE OutcomesKept
  <2>1. /\ request[r].step = "activate"
        /\ challenge' = [challenge EXCEPT ![request[r].id] = Consumed(@, SameStatus(r))]
    BY <1>9 DEF Activate, At
  <2>2. request[r].status \in {"PENDING", "ACTIVE"} /\ Holds(r)
    BY <2>1 DEF CodesInv, RequestOK, Holds
  <2>3. SameStatus(r) = FALSE
    BY <2>2 DEF SameStatus
  <2> HIDE DEF SameStatus
  <2> QED
    BY <2>1, <2>2, <2>3, HoldsFacts, OutcomesConsumed
<1>10. ASSUME NEW r \in Requests, IssueToken(r) PROVE OutcomesKept
  <2> DEFINE i == request[r].id
             d == [challenge[i] EXCEPT !.verified = TRUE]
  <2>1. challenge' = [challenge EXCEPT ![i].verified = TRUE] /\ Holds(r)
    BY <1>10 DEF IssueToken, At, Holds
  <2>2. i \in 1..Len(challenge)
    BY <2>1, HoldsFacts
  <2>3. challenge' = [challenge EXCEPT ![i] = d] /\ d.outcomes = challenge[i].outcomes
    BY <1>1, <2>1, <2>2 DEF Challenge
  <2> HIDE DEF d
  <2> QED
    BY <2>3, OutcomesOneRow
<1>11. ASSUME NEW r \in Requests, VerifyEmailChange(r) PROVE OutcomesKept
  <2> DEFINE good == user.status = "ACTIVE" /\ user.pendingEmail = request[r].email
  <2>1. /\ Consumes(r, "EMAIL_CHANGE")
        /\ challenge' = [challenge EXCEPT ![request[r].id] = Consumed(@, good)]
    BY <1>11 DEF VerifyEmailChange
  <2>2. good = FALSE
    OBVIOUS
  <2> HIDE DEF good
  <2> QED
    BY <2>1, <2>2, ConsumesFacts, OutcomesConsumed
<1>12. ASSUME NEW r \in Requests, Checking(r) PROVE OutcomesKept
  <2>1. CASE \E p \in Purposes, e \in Emails, right \in BOOLEAN : Verify(r, p, e, right)
    BY <1>5, <2>1
  <2>2. CASE ConsumeFails(r) \/ DeleteTokens(r)
    BY <1>2, <2>2 DEF ConsumeFails, DeleteTokens
  <2>3. CASE \E i \in Ids : ConfirmPasswordReset(r, i)
    BY <2>3 DEF ConfirmPasswordReset
  <2>4. CASE ResetPassword(r)
    BY <1>2, <2>4 DEF ResetPassword, EligibleUser
  <2> QED
    BY <1>6, <1>7, <1>8, <1>9, <1>10, <1>11, <1>12, <2>1, <2>2, <2>3, <2>4 DEF Checking
<1>13. ASSUME NEW r \in Requests, Linking(r) \/ Crash(r) PROVE OutcomesKept
  BY <1>2, <1>13 DEF Linking, LoginWithSocial, LinkSocialAccount, Crash, Call
<1>14. ASSUME NEW i \in Ids, PassTime(i) PROVE OutcomesKept
  <2> DEFINE a == IF challenge[i].age = "recent" THEN "valid" ELSE "expired"
             d == [challenge[i] EXCEPT !.age = a]
  <2>1. /\ i \in 1..Len(challenge)
        /\ challenge' = [challenge EXCEPT ![i].age = IF @ = "recent" THEN "valid" ELSE "expired"]
    BY <1>1, <1>14 DEF PassTime
  <2>2. challenge' = [challenge EXCEPT ![i] = d]
    BY <1>1, <2>1
  <2> HIDE DEF a
  <2>3. d.outcomes = challenge[i].outcomes
    BY <1>1, <2>1 DEF Challenge
  <2> HIDE DEF d
  <2> QED
    BY <2>2, <2>3, OutcomesOneRow
<1>15. ASSUME NEW i \in Ids, PurgeChallenge(i) PROVE OutcomesKept
  <2> DEFINE d == [challenge[i] EXCEPT !.deleted = TRUE]
  <2>1. /\ i \in 1..Len(challenge)
        /\ challenge' = [challenge EXCEPT ![i].deleted = TRUE]
    BY <1>1, <1>15 DEF PurgeChallenge
  <2>2. challenge' = [challenge EXCEPT ![i] = d] /\ d.outcomes = challenge[i].outcomes
    BY <1>1, <2>1 DEF Challenge
  <2> HIDE DEF d
  <2> QED
    BY <2>2, OutcomesOneRow
<1>16. ASSUME NEW i \in Ids, TokenExpires(i) PROVE OutcomesKept
  BY <1>2, <1>16 DEF TokenExpires
<1>17. ~DeleteAccount
  BY DEF DeleteAccount
<1>18. ASSUME NEW status \in {"ACTIVE", "SUSPENDED"}, UpdateUser(status) PROVE OutcomesKept
  BY <1>2, <1>18 DEF UpdateUser
<1> QED
  BY <1>4, <1>12, <1>13, <1>14, <1>15, <1>16, <1>17, <1>18 DEF Next

\* Only an administrator or a social login activates a suspended account.
LEMMA WhoActivates ==
    ASSUME CodesInv, Next, user.status = "SUSPENDED", user'.status = "ACTIVE"
    PROVE  UpdateUser("ACTIVE") \/ \E r \in Requests : LinkSocialAccount(r)
<1>1. user \in User /\ user' # user
  BY DEF CodesInv, TypeOK
<1>2. ASSUME NEW r \in Requests PROVE ~Sending(r)
  <2>1. ~CreateUser(r) /\ ~CreateChallenge(r)
    BY <1>1 DEF CreateUser, CreateChallenge
  <2>2. ~CreateEmailChange(r)
    <3> SUFFICES ASSUME CreateEmailChange(r) PROVE FALSE
      OBVIOUS
    <3>1. user' = [user EXCEPT !.pendingEmail = request[r].email]
      BY DEF CreateEmailChange
    <3>2. user'.status = user.status
      BY <1>1, <3>1 DEF User
    <3> QED
      BY <3>2
  <2> QED
    BY <1>1, <2>1, <2>2 DEF Sending, SignupWithPassword, SendOtp, RequestPasswordReset,
        SendPhoneVerification, RequestEmailChange, Send, Call
<1>3. ASSUME NEW r \in Requests PROVE ~Checking(r)
  <2>1. ~Activate(r)
    <3> SUFFICES ASSUME Activate(r) PROVE FALSE
      OBVIOUS
    <3>1. request[r].status \in {"PENDING", "ACTIVE"}
      BY DEF CodesInv, RequestOK, Activate, At
    <3> QED
      BY <1>1, <3>1 DEF Activate, SameStatus
  <2>2. ~VerifyEmailChange(r)
    BY <1>1 DEF VerifyEmailChange
  <2>3. ~RecordInvalidOtpAttempt(r) /\ ~ConsumeFails(r) /\ ~ConsumeLogin(r)
        /\ ~CreateSession(r) /\ ~ReadUserStatus(r) /\ ~DeleteTokens(r) /\ ~IssueToken(r) /\ ~ResetPassword(r)
    BY <1>1 DEF RecordInvalidOtpAttempt, ConsumeFails, ConsumeLogin, CreateSession,
                ReadUserStatus, DeleteTokens, IssueToken, ResetPassword
  <2>4. \A p, e, right : ~Verify(r, p, e, right)
    BY <1>1 DEF Verify
  <2>5. \A i : ~ConfirmPasswordReset(r, i)
    BY DEF ConfirmPasswordReset
  <2> QED
    BY <2>1, <2>2, <2>3, <2>4, <2>5 DEF Checking
<1>4. ASSUME NEW r \in Requests PROVE ~LoginWithSocial(r) /\ ~Crash(r)
  BY <1>1 DEF LoginWithSocial, Crash
<1>5. ASSUME NEW i \in Ids PROVE ~PassTime(i) /\ ~TokenExpires(i) /\ ~PurgeChallenge(i)
  BY <1>1 DEF PassTime, TokenExpires, PurgeChallenge
<1>6. ~DeleteAccount /\ ~UpdateUser("SUSPENDED")
  BY DEF DeleteAccount, UpdateUser
<1> QED
  BY <1>2, <1>3, <1>4, <1>5, <1>6 DEF Next, Linking

\* The session of a login in a suspended account is an outcome of its own code;
\* in a deleted one there is none.
LEMMA SessionOutcome ==
    ASSUME CodesInv, NEW r \in Requests, CreateSession(r)
    PROVE  /\ request[r].step = "session"
           /\ user.status = "DELETED" => OutcomesKept
           /\ \A i \in 1..Len(challenge) :
                 i # request[r].id => /\ i \in DOMAIN challenge'
                                      /\ challenge'[i].outcomes = challenge[i].outcomes
<1> DEFINE good == user.status # "DELETED"
<1>1. /\ request[r].step = "session"
      /\ challenge' = [challenge EXCEPT ![request[r].id] = Consumed(@, good)]
  BY DEF CreateSession, At
<1>2. request[r].id \in 1..Len(challenge)
  BY <1>1, HoldsFacts DEF Holds
<1>3. user.status = "DELETED" => good = FALSE
  OBVIOUS
<1> HIDE DEF good
<1>4. user.status = "DELETED" => OutcomesKept
  BY <1>1, <1>2, <1>3, OutcomesConsumed
<1> QED
  BY <1>1, <1>4, TableFacts

\* While the account is suspended or deleted nobody comes as far as a session.
LEMMA NobodyPasses ==
    ASSUME CodesInv, Next, user.status \in {"SUSPENDED", "DELETED"},
           NEW q \in Requests, request'[q].step = "session"
    PROVE  request'[q] = request[q]
<1>1. request \in [Requests -> Request]
  BY DEF CodesInv, TypeOK
<1>2. ASSUME NEW r \in Requests, End(r) PROVE request'[q] = request[q]
  BY <1>1, <1>2, EndFacts
<1>3. ASSUME NEW r \in Requests, NEW v, request' = [request EXCEPT ![r] = v],
             v.step # "session"
      PROVE  request'[q] = request[q]
  BY <1>1, <1>3
<1>4. ASSUME NEW r \in Requests, Sending(r) PROVE request'[q] = request[q]
  <2>1. CASE CreateUser(r) \/ CreateChallenge(r) \/ CreateEmailChange(r)
    BY <1>2, <2>1 DEF CreateUser, CreateChallenge, CreateEmailChange
  <2>2. CASE SignupWithPassword(r) \/ \E e \in Emails : RequestEmailChange(r, e)
    BY <2>2 DEF SignupWithPassword, RequestEmailChange
  <2>3. CASE RequestPasswordReset(r) \/ SendPhoneVerification(r)
    BY <2>3 DEF RequestPasswordReset, SendPhoneVerification
  <2>4. ASSUME NEW p \in Purposes, SendOtp(r, p) PROVE FALSE
    BY <2>4 DEF SendOtp, RequiredOtpUserStatus
  <2> QED
    BY <1>4, <2>1, <2>2, <2>3, <2>4 DEF Sending
<1>5. ASSUME NEW r \in Requests, Checking(r) PROVE request'[q] = request[q]
  <2>1. ASSUME NEW p \in Purposes, NEW e \in Emails, NEW right \in BOOLEAN,
               Verify(r, p, e, right)
        PROVE  request'[q] = request[q]
    <3> DEFINE v == [Idle EXCEPT !.step = IF right THEN "consume" ELSE "record",
                                 !.purpose = p, !.email = e,
                                 !.id = Newest(Candidates(p, e))]
    <3>1. request' = [request EXCEPT ![r] = v]
      BY <2>1 DEF Verify
    <3>2. v.step # "session"
      BY DEF Idle
    <3> HIDE DEF v
    <3> QED
      BY <1>3, <3>1, <3>2
  <2>2. CASE RecordInvalidOtpAttempt(r) \/ ConsumeFails(r) \/ ConsumeLogin(r)
             \/ CreateSession(r) \/ Activate(r) \/ IssueToken(r) \/ ResetPassword(r)
             \/ VerifyEmailChange(r)
    BY <1>2, <2>2 DEF RecordInvalidOtpAttempt, ConsumeFails, ConsumeLogin, CreateSession,
                      Activate, IssueToken, ResetPassword, VerifyEmailChange
  <2>3. CASE ReadUserStatus(r)
    BY <1>2, <2>3 DEF ReadUserStatus
  <2>4. CASE DeleteTokens(r)
    <3> DEFINE l == {i \in Ids : token[i] \in {"live", "expired"}}
               v == [request[r] EXCEPT !.step = "issue", !.list = l]
    <3>1. request' = [request EXCEPT ![r].step = "issue", ![r].list = l]
      BY <2>4 DEF DeleteTokens
    <3> HIDE DEF l
    <3>2. request' = [request EXCEPT ![r] = v] /\ v.step = "issue"
      BY <1>1, <3>1 DEF Request
    <3> HIDE DEF v
    <3> QED
      BY <1>3, <3>2
  <2>5. ASSUME NEW i \in Ids PROVE ~ConfirmPasswordReset(r, i)
    BY DEF ConfirmPasswordReset
  <2> QED
    BY <1>5, <2>1, <2>2, <2>3, <2>4, <2>5 DEF Checking
<1>6. ASSUME NEW r \in Requests, Linking(r) \/ Crash(r) PROVE request'[q] = request[q]
  BY <1>2, <1>6 DEF Linking, LoginWithSocial, LinkSocialAccount, Crash
<1>7. ASSUME NEW i \in Ids, PassTime(i) \/ TokenExpires(i) \/ PurgeChallenge(i)
      PROVE  request'[q] = request[q]
  BY <1>7 DEF PassTime, TokenExpires, PurgeChallenge
<1>8. ASSUME NEW status \in {"ACTIVE", "SUSPENDED"}, UpdateUser(status)
      PROVE  request'[q] = request[q]
  BY <1>8 DEF UpdateUser
<1>9. ~DeleteAccount
  BY DEF DeleteAccount
<1> QED
  BY <1>4, <1>5, <1>6, <1>7, <1>8, <1>9 DEF Next

\* A suspension or deletion that comes between the check of a code and the
\* transaction that consumes it still prevails (verificationTransition, the
\* conditions of the updates), and no code lifts it; only a login whose code was
\* consumed before the suspension still gets its session (createSession).
THEOREM SuspensionTheorem == Spec => SuspensionHolds
<1> DEFINE A == /\ user.status \in {"SUSPENDED", "DELETED"} =>
                     /\ \A i \in DOMAIN challenge :
                           \/ Outcomes'[i] = Outcomes[i]
                           \/ /\ user.status = "SUSPENDED"
                              /\ \E r \in Requests : At(r, "session") /\ request[r].id = i
                     /\ \A r \in Requests :
                           request'[r].step = "session" =>
                               At(r, "session") /\ request'[r].id = request[r].id
                /\ user.status = "SUSPENDED" /\ user'.status = "ACTIVE" =>
                     UpdateUser("ACTIVE") \/ \E r \in Requests : LinkSocialAccount(r)
<1>1. CodesInv /\ [Next]_vars => [A]_vars
  <2> SUFFICES ASSUME CodesInv, Next PROVE A
    OBVIOUS
  <2>1. ASSUME user.status \in {"SUSPENDED", "DELETED"}, NEW i \in DOMAIN challenge,
               ~(user.status = "SUSPENDED"
                   /\ \E r \in Requests : At(r, "session") /\ request[r].id = i)
        PROVE  Outcomes'[i] = Outcomes[i]
    <3>1. i \in 1..Len(challenge)
      BY TableFacts
    <3>2. CASE \A r \in Requests : ~CreateSession(r)
      <4>1. OutcomesKept
        BY <2>1, <3>2, NoOutcome
      <4> QED
        BY <3>1, <4>1 DEF Outcomes, OutcomesKept
    <3>3. ASSUME NEW r \in Requests, CreateSession(r) PROVE Outcomes'[i] = Outcomes[i]
      <4>1. i \in DOMAIN challenge' /\ challenge'[i].outcomes = challenge[i].outcomes
        BY <2>1, <3>1, <3>3, SessionOutcome DEF At, OutcomesKept
      <4> QED
        BY <4>1 DEF Outcomes
    <3> QED
      BY <3>2, <3>3
  <2>2. ASSUME user.status \in {"SUSPENDED", "DELETED"}, NEW r \in Requests,
               request'[r].step = "session"
        PROVE  At(r, "session") /\ request'[r].id = request[r].id
    <3>1. request'[r] = request[r]
      BY <2>2, NobodyPasses
    <3> QED
      BY <2>2, <3>1 DEF At
  <2>3. user.status = "SUSPENDED" /\ user'.status = "ACTIVE" =>
            UpdateUser("ACTIVE") \/ \E r \in Requests : LinkSocialAccount(r)
    BY WhoActivates
  <2> QED
    BY <2>1, <2>2, <2>3
<1>2. Spec => [][A]_vars
  <2> HIDE DEF A
  <2> QED
    BY <1>1, CodesAlways, PTL DEF Spec
<1> QED
  BY <1>2 DEF SuspensionHolds

=============================================================================
