------------------------------ MODULE WorkerAuth ------------------------------
(***************************************************************************)
(* How a worker signs in (auth.service.ts): a code sent to a phone, its    *)
(* verification, the shell account a sign-up creates and its completion,   *)
(* and refresh tokens, each of which may be used once.                     *)
(*                                                                         *)
(* A call reads a row, awaits a hash, and writes: calls with one code or   *)
(* one token overlap.  Access tokens are signed and leave no state.        *)
(***************************************************************************)
EXTENDS Integers, FiniteSets

CONSTANTS
    Phone,
    Challenge,    \* rows of OtpChallenge
    Token,        \* rows of RefreshToken
    Call,         \* requests in flight
    MaxRecent,    \* codes a phone may ask for in fifteen minutes
    MaxTries      \* otp.maxAttempts

ASSUME AuthAssumption ==
    Phone # {} /\ IsFiniteSet(Call) /\ Call # {} /\ MaxTries \in Nat

VARIABLES
    worker,       \* Phone -> its account: none, a shell, or set up
    chal,         \* Challenge -> its row
    entered,      \* Challenge -> how many calls it let in
    token,        \* Token -> its row
    call          \* Call -> what it is doing and what it has seen

authVars == <<worker, chal, entered, token, call>>
-----------------------------------------------------------------------------
Free == [at |-> "idle"]

ChallengeRow ==
    [of : Phone, flow : {"login", "signup"}, tries : Nat, consumed : BOOLEAN,
     \* younger than its five minutes, than fifteen, or older
     age : {"none", "valid", "expired", "past"}]

TokenRow == [of : Phone, st : {"none", "live", "used", "deleted"}, expired : BOOLEAN]

Calling ==
    {Free}
    \union [at : {"asked"}, p : Phone, flow : {"login", "signup"}]
    \union [at : {"compared"}, c : Challenge, right : BOOLEAN]
    \union [at : {"consumed"}, c : Challenge]
    \union [at : {"issue", "setup"}, p : Phone]
    \union [at : {"rotate"}, t : Token]

AuthTypeOK ==
    /\ worker \in [Phone -> {"none", "shell", "ready"}]
    /\ chal \in [Challenge -> ChallengeRow]
    /\ entered \in [Challenge -> Nat]
    /\ token \in [Token -> TokenRow]
    /\ call \in [Call -> Calling]

AuthInit ==
    /\ worker \in [Phone -> {"none", "ready"}]
    /\ LET p == CHOOSE p \in Phone : TRUE IN
       /\ chal = [c \in Challenge |-> [of |-> p, flow |-> "login", tries |-> 0,
                                       consumed |-> FALSE, age |-> "none"]]
       /\ token = [t \in Token |-> [of |-> p, st |-> "none", expired |-> FALSE]]
    /\ entered = [c \in Challenge |-> 0]
    /\ call = [k \in Call |-> Free]
-----------------------------------------------------------------------------
Answer(k) == call' = [call EXCEPT ![k] = Free]
BeginCall(k, what) == call[k].at = "idle" /\ call' = [call EXCEPT ![k] = what]
Next(k, what) == call' = [call EXCEPT ![k] = what]

Recent(p) == {c \in Challenge : chal[c].of = p /\ chal[c].age \in {"valid", "expired"}}

\* requestOtp: the account fits the flow and the phone has not asked too often.
AskCode(k, p, flow) ==
    /\ worker[p] = "none" <=> flow = "signup"
    /\ Cardinality(Recent(p)) < MaxRecent
    /\ BeginCall(k, [at |-> "asked", p |-> p, flow |-> flow])
    /\ UNCHANGED <<worker, chal, entered, token>>

\* The code is hashed and a channel chosen before the row is written; what the
\* channel does with the code does not decide the answer (module Messaging).
\* A push asked for without a device answers 422 and leaves no row.
WriteChallenge(k, c) ==
    /\ call[k].at = "asked"
    /\ \/ /\ chal[c].age = "none"
          /\ chal' = [chal EXCEPT ![c] = [of |-> call[k].p, flow |-> call[k].flow,
                                          tries |-> 0, consumed |-> FALSE,
                                          age |-> "valid"]]
       \/ UNCHANGED chal
    /\ Answer(k)
    /\ UNCHANGED <<worker, entered, token>>

\* Variant: as if the wrong tries of a code were not counted against it.
CompareUncounted(k, c, right) ==
    /\ ~ chal[c].consumed /\ chal[c].age = "valid"
    /\ BeginCall(k, [at |-> "compared", c |-> c, right |-> right])
    /\ UNCHANGED <<worker, chal, entered, token>>

\* verifyOtp reads the row and then compares the code, which takes a while.
Compare(k, c, right) ==
    /\ ~ chal[c].consumed /\ chal[c].age = "valid" /\ chal[c].tries < MaxTries
    /\ BeginCall(k, [at |-> "compared", c |-> c, right |-> right])
    /\ UNCHANGED <<worker, chal, entered, token>>

WrongCode(k) ==
    /\ call[k].at = "compared" /\ ~ call[k].right
    /\ chal' = [chal EXCEPT ![call[k].c].tries = @ + 1]
    /\ Answer(k)
    /\ UNCHANGED <<worker, entered, token>>

RightCode(k) ==
    /\ call[k].at = "compared" /\ call[k].right
    /\ chal' = [chal EXCEPT ![call[k].c].consumed = TRUE]
    /\ Next(k, [at |-> "consumed", c |-> call[k].c])
    /\ UNCHANGED <<worker, entered, token>>

\* A login finds its account; a sign-up creates a shell, unless the phone has an
\* account by now: the column is unique and the call fails.
Enter(k) ==
    /\ call[k].at = "consumed"
    /\ LET c == call[k].c
           p == chal[c].of IN
       IF (chal[c].flow = "signup") = (worker[p] = "none")
       THEN /\ worker' = [worker EXCEPT ![p] = IF @ = "none" THEN "shell" ELSE @]
            /\ entered' = [entered EXCEPT ![c] = @ + 1]
            /\ Next(k, [at |-> "issue", p |-> p])
       ELSE Answer(k) /\ UNCHANGED <<worker, entered>>
    /\ UNCHANGED <<chal, token>>

\* issueTokenPair; the device that verified is then registered (module Messaging).
Issue(k, t) ==
    /\ call[k].at = "issue" /\ token[t].st = "none"
    /\ token' = [token EXCEPT ![t] = [of |-> call[k].p, st |-> "live", expired |-> FALSE]]
    /\ Answer(k)
    /\ UNCHANGED <<worker, chal, entered>>

\* profileSetup: 409 when the profile is there already, as it was read.
OpenProfile(k, p) ==
    /\ worker[p] = "shell"
    /\ BeginCall(k, [at |-> "setup", p |-> p])
    /\ UNCHANGED <<worker, chal, entered, token>>

SetUp(k) ==
    /\ call[k].at = "setup"
    /\ \/ worker' = [worker EXCEPT ![call[k].p] = "ready"]
       \/ UNCHANGED worker                      \* the photo is not there: 422
    /\ Answer(k)
    /\ UNCHANGED <<chal, entered, token>>

\* refresh: a used token is taken for a reuse, and all tokens of the worker go.
Refresh(k, t) ==
    \/ /\ token[t].st = "live" /\ ~ token[t].expired
       /\ BeginCall(k, [at |-> "rotate", t |-> t])
       /\ UNCHANGED <<worker, chal, entered, token>>
    \/ /\ token[t].st = "used" /\ call[k].at = "idle"
       /\ token' = [u \in Token |->
             IF token[u].of = token[t].of /\ token[u].st # "none"
             THEN [token[u] EXCEPT !.st = "deleted"] ELSE token[u]]
       /\ UNCHANGED <<worker, chal, entered, call>>

\* The update fails when the row was deleted meanwhile.
Rotate(k) ==
    /\ call[k].at = "rotate"
    /\ LET t == call[k].t IN
       IF token[t].st = "deleted"
       THEN Answer(k) /\ UNCHANGED token
       ELSE /\ token' = [token EXCEPT ![t].st = "used"]
            /\ Next(k, [at |-> "issue", p |-> token[t].of])
    /\ UNCHANGED <<worker, chal, entered>>

Logout(t) ==
    /\ token[t].st = "live"
    /\ token' = [token EXCEPT ![t].st = "used"]
    /\ UNCHANGED <<worker, chal, entered, call>>

Age(c) ==
    /\ chal[c].age \in {"valid", "expired"}
    /\ chal' = [chal EXCEPT ![c].age = IF @ = "valid" THEN "expired" ELSE "past"]
    /\ UNCHANGED <<worker, entered, token, call>>

Expire(t) ==
    /\ token[t].st = "live" /\ ~ token[t].expired
    /\ token' = [token EXCEPT ![t].expired = TRUE]
    /\ UNCHANGED <<worker, chal, entered, call>>
-----------------------------------------------------------------------------
AuthCall(k) ==
    \/ \E p \in Phone, flow \in {"login", "signup"} : AskCode(k, p, flow)
    \/ \E c \in Challenge : WriteChallenge(k, c)
    \/ \E c \in Challenge, right \in BOOLEAN : Compare(k, c, right)
    \/ WrongCode(k) \/ RightCode(k) \/ Enter(k) \/ SetUp(k) \/ Rotate(k)
    \/ \E p \in Phone : OpenProfile(k, p)
    \/ \E t \in Token : Issue(k, t) \/ Refresh(k, t)

AuthNext ==
    \/ \E k \in Call : AuthCall(k)
    \/ \E t \in Token : Logout(t) \/ Expire(t)
    \/ \E c \in Challenge : Age(c)

AuthSpec == AuthInit /\ [][AuthNext]_authVars
-----------------------------------------------------------------------------
Comparing(c) == {k \in Call : call[k].at = "compared" /\ call[k].c = c}
Consumed(c) == {k \in Call : call[k].at = "consumed" /\ call[k].c = c}

(* The attempts of a code are counted after the comparison, so calls may overrun
   the limit (auth.service.ts:177), by no more than were comparing when the last
   attempt was counted; one code lets in no more calls than were in flight when it
   was first accepted, and a sign-up lets in one. *)
CodeLimits ==
    \A c \in Challenge :
        /\ chal[c].tries < MaxTries + Cardinality(Call)
        /\ entered[c] <= Cardinality(Call)
        /\ chal[c].flow = "signup" => entered[c] <= 1
=============================================================================
