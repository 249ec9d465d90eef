------------------------------- MODULE Sessions -------------------------------
(***************************************************************************)
(* The sessions of one user of the dashboard (dashboard-auth.service.ts):  *)
(* login, rotating refresh tokens in families, logout, and the links sent  *)
(* by e-mail to verify an address and to set a new password.               *)
(*                                                                         *)
(* Every call reads, awaits a hash or a signature, and writes by id.       *)
(***************************************************************************)
EXTENDS Integers, FiniteSets

CONSTANTS
    Session,      \* ids of UserRefreshToken rows
    Link,         \* ids of EmailToken rows
    SessionCall   \* requests in flight

ASSUME SessionsAssumption == IsFiniteSet(SessionCall) /\ SessionCall # {}

VARIABLES
    session,      \* Session -> the row; fam: the family is named by its first row
    link,         \* Link -> the row
    era,          \* how often the password has been set anew
    verified,     \* emailVerifiedAt is set
    sessionCall   \* SessionCall -> what it is doing and what it has seen

sessionVars == <<session, link, era, verified, sessionCall>>
-----------------------------------------------------------------------------
Quiet == [at |-> "idle"]

\* since: the era in which the call that wrote the row began.
SessionRow == [there : BOOLEAN, used : BOOLEAN, revoked : BOOLEAN, expired : BOOLEAN,
               fam : Session, since : Nat]

SessionDoing ==
    {Quiet}
    \union [at : {"login"}, since : Nat]
    \union [at : {"use", "issue"}, s : Session, since : Nat]
    \union [at : {"verify", "reset"}, m : Link, since : Nat]

SessionsTypeOK ==
    /\ session \in [Session -> SessionRow]
    /\ link \in [Link -> [purpose : {"none", "verify", "reset"}, consumed : BOOLEAN,
                          expired : BOOLEAN]]
    /\ era \in Nat /\ verified \in BOOLEAN
    /\ sessionCall \in [SessionCall -> SessionDoing]

\* The user has just registered and the verification link is out, or came by an
\* invitation, which verifies the address.
SessionsInit ==
    /\ session = [s \in Session |-> [there |-> FALSE, used |-> FALSE, revoked |-> FALSE,
                                     expired |-> FALSE, fam |-> s, since |-> 0]]
    /\ verified \in BOOLEAN
    /\ LET m == CHOOSE m \in Link : TRUE IN
       link = [n \in Link |-> [purpose |-> IF n = m /\ ~ verified THEN "verify" ELSE "none",
                               consumed |-> FALSE, expired |-> FALSE]]
    /\ era = 0
    /\ sessionCall = [k \in SessionCall |-> Quiet]
-----------------------------------------------------------------------------
SessionBegin(k, what) ==
    sessionCall[k] = Quiet /\ sessionCall' = [sessionCall EXCEPT ![k] = what]
SessionReply(k) == sessionCall' = [sessionCall EXCEPT ![k] = Quiet]

Usable(s) ==
    session[s].there /\ ~ session[s].used /\ ~ session[s].revoked /\ ~ session[s].expired

\* The hash that was read is compared with the password; a wrong one is a 401.
Login(k) ==
    /\ SessionBegin(k, [at |-> "login", since |-> era])
    /\ UNCHANGED <<session, link, era, verified>>

\* A usable token goes on; one that was used before ends its family.
RefreshSession(k, s) ==
    \/ /\ Usable(s)
       /\ SessionBegin(k, [at |-> "use", s |-> s, since |-> era])
       /\ UNCHANGED <<session, link, era, verified>>
    \/ /\ session[s].used /\ ~ session[s].revoked /\ ~ session[s].expired
       /\ session' = [t \in Session |->
            IF session[t].there /\ session[t].fam = session[s].fam
            THEN [session[t] EXCEPT !.revoked = TRUE] ELSE session[t]]
       /\ UNCHANGED <<link, era, verified, sessionCall>>

\* Marked by id, whatever became of the row since it was read.
UseSession(k) ==
    /\ sessionCall[k].at = "use"
    /\ session' = [session EXCEPT ![sessionCall[k].s].used = TRUE]
    /\ sessionCall' = [sessionCall EXCEPT ![k].at = "issue"]
    /\ UNCHANGED <<link, era, verified>>

\* issueTokens: a login opens a family, a refresh stays in its own.
IssueSession(k, s) ==
    /\ sessionCall[k].at \in {"login", "issue"} /\ ~ session[s].there
    /\ session' = [session EXCEPT ![s] =
         [there |-> TRUE, used |-> FALSE, revoked |-> FALSE, expired |-> FALSE,
          fam |-> IF sessionCall[k].at = "login" THEN s
                  ELSE session[sessionCall[k].s].fam,
          since |-> sessionCall[k].since]]
    /\ SessionReply(k)
    /\ UNCHANGED <<link, era, verified>>

\* logout: whatever the row says.
LogoutOne(s) ==
    /\ session[s].there
    /\ session' = [session EXCEPT ![s].revoked = TRUE]
    /\ UNCHANGED <<link, era, verified, sessionCall>>

\* Variant: as if one session were forgotten.
SomeRevoked ==
    [s \in Session |-> IF session[s].there /\ s # CHOOSE t \in Session : TRUE
                       THEN [session[s] EXCEPT !.revoked = TRUE] ELSE session[s]]

AllRevoked ==
    [s \in Session |-> IF session[s].there THEN [session[s] EXCEPT !.revoked = TRUE]
                       ELSE session[s]]

LogoutAll ==
    /\ session' = AllRevoked
    /\ UNCHANGED <<link, era, verified, sessionCall>>

Forgot(m) ==
    /\ link[m].purpose = "none"
    /\ link' = [link EXCEPT ![m].purpose = "reset"]
    /\ UNCHANGED <<session, era, verified, sessionCall>>

\* verifyEmail and reset read the link first.
OpenLink(k, m) ==
    /\ link[m].purpose # "none" /\ ~ link[m].consumed /\ ~ link[m].expired
    /\ SessionBegin(k, [at |-> link[m].purpose, m |-> m, since |-> era])
    /\ UNCHANGED <<session, link, era, verified>>

VerifyEmail(k) ==
    /\ sessionCall[k].at = "verify"
    /\ link' = [link EXCEPT ![sessionCall[k].m].consumed = TRUE]
    /\ verified' = TRUE
    /\ SessionReply(k)
    /\ UNCHANGED <<session, era>>

\* One transaction; that the link is unused is not checked again.
Reset(k) ==
    /\ sessionCall[k].at = "reset"
    /\ link' = [link EXCEPT ![sessionCall[k].m].consumed = TRUE]
    /\ era' = era + 1
    /\ session' = AllRevoked
    /\ SessionReply(k)
    /\ UNCHANGED verified

SessionExpires(s) ==
    /\ session[s].there /\ ~ session[s].expired
    /\ session' = [session EXCEPT ![s].expired = TRUE]
    /\ UNCHANGED <<link, era, verified, sessionCall>>

LinkExpires(m) ==
    /\ link[m].purpose # "none" /\ ~ link[m].expired
    /\ link' = [link EXCEPT ![m].expired = TRUE]
    /\ UNCHANGED <<session, era, verified, sessionCall>>
-----------------------------------------------------------------------------
SessionsNext ==
    \/ \E k \in SessionCall :
         \/ Login(k) \/ UseSession(k) \/ VerifyEmail(k) \/ Reset(k)
         \/ \E s \in Session : RefreshSession(k, s) \/ IssueSession(k, s)
         \/ \E m \in Link : OpenLink(k, m)
    \/ \E s \in Session : LogoutOne(s) \/ SessionExpires(s)
    \/ LogoutAll
    \/ \E m \in Link : Forgot(m) \/ LinkExpires(m)

SessionsSpec == SessionsInit /\ [][SessionsNext]_sessionVars
-----------------------------------------------------------------------------
(* A new password ends every session (dashboard-auth.service.ts:517) but those
   that a login or a refresh in flight opens afterwards: of these there are fewer
   than requests in flight, and nothing ends them. *)
Outlived == {s \in Session : Usable(s) /\ session[s].since < era}
Overtaken == {k \in SessionCall : sessionCall[k].at \in {"login", "use", "issue"}
                                   /\ sessionCall[k].since < era}

ResetEndsSessions ==
    Cardinality(Outlived) + Cardinality(Overtaken) < Cardinality(SessionCall)
=============================================================================
