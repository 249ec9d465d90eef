--------------------------- MODULE DashboardProofs ---------------------------
(***************************************************************************)
(* Theorems about the dashboard of a business: the sessions of its users,  *)
(* its team, its settings, the pushes of its jobs, the reminders of their  *)
(* shifts, its nightly score and the hints that keep its pages current,    *)
(* for any users, requests, invitations, workers, employers and handlers.  *)
(***************************************************************************)
EXTENDS Sessions, Team, Settings, Feed, Reminders, Recalc, Stream, FiniteSetTheorems, TLAPS

(***************************************************************************)
(* Sessions: types.                                                        *)
(***************************************************************************)

\* What a request of a user holds, by what it is about to do.
LEMMA SessionDoingFields ==
  ASSUME NEW c \in SessionDoing
  PROVE  /\ c.at \in {"use", "issue"} => c.s \in Session
         /\ c.at \in {"verify", "reset"} => c.m \in Link
         /\ c.at \in {"login", "use", "issue"} => c.since \in Nat
  BY DEF SessionDoing, Quiet

LEMMA SessionDoingMakes ==
  /\ Quiet \in SessionDoing
  /\ \A n \in Nat : [at |-> "login", since |-> n] \in SessionDoing
  /\ \A n \in Nat, s \in Session : [at |-> "use", s |-> s, since |-> n] \in SessionDoing
  /\ \A n \in Nat, m \in Link, what \in {"verify", "reset"} :
        [at |-> what, m |-> m, since |-> n] \in SessionDoing
  /\ \A c \in SessionDoing : c.at = "use" =>
        /\ [c EXCEPT !.at = "issue"] \in SessionDoing
        /\ [c EXCEPT !.at = "issue"].at = "issue"
        /\ [c EXCEPT !.at = "issue"].since = c.since
  BY DEF SessionDoing, Quiet

\* A row that is used, revoked or expired keeps the rest.
LEMMA SessionRowMakes ==
  ASSUME NEW row \in SessionRow
  PROVE  /\ [row EXCEPT !.used = TRUE] \in SessionRow
         /\ [row EXCEPT !.revoked = TRUE] \in SessionRow
         /\ [row EXCEPT !.expired = TRUE] \in SessionRow
  BY DEF SessionRow

SessionLinks == [purpose : {"none", "verify", "reset"}, consumed : BOOLEAN, expired : BOOLEAN]

LEMMA SessionLinkMakes ==
  ASSUME NEW row \in SessionLinks
  PROVE  /\ [row EXCEPT !.consumed = TRUE] \in SessionLinks
         /\ [row EXCEPT !.expired = TRUE] \in SessionLinks
         /\ [row EXCEPT !.purpose = "reset"] \in SessionLinks
  BY DEF SessionLinks

LEMMA SessionsTypeInit == SessionsInit => SessionsTypeOK
  BY SessionDoingMakes DEF SessionsInit, SessionsTypeOK, SessionRow

LEMMA AllRevokedType == SessionsTypeOK => AllRevoked \in [Session -> SessionRow]
  BY SessionRowMakes DEF SessionsTypeOK, AllRevoked

LEMMA SessionsTypeStep ==
  ASSUME SessionsTypeOK, [SessionsNext]_sessionVars
  PROVE  SessionsTypeOK'
<1> USE DEF SessionsTypeOK
<1>0. link \in [Link -> SessionLinks]
  BY DEF SessionLinks
<1>1. ASSUME NEW k \in SessionCall, Login(k) PROVE SessionsTypeOK'
  BY <1>1, SessionDoingMakes DEF Login, SessionBegin
<1>2. ASSUME NEW k \in SessionCall, UseSession(k) PROVE SessionsTypeOK'
  BY <1>2, SessionDoingMakes, SessionDoingFields, SessionRowMakes DEF UseSession
<1>3. ASSUME NEW k \in SessionCall, VerifyEmail(k) PROVE SessionsTypeOK'
  <2>1. sessionCall[k].m \in Link
    BY <1>3, SessionDoingFields DEF VerifyEmail
  <2>2. link' \in [Link -> SessionLinks]
    BY <1>0, <1>3, <2>1, SessionLinkMakes DEF VerifyEmail
  <2>3. sessionCall' \in [SessionCall -> SessionDoing]
    BY <1>3, SessionDoingMakes DEF VerifyEmail, SessionReply
  <2> QED
    BY <1>3, <2>2, <2>3 DEF VerifyEmail, SessionLinks
<1>4. ASSUME NEW k \in SessionCall, Reset(k) PROVE SessionsTypeOK'
  <2>1. sessionCall[k].m \in Link
    BY <1>4, SessionDoingFields DEF Reset
  <2>2. link' \in [Link -> SessionLinks]
    BY <1>0, <1>4, <2>1, SessionLinkMakes DEF Reset
  <2>3. sessionCall' \in [SessionCall -> SessionDoing]
    BY <1>4, SessionDoingMakes DEF Reset, SessionReply
  <2>4. session' \in [Session -> SessionRow]
    BY <1>4, AllRevokedType DEF Reset
  <2> QED
    BY <1>4, <2>2, <2>3, <2>4 DEF Reset, SessionLinks
<1>5. ASSUME NEW k \in SessionCall, NEW s \in Session, RefreshSession(k, s)
      PROVE  SessionsTypeOK'
  <2>1. CASE SessionBegin(k, [at |-> "use", s |-> s, since |-> era])
             /\ UNCHANGED <<session, link, era, verified>>
    BY <2>1, SessionDoingMakes DEF SessionBegin
  <2>2. CASE /\ session' = [t \in Session |->
                   IF session[t].there /\ session[t].fam = session[s].fam
                   THEN [session[t] EXCEPT !.revoked = TRUE] ELSE session[t]]
             /\ UNCHANGED <<link, era, verified, sessionCall>>
    BY <2>2, SessionRowMakes
  <2> QED
    BY <1>5, <2>1, <2>2 DEF RefreshSession
<1>6. ASSUME NEW k \in SessionCall, NEW s \in Session, IssueSession(k, s)
      PROVE  SessionsTypeOK'
  <2>1. sessionCall[k].since \in Nat
    BY <1>6, SessionDoingFields DEF IssueSession
  <2>2. (IF sessionCall[k].at = "login" THEN s ELSE session[sessionCall[k].s].fam) \in Session
    BY <1>6, SessionDoingFields DEF IssueSession, SessionRow
  <2>3. session' \in [Session -> SessionRow]
    BY <1>6, <2>1, <2>2 DEF IssueSession, SessionRow
  <2>4. sessionCall' \in [SessionCall -> SessionDoing]
    BY <1>6, SessionDoingMakes DEF IssueSession, SessionReply
  <2> QED
    BY <1>6, <2>3, <2>4 DEF IssueSession
<1>7. ASSUME NEW k \in SessionCall, NEW m \in Link, OpenLink(k, m) PROVE SessionsTypeOK'
  <2>1. link[m].purpose \in {"verify", "reset"}
    BY <1>7 DEF OpenLink
  <2> QED
    BY <1>7, <2>1, SessionDoingMakes DEF OpenLink, SessionBegin
<1>8. ASSUME NEW s \in Session, LogoutOne(s) PROVE SessionsTypeOK'
  BY <1>8, SessionRowMakes DEF LogoutOne
<1>12. ASSUME NEW s \in Session, SessionExpires(s) PROVE SessionsTypeOK'
  BY <1>12, SessionRowMakes DEF SessionExpires
<1>9. CASE LogoutAll
  BY <1>9, AllRevokedType DEF LogoutAll
<1>10. ASSUME NEW m \in Link, Forgot(m) PROVE SessionsTypeOK'
  <2>1. link' \in [Link -> SessionLinks]
    BY <1>0, <1>10, SessionLinkMakes DEF Forgot
  <2> QED
    BY <1>10, <2>1 DEF Forgot, SessionLinks
<1>13. ASSUME NEW m \in Link, LinkExpires(m) PROVE SessionsTypeOK'
  <2>1. link' \in [Link -> SessionLinks]
    BY <1>0, <1>13, SessionLinkMakes DEF LinkExpires
  <2> QED
    BY <1>13, <2>1 DEF LinkExpires, SessionLinks
<1>11. CASE UNCHANGED sessionVars
  BY <1>11 DEF sessionVars
<1> QED
  BY <1>1, <1>2, <1>3, <1>4, <1>5, <1>6, <1>7, <1>8, <1>9, <1>10, <1>11,
     <1>12, <1>13 DEF SessionsNext

(* The rows of sessions and of links in e-mails hold what their columns may hold, and
   a request holds what its step needs (dashboard-auth.service.ts). *)
THEOREM SessionsTypes == SessionsSpec => []SessionsTypeOK
<1>1. SessionsInit => SessionsTypeOK
  BY SessionsTypeInit
<1>2. SessionsTypeOK /\ [SessionsNext]_sessionVars => SessionsTypeOK'
  BY SessionsTypeStep
<1> QED
  BY <1>1, <1>2, PTL DEF SessionsSpec

(***************************************************************************)
(* Sessions: a new password ends them.                                     *)
(*                                                                         *)
(* A request that a reset overtook leaves Overtaken in the step in which   *)
(* its session joins Outlived, so that the two together never grow but     *)
(* with a reset; and after a reset nothing outlives it, and the request    *)
(* that has made it is not overtaken.                                      *)
(***************************************************************************)
SessionsInv == SessionsTypeOK /\ IsFiniteSet(Outlived) /\ ResetEndsSessions

LEMMA OneMore ==
  ASSUME NEW S, IsFiniteSet(S), NEW x
  PROVE  IsFiniteSet(S \cup {x}) /\ Cardinality(S \cup {x}) <= Cardinality(S) + 1
<1>1. Cardinality(S) \in Nat
  BY FS_CardinalityType
<1>2. CASE x \in S
  <2>1. S \cup {x} = S
    BY <1>2
  <2>2. IsFiniteSet(S \cup {x}) /\ Cardinality(S \cup {x}) = Cardinality(S)
    BY <2>1, Zenon
  <2> QED
    BY <1>1, <2>2
<1>3. CASE x \notin S
  BY <1>1, <1>3, FS_AddElement
<1> QED
  BY <1>2, <1>3

LEMMA OvertakenFinite == IsFiniteSet(Overtaken)
  BY SessionsAssumption, FS_Subset DEF Overtaken

LEMMA OutlivedShrinks ==
  ASSUME SessionsInv, Outlived' \subseteq Outlived, Overtaken' \subseteq Overtaken
  PROVE  IsFiniteSet(Outlived') /\ ResetEndsSessions'
<1>1. IsFiniteSet(Outlived') /\ Cardinality(Outlived') <= Cardinality(Outlived)
  BY FS_Subset DEF SessionsInv
<1>2. IsFiniteSet(Overtaken') /\ Cardinality(Overtaken') <= Cardinality(Overtaken)
  BY FS_Subset, OvertakenFinite
<1>3. /\ Cardinality(Outlived) \in Nat /\ Cardinality(Outlived') \in Nat
      /\ Cardinality(Overtaken) \in Nat /\ Cardinality(Overtaken') \in Nat
      /\ Cardinality(SessionCall) \in Nat
  BY <1>1, <1>2, OvertakenFinite, SessionsAssumption, FS_CardinalityType DEF SessionsInv
<1> QED
  BY <1>1, <1>2, <1>3 DEF SessionsInv, ResetEndsSessions

LEMMA SessionsInvInit == SessionsInit => SessionsInv
<1> SUFFICES ASSUME SessionsInit PROVE SessionsInv
  OBVIOUS
<1>1. Outlived = {} /\ Overtaken = {}
  BY DEF SessionsInit, Outlived, Overtaken, Usable, Quiet
<1>2. Cardinality(SessionCall) \in Nat /\ Cardinality(SessionCall) # 0
  BY SessionsAssumption, FS_CardinalityType, FS_EmptySet
<1> QED
  BY <1>1, <1>2, SessionsTypeInit, FS_EmptySet DEF SessionsInv, ResetEndsSessions

LEMMA SessionsInvStep ==
  ASSUME SessionsInv, [SessionsNext]_sessionVars
  PROVE  SessionsInv'
<1>1. SessionsTypeOK /\ SessionsTypeOK'
  BY SessionsTypeStep DEF SessionsInv
<1> USE DEF Outlived, Overtaken, Usable
<1> SUFFICES IsFiniteSet(Outlived') /\ ResetEndsSessions'
  BY <1>1 DEF SessionsInv
<1>2. ASSUME NEW k \in SessionCall, Login(k)
      PROVE  Outlived' \subseteq Outlived /\ Overtaken' \subseteq Overtaken
  BY <1>1, <1>2 DEF Login, SessionBegin, SessionsTypeOK
<1>3. ASSUME NEW k \in SessionCall, UseSession(k)
      PROVE  Outlived' \subseteq Outlived /\ Overtaken' \subseteq Overtaken
  <2>1. Outlived' \subseteq Outlived
    BY <1>1, <1>3 DEF UseSession, SessionsTypeOK, SessionRow
  <2>2. sessionCall'[k].at = "issue" /\ sessionCall'[k].since = sessionCall[k].since
    BY <1>1, <1>3, SessionDoingMakes DEF UseSession, SessionsTypeOK
  <2>3. \A j \in SessionCall \ {k} : sessionCall'[j] = sessionCall[j]
    BY <1>1, <1>3 DEF UseSession, SessionsTypeOK
  <2> QED
    BY <1>3, <2>1, <2>2, <2>3 DEF UseSession
<1>4. ASSUME NEW k \in SessionCall, VerifyEmail(k)
      PROVE  Outlived' \subseteq Outlived /\ Overtaken' \subseteq Overtaken
  BY <1>1, <1>4 DEF VerifyEmail, SessionReply, SessionsTypeOK, Quiet
<1>5. ASSUME NEW k \in SessionCall, Reset(k)
      PROVE  IsFiniteSet(Outlived') /\ ResetEndsSessions'
  <2>1. Outlived' = {}
    BY <1>1, <1>5 DEF Reset, AllRevoked, SessionsTypeOK, SessionRow
  <2>2. Overtaken' \subseteq SessionCall \ {k}
    BY <1>1, <1>5 DEF Reset, SessionReply, SessionsTypeOK, Quiet
  <2>3. /\ IsFiniteSet(SessionCall \ {k})
        /\ Cardinality(SessionCall \ {k}) = Cardinality(SessionCall) - 1
    BY SessionsAssumption, FS_RemoveElement
  <2>4. Cardinality(Overtaken') <= Cardinality(SessionCall \ {k}) /\ IsFiniteSet(Overtaken')
    BY <2>2, <2>3, FS_Subset
  <2>5. Cardinality(SessionCall) \in Nat /\ Cardinality(Overtaken') \in Nat
    BY <2>4, SessionsAssumption, FS_CardinalityType
  <2> HIDE DEF Outlived, Overtaken
  <2>6. IsFiniteSet(Outlived') /\ Cardinality(Outlived') = 0
    BY <2>1, FS_EmptySet
  <2> QED
    BY <2>3, <2>4, <2>5, <2>6 DEF ResetEndsSessions
<1>6. ASSUME NEW k \in SessionCall, NEW s \in Session, RefreshSession(k, s)
      PROVE  Outlived' \subseteq Outlived /\ Overtaken' \subseteq Overtaken
  <2>1. CASE SessionBegin(k, [at |-> "use", s |-> s, since |-> era])
             /\ UNCHANGED <<session, link, era, verified>>
    BY <1>1, <2>1 DEF SessionBegin, SessionsTypeOK
  <2>2. CASE /\ session' = [t \in Session |->
                   IF session[t].there /\ session[t].fam = session[s].fam
                   THEN [session[t] EXCEPT !.revoked = TRUE] ELSE session[t]]
             /\ UNCHANGED <<link, era, verified, sessionCall>>
    BY <1>1, <2>2 DEF SessionsTypeOK, SessionRow
  <2> QED
    BY <1>6, <2>1, <2>2 DEF RefreshSession
<1>7. ASSUME NEW k \in SessionCall, NEW s \in Session, IssueSession(k, s)
      PROVE  IsFiniteSet(Outlived') /\ ResetEndsSessions'
  <2>1. \A t \in Session \ {s} : session'[t] = session[t]
    BY <1>1, <1>7 DEF IssueSession, SessionsTypeOK
  <2>2. session'[s].since = sessionCall[k].since /\ era' = era
    BY <1>1, <1>7 DEF IssueSession, SessionsTypeOK
  <2>3. sessionCall' = [sessionCall EXCEPT ![k] = Quiet]
    BY <1>7 DEF IssueSession, SessionReply
  <2>4. Overtaken' \subseteq Overtaken \ {k}
    BY <1>1, <2>2, <2>3 DEF SessionsTypeOK, Quiet
  <2>5. CASE sessionCall[k].since < era
    <3>1. Outlived' \subseteq Outlived \cup {s}
      BY <2>1, <2>2
    <3>2. k \in Overtaken
      BY <1>7, <2>5 DEF IssueSession
    <3> HIDE DEF Outlived, Overtaken
    <3>3. /\ IsFiniteSet(Overtaken \ {k})
          /\ Cardinality(Overtaken \ {k}) = Cardinality(Overtaken) - 1
      BY <3>2, OvertakenFinite, FS_RemoveElement
    <3>4. IsFiniteSet(Overtaken') /\ Cardinality(Overtaken') <= Cardinality(Overtaken) - 1
      BY <2>4, <3>3, FS_Subset
    <3>5. /\ IsFiniteSet(Outlived \cup {s})
          /\ Cardinality(Outlived \cup {s}) <= Cardinality(Outlived) + 1
      BY OneMore DEF SessionsInv
    <3>6. /\ IsFiniteSet(Outlived')
          /\ Cardinality(Outlived') <= Cardinality(Outlived \cup {s})
      BY <3>1, <3>5, FS_Subset
    <3>7. /\ Cardinality(Outlived) \in Nat /\ Cardinality(Outlived') \in Nat
          /\ Cardinality(Overtaken) \in Nat /\ Cardinality(Overtaken') \in Nat
          /\ Cardinality(SessionCall) \in Nat /\ Cardinality(Outlived \cup {s}) \in Nat
      BY <3>4, <3>5, <3>6, OvertakenFinite, SessionsAssumption, FS_CardinalityType
      DEF SessionsInv
    <3> QED
      BY <3>4, <3>5, <3>6, <3>7 DEF SessionsInv, ResetEndsSessions
  <2>6. CASE ~ (sessionCall[k].since < era)
    <3>1. Outlived' \subseteq Outlived
      BY <2>1, <2>2, <2>6
    <3> QED
      BY <2>4, <3>1, OutlivedShrinks
  <2> QED
    BY <2>5, <2>6
<1>8. ASSUME NEW k \in SessionCall, NEW m \in Link, OpenLink(k, m)
      PROVE  Outlived' \subseteq Outlived /\ Overtaken' \subseteq Overtaken
  <2>1. link[m].purpose \in {"verify", "reset"}
    BY <1>1, <1>8 DEF OpenLink, SessionsTypeOK
  <2> QED
    BY <1>1, <1>8, <2>1 DEF OpenLink, SessionBegin, SessionsTypeOK
<1>9. ASSUME NEW s \in Session, LogoutOne(s)
      PROVE  Outlived' \subseteq Outlived /\ Overtaken' \subseteq Overtaken
  BY <1>1, <1>9 DEF LogoutOne, SessionsTypeOK, SessionRow
<1>10. ASSUME NEW s \in Session, SessionExpires(s)
       PROVE  Outlived' \subseteq Outlived /\ Overtaken' \subseteq Overtaken
  BY <1>1, <1>10 DEF SessionExpires, SessionsTypeOK, SessionRow
<1>11. CASE LogoutAll
  <2>1. Outlived' \subseteq Outlived /\ Overtaken' \subseteq Overtaken
    BY <1>1, <1>11 DEF LogoutAll, AllRevoked, SessionsTypeOK, SessionRow
  <2> QED
    BY <2>1, OutlivedShrinks
<1>12. ASSUME NEW m \in Link, Forgot(m) \/ LinkExpires(m)
       PROVE  Outlived' \subseteq Outlived /\ Overtaken' \subseteq Overtaken
  BY <1>12 DEF Forgot, LinkExpires
<1>13. CASE UNCHANGED sessionVars
  <2>1. Outlived' \subseteq Outlived /\ Overtaken' \subseteq Overtaken
    BY <1>13 DEF sessionVars
  <2> QED
    BY <2>1, OutlivedShrinks
<1> HIDE DEF Outlived, Overtaken, Usable
<1> QED
  BY <1>2, <1>3, <1>4, <1>5, <1>6, <1>7, <1>8, <1>9, <1>10, <1>11, <1>12, <1>13,
     OutlivedShrinks DEF SessionsNext

(* However logins, refreshes and resets overlap: of the sessions a user began under an
   old password, those that can still be used and those in flight that will be are fewer
   than the requests in flight (dashboard-auth.service.ts:517).  One request is the
   reset itself. *)
THEOREM ResetEndsOldSessions == SessionsSpec => []ResetEndsSessions
<1>1. SessionsInit => SessionsInv
  BY SessionsInvInit
<1>2. SessionsInv /\ [SessionsNext]_sessionVars => SessionsInv'
  BY SessionsInvStep
<1>3. SessionsInv => ResetEndsSessions
  BY DEF SessionsInv
<1> QED
  BY <1>1, <1>2, <1>3, PTL DEF SessionsSpec

(***************************************************************************)
(* Settings.                                                               *)
(***************************************************************************)
LEMMA SettingNames == Setting = {"businessName", "newApplication", "invoicingEmail"}
  BY DEF Setting, SettingValues

Columns == Setting \cup {"wallet", "number", "payoutsPaused"}

Updates ==
    UNION {[at : {"update"}, set : {x}, to : SettingValues[x]] : x \in Setting}

LEMMA WritesSplit ==
  \A c : c \in Writes <=> \/ c = NoRequest
                          \/ c \in Updates
                          \/ c \in [at : {"disconnect", "provision"}]
                          \/ c \in [at : {"pause"}, to : BOOLEAN]
                          \/ c \in [at : {"send"}, i : Invoice]
  BY Zenon DEF Writes, Updates

LEMMA UpdatesFields ==
  ASSUME NEW c \in Updates
  PROVE  c.at = "update" /\ c.set \in Setting /\ c.to \in SettingValues[c.set]
<1>1. PICK x \in Setting : c \in [at : {"update"}, set : {x}, to : SettingValues[x]]
  BY DEF Updates
<1> QED
  BY <1>1

LEMMA WritesFields ==
  ASSUME NEW c \in Writes
  PROVE  /\ c.at = "update" => c.set \in Setting /\ c.to \in SettingValues[c.set]
         /\ c.at = "pause" => c.to \in BOOLEAN
         /\ c.at = "send" => c.i \in Invoice
<1>1. CASE c \in Updates
  BY <1>1, UpdatesFields
<1>2. CASE c \notin Updates
  BY <1>2, WritesSplit DEF NoRequest
<1> QED
  BY <1>1, <1>2

LEMMA WritesMakes ==
  /\ NoRequest \in Writes
  /\ \A x \in Setting : \A v \in SettingValues[x] :
        [at |-> "update", set |-> x, to |-> v] \in Writes
  /\ [at |-> "disconnect"] \in Writes /\ [at |-> "provision"] \in Writes
  /\ \A p \in BOOLEAN : [at |-> "pause", to |-> p] \in Writes
  /\ \A i \in Invoice : [at |-> "send", i |-> i] \in Writes
<1>1. \A x \in Setting : \A v \in SettingValues[x] :
        [at |-> "update", set |-> x, to |-> v] \in Writes
  <2> TAKE x \in Setting
  <2> TAKE v \in SettingValues[x]
  <2>1. [at |-> "update", set |-> x, to |-> v]
          \in [at : {"update"}, set : {x}, to : SettingValues[x]]
    OBVIOUS
  <2>2. [at |-> "update", set |-> x, to |-> v] \in Updates
    BY <2>1 DEF Updates
  <2> QED
    BY <2>2, WritesSplit
<1> QED
  BY <1>1, WritesSplit

(* What a request writes of the row: the settings hold what was wished of them, and a
   wallet has a number.  A mail that is being sent was handed over.                  *)
RowKept ==
    /\ \A x \in Setting : business[x] \in SettingValues[x] /\ business[x] = wished[x]
    /\ business.wallet \in BOOLEAN /\ business.number \in BOOLEAN
    /\ business.payoutsPaused \in BOOLEAN
    /\ business.wallet => business.number
    /\ business = [x \in Columns |-> business[x]]
    /\ wished = [x \in Setting |-> wished[x]]
CallsKept == settingsCall \in [SettingsCall -> Writes]
MailsKept ==
    /\ invoice \in [Invoice -> {"none", "draft", "sent"}] /\ mailedTo \in [Invoice -> BOOLEAN]
    /\ \A i \in Invoice : invoice[i] = "sent" => mailedTo[i]
    /\ \A k \in SettingsCall : settingsCall[k].at = "send" => mailedTo[settingsCall[k].i]
SettingsInv == RowKept /\ CallsKept /\ MailsKept

LEMMA SettingsInvKeeps == SettingsInv => SettingsTypeOK /\ SettingsKept
<1> SUFFICES ASSUME SettingsInv PROVE SettingsTypeOK /\ SettingsKept
  OBVIOUS
<1>1. DOMAIN business = Columns
  BY DEF SettingsInv, RowKept
<1> QED
  BY <1>1 DEF SettingsInv, RowKept, CallsKept, MailsKept, SettingsTypeOK, SettingsKept, Columns

LEMMA SettingsInvInit == SettingsInit => SettingsInv
<1> SUFFICES ASSUME SettingsInit PROVE SettingsInv
  OBVIOUS
<1>1. RowKept
  BY SettingNames DEF SettingsInit, NewSettings, RowKept, Columns, SettingValues
<1>2. CallsKept /\ MailsKept
  BY WritesMakes DEF SettingsInit, CallsKept, MailsKept, NoRequest
<1> QED
  BY <1>1, <1>2 DEF SettingsInv

\* A request begins: it is not one that sends.
LEMMA BeginsKeeps ==
  ASSUME SettingsInv, NEW k \in SettingsCall, NEW c \in Writes, c.at # "send", Begins(k, c)
  PROVE  SettingsInv'
<1>1. RowKept'
  BY DEF Begins, SettingsInv, RowKept
<1>2. CallsKept' /\ MailsKept'
  BY DEF Begins, SettingsInv, CallsKept, MailsKept
<1> QED
  BY <1>1, <1>2 DEF SettingsInv

LEMMA EndsKeeps ==
  ASSUME SettingsInv, NEW k \in SettingsCall, Ends(k), UNCHANGED <<invoice, mailedTo>>
  PROVE  CallsKept' /\ MailsKept'
  BY WritesMakes DEF Ends, SettingsInv, CallsKept, MailsKept, NoRequest

LEMMA SettingsInvStep ==
  ASSUME SettingsInv, [SettingsNext]_settingsVars
  PROVE  SettingsInv'
<1>1. ASSUME NEW k \in SettingsCall, NEW x \in Setting, NEW v \in SettingValues[x],
             AskUpdate(k, x, v)
      PROVE  SettingsInv'
  BY <1>1, WritesMakes, BeginsKeeps DEF AskUpdate
<1>2. ASSUME NEW k \in SettingsCall, NEW opened \in BOOLEAN, OpenWallet(k, opened)
      PROVE  SettingsInv'
  <2>1. RowKept'
    BY <1>2, SettingNames DEF OpenWallet, SettingsInv, RowKept, Columns
  <2> QED
    BY <1>2, <2>1, EndsKeeps DEF OpenWallet, SettingsInv
<1>3. ASSUME NEW k \in SettingsCall, NEW p \in BOOLEAN, AskPaused(k, p) PROVE SettingsInv'
  BY <1>3, WritesMakes, BeginsKeeps DEF AskPaused
<1>4. ASSUME NEW k \in SettingsCall, NEW i \in Invoice, AskSend(k, i) PROVE SettingsInv'
  <2>1. RowKept'
    BY <1>4 DEF AskSend, SettingsInv, RowKept
  <2>2. CallsKept'
    BY <1>4, WritesMakes DEF AskSend, SettingsInv, CallsKept
  <2>3. \A j \in SettingsCall : settingsCall'[j].at = "send" => mailedTo'[settingsCall'[j].i]
    BY <1>4, WritesFields DEF AskSend, SettingsInv, CallsKept, MailsKept
  <2> QED
    BY <1>4, <2>1, <2>2, <2>3 DEF AskSend, SettingsInv, MailsKept
<1>5. ASSUME NEW k \in SettingsCall, WriteSetting(k) PROVE SettingsInv'
  <2> DEFINE c == settingsCall[k]
  <2>1. c.set \in Setting /\ c.to \in SettingValues[c.set]
    BY <1>5, WritesFields DEF WriteSetting, SettingsInv, CallsKept
  <2>2. business' = [business EXCEPT ![c.set] = c.to] /\ wished' = [wished EXCEPT ![c.set] = c.to]
    BY <1>5 DEF WriteSetting
  <2> HIDE DEF c
  <2>3. RowKept'
    BY <2>1, <2>2, SettingNames DEF SettingsInv, RowKept, Columns
  <2> QED
    BY <1>5, <2>3, EndsKeeps DEF WriteSetting, SettingsInv
<1>6. ASSUME NEW k \in SettingsCall, AskProvision(k) PROVE SettingsInv'
  BY <1>6, WritesMakes, BeginsKeeps DEF AskProvision
<1>7. ASSUME NEW k \in SettingsCall, AskDisconnect(k) PROVE SettingsInv'
  BY <1>7, WritesMakes, BeginsKeeps DEF AskDisconnect
<1>8. ASSUME NEW k \in SettingsCall, DisconnectSquad(k) PROVE SettingsInv'
  <2>1. RowKept'
    BY <1>8, SettingNames DEF DisconnectSquad, SettingsInv, RowKept, Columns
  <2> QED
    BY <1>8, <2>1, EndsKeeps DEF DisconnectSquad, SettingsInv
<1>9. ASSUME NEW k \in SettingsCall, SetPaused(k) PROVE SettingsInv'
  <2>1. settingsCall[k].to \in BOOLEAN
    BY <1>9, WritesFields DEF SetPaused, SettingsInv, CallsKept
  <2>2. RowKept'
    BY <1>9, <2>1, SettingNames DEF SetPaused, SettingsInv, RowKept, Columns
  <2> QED
    BY <1>9, <2>2, EndsKeeps DEF SetPaused, SettingsInv
<1>10. ASSUME NEW k \in SettingsCall, MarkSent(k) PROVE SettingsInv'
  <2>1. settingsCall[k].i \in Invoice /\ mailedTo[settingsCall[k].i]
    BY <1>10, WritesFields DEF MarkSent, SettingsInv, CallsKept, MailsKept
  <2>2. RowKept'
    BY <1>10 DEF MarkSent, SettingsInv, RowKept
  <2>3. CallsKept'
    BY <1>10, WritesMakes DEF MarkSent, Ends, SettingsInv, CallsKept
  <2>4. MailsKept'
    BY <1>10, <2>1 DEF MarkSent, Ends, SettingsInv, CallsKept, MailsKept, NoRequest
  <2> QED
    BY <2>2, <2>3, <2>4 DEF SettingsInv
<1>11. ASSUME NEW i \in Invoice, DraftInvoice(i) PROVE SettingsInv'
  <2>1. RowKept' /\ CallsKept'
    BY <1>11 DEF DraftInvoice, SettingsInv, RowKept, CallsKept
  <2>2. MailsKept'
    BY <1>11 DEF DraftInvoice, SettingsInv, MailsKept
  <2> QED
    BY <2>1, <2>2 DEF SettingsInv
<1>12. CASE SettingsCrash
  <2>1. RowKept' /\ CallsKept'
    BY <1>12, WritesMakes DEF SettingsCrash, SettingsInv, RowKept, CallsKept
  <2>2. MailsKept'
    BY <1>12 DEF SettingsCrash, SettingsInv, MailsKept, NoRequest
  <2> QED
    BY <2>1, <2>2 DEF SettingsInv
<1>13. CASE UNCHANGED settingsVars
  BY <1>13 DEF settingsVars, SettingsInv, RowKept, CallsKept, MailsKept
<1> QED
  BY <1>1, <1>2, <1>3, <1>4, <1>5, <1>6, <1>7, <1>8, <1>9, <1>10, <1>11, <1>12, <1>13
  DEF SettingsNext

(* However the requests of a business's owners cross: a setting holds what was last asked
   of it, a connected wallet has its number, and an invoice marked sent was handed to the
   mailer (settings.service.ts:43-171, employer-invoices.service.ts:166-219). *)
THEOREM SettingsAreKept == SettingsSpec => []SettingsKept
<1>1. SettingsInit => SettingsInv
  BY SettingsInvInit
<1>2. SettingsInv /\ [SettingsNext]_settingsVars => SettingsInv'
  BY SettingsInvStep
<1>3. SettingsInv => SettingsKept
  BY SettingsInvKeeps
<1> QED
  BY <1>1, <1>2, <1>3, PTL DEF SettingsSpec

(***************************************************************************)
(* The team: types.                                                        *)
(***************************************************************************)
LEMMA TeamDoingFields ==
  ASSUME NEW c \in TeamDoing
  PROVE  /\ c.at \in {"register", "found", "supersede", "invite", "role", "remove"}
              => c.p \in Person
         /\ c.at = "register" => c.role \in Invitable
         /\ c.at = "accept" => c.i \in Invitation
         /\ c.at \in {"supersede", "invite"} => c.of \in Business
  BY DEF TeamDoing, Resting

LEMMA TeamDoingMakes ==
  /\ Resting \in TeamDoing
  /\ \A p \in Person, role \in Invitable :
        [at |-> "register", p |-> p, role |-> role] \in TeamDoing
  /\ \A p \in Person : [at |-> "found", p |-> p] \in TeamDoing
  /\ \A i \in Invitation : [at |-> "accept", i |-> i] \in TeamDoing
  /\ \A p \in Person, b \in Business : [at |-> "supersede", p |-> p, of |-> b] \in TeamDoing
  /\ \A p \in Person, what \in {"role", "remove"} : [at |-> what, p |-> p] \in TeamDoing
  /\ \A c \in TeamDoing : c.at = "supersede" => [c EXCEPT !.at = "invite"] \in TeamDoing
<1>1. Resting \in TeamDoing
  BY DEF TeamDoing
<1>2. /\ \A p \in Person, role \in Invitable :
            [at |-> "register", p |-> p, role |-> role] \in TeamDoing
      /\ \A p \in Person : [at |-> "found", p |-> p] \in TeamDoing
      /\ \A i \in Invitation : [at |-> "accept", i |-> i] \in TeamDoing
  BY DEF TeamDoing
<1>3. /\ \A p \in Person, b \in Business : [at |-> "supersede", p |-> p, of |-> b] \in TeamDoing
      /\ \A p \in Person, what \in {"role", "remove"} : [at |-> what, p |-> p] \in TeamDoing
  BY DEF TeamDoing
<1>4. ASSUME NEW c \in TeamDoing, c.at = "supersede"
      PROVE  [c EXCEPT !.at = "invite"] \in TeamDoing
  <2>1. c \in [at : {"supersede", "invite"}, p : Person, of : Business]
    BY <1>4 DEF TeamDoing, Resting
  <2>2. [c EXCEPT !.at = "invite"] \in [at : {"supersede", "invite"}, p : Person, of : Business]
    BY <2>1
  <2> QED
    BY <2>2 DEF TeamDoing
<1> QED
  BY <1>1, <1>2, <1>3, <1>4

LEMMA UserRowMakes ==
  /\ NoUser \in UserRow
  /\ \A row \in UserRow, r \in Invitable : [row EXCEPT !.role = r] \in UserRow
  /\ \A row \in UserRow : [row EXCEPT !.of = Nowhere] \in UserRow
  /\ \A r \in Invitable, b \in Business \cup {Nowhere} : [role |-> r, of |-> b] \in UserRow
  /\ \A b \in Business : [role |-> "owner", of |-> b] \in UserRow
  BY DEF UserRow, NoUser

LEMMA InvitationRowMakes ==
  ASSUME NEW row \in InvitationRow, NEW st \in {"none", "pending", "expired", "accepted"}
  PROVE  [row EXCEPT !.st = st] \in InvitationRow
  BY DEF InvitationRow

(***************************************************************************)
(* The team: one owner for every business.                                 *)
(*                                                                         *)
(* Whoever a request is about to change or to remove was read as somebody  *)
(* who is not the owner, and it stays so: only sign-up makes an owner, and *)
(* it is refused for an address that is taken.                             *)
(***************************************************************************)
Owner(b) == [role |-> "owner", of |-> b]

OwnersKept ==
    /\ \A b \in founded : \E p \in Person : \A q \in Person : user[q] = Owner(b) <=> q = p
    /\ \A p \in Person : user[p].role = "owner" => user[p].of \in founded
    /\ \A p \in Person : Unknown(p) => user[p].of = Nowhere
TargetsKept ==
    \A k \in TeamCall :
        teamCall[k].at \in {"role", "remove"} => user[teamCall[k].p].role \in Invitable
Accepted(p, b) ==
    \E i \in Invitation :
        invitation[i].st = "accepted" /\ invitation[i].to = p /\ invitation[i].of = b
MembersKept ==
    \A p \in Person :
        user[p].of # Nowhere /\ user[p].role # "owner" => Accepted(p, user[p].of)

TeamInv == TeamTypeOK /\ OwnersKept /\ TargetsKept /\ MembersKept

LEMMA TeamInvKeeps == TeamInv => EveryBusinessOwned
<1> SUFFICES ASSUME TeamInv PROVE EveryBusinessOwned
  OBVIOUS
<1>1. ASSUME NEW b \in founded
      PROVE  Cardinality({p \in Person : user[p] = [role |-> "owner", of |-> b]}) = 1
  <2>1. PICK p \in Person : \A q \in Person : user[q] = Owner(b) <=> q = p
    BY DEF TeamInv, OwnersKept
  <2>2. {q \in Person : user[q] = [role |-> "owner", of |-> b]} = {p}
    BY <2>1 DEF Owner
  <2> QED
    BY <2>2, FS_Singleton
<1> QED
  BY <1>1 DEF TeamInv, MembersKept, Accepted, EveryBusinessOwned

LEMMA TeamTypeInit == TeamInit => TeamTypeOK
<1> SUFFICES ASSUME TeamInit PROVE TeamTypeOK
  OBVIOUS
<1>1. (CHOOSE p \in Person : TRUE) \in Person
  BY TeamAssumption
<1> QED
  BY <1>1, TeamDoingMakes, UserRowMakes DEF TeamInit, TeamTypeOK, InvitationRow, Invitable

LEMMA TeamInvInit == TeamInit => TeamInv
<1> SUFFICES ASSUME TeamInit PROVE TeamInv
  OBVIOUS
<1>1. OwnersKept /\ MembersKept
  BY DEF TeamInit, OwnersKept, MembersKept, NoUser
<1>2. TargetsKept
  BY DEF TeamInit, TargetsKept, Resting
<1> QED
  BY <1>1, <1>2, TeamTypeInit DEF TeamInv

\* Only claims change, or a request that is about to change nobody.
LEMMA TeamStays ==
  ASSUME TeamInv, TeamTypeOK', UNCHANGED <<user, founded, invitation>>, TargetsKept'
  PROVE  TeamInv'
<1>1. OwnersKept'
  BY DEF TeamInv, OwnersKept, Unknown
<1>2. MembersKept'
  BY DEF TeamInv, MembersKept, Accepted
<1> QED
  BY <1>1, <1>2 DEF TeamInv

\* A request that begins, goes on or ends without a member in its hands.
LEMMA TargetsStay ==
  ASSUME TeamInv, NEW k \in TeamCall, UNCHANGED user, NEW c, c.at \notin {"role", "remove"},
         teamCall' = [teamCall EXCEPT ![k] = c]
  PROVE  TargetsKept'
  BY DEF TeamInv, TeamTypeOK, TargetsKept

\* An address that was free is taken, and its request ends.
LEMMA TargetsGrow ==
  ASSUME TeamInv, NEW k \in TeamCall, NEW p \in Person, NEW row, Unknown(p),
         user' = [user EXCEPT ![p] = row], TeamReply(k)
  PROVE  TargetsKept'
<1> SUFFICES ASSUME NEW j \in TeamCall, teamCall'[j].at \in {"role", "remove"}
             PROVE  user'[teamCall'[j].p].role \in Invitable
  BY DEF TargetsKept
<1>1. j # k /\ teamCall'[j] = teamCall[j]
  BY DEF TeamReply, Resting, TeamInv, TeamTypeOK
<1>2. teamCall[j].p \in Person /\ user[teamCall[j].p].role \in Invitable
  BY <1>1, TeamDoingFields DEF TeamInv, TeamTypeOK, TargetsKept
<1>3. teamCall[j].p # p
  BY <1>2 DEF Unknown, Invitable
<1> QED
  BY <1>1, <1>2, <1>3 DEF TeamInv, TeamTypeOK

\* A new user who owns nothing.
LEMMA OwnersStay ==
  ASSUME TeamInv, NEW p \in Person, NEW row \in UserRow, row.role \in Invitable,
         user[p].role # "owner", user' = [user EXCEPT ![p] = row], UNCHANGED founded
  PROVE  OwnersKept'
<1>1. \A q \in Person : user'[q] = IF q = p THEN row ELSE user[q]
  BY DEF TeamInv, TeamTypeOK
<1>2. ASSUME NEW b \in founded, NEW q \in Person
      PROVE  user'[q] = Owner(b) <=> user[q] = Owner(b)
  BY <1>1 DEF Owner, Invitable
<1>3. \A b \in founded' : \E r \in Person : \A q \in Person : user'[q] = Owner(b) <=> q = r
  BY <1>2 DEF TeamInv, OwnersKept
<1>4. \A q \in Person : user'[q].role = "owner" => user'[q].of \in founded'
  BY <1>1 DEF TeamInv, OwnersKept, Invitable
<1>5. \A q \in Person : user'[q].role = "none" => user'[q].of = Nowhere
  BY <1>1 DEF TeamInv, OwnersKept, Unknown, Invitable
<1> QED
  BY <1>3, <1>4, <1>5 DEF OwnersKept, Unknown

LEMMA TeamTypeStep ==
  ASSUME TeamTypeOK, OwnersKept, [TeamNext]_teamVars
  PROVE  TeamTypeOK'
<1> USE DEF TeamTypeOK
<1>1. ASSUME NEW k \in TeamCall, NEW p \in Person, NEW role \in Invitable,
             StartRegister(k, p, role)
      PROVE  TeamTypeOK'
  BY <1>1, TeamDoingMakes DEF StartRegister, TeamBegin
<1>2. ASSUME NEW k \in TeamCall, NEW p \in Person, StartFound(k, p) PROVE TeamTypeOK'
  BY <1>2, TeamDoingMakes DEF StartFound, TeamBegin
<1>3. ASSUME NEW k \in TeamCall, NEW i \in Invitation, ClaimInvitation(k, i)
      PROVE  TeamTypeOK'
  BY <1>3, TeamDoingMakes DEF ClaimInvitation, TeamBegin
<1>4. ASSUME NEW k \in TeamCall, Register(k) PROVE TeamTypeOK'
  <2>1. teamCall[k].p \in Person /\ teamCall[k].role \in Invitable
    BY <1>4, TeamDoingFields DEF Register
  <2>2. [role |-> teamCall[k].role, of |-> Nowhere] \in UserRow
    BY <2>1, UserRowMakes
  <2> QED
    BY <1>4, <2>1, <2>2, TeamDoingMakes DEF Register, CreateUser, SignedIn, TeamReply
<1>5. ASSUME NEW k \in TeamCall, AcceptInvitation(k) PROVE TeamTypeOK'
  <2> DEFINE i == teamCall[k].i
             row == [role |-> invitation[i].role, of |-> invitation[i].of]
  <2>1. i \in Invitation
    BY <1>5, TeamDoingFields DEF AcceptInvitation
  <2>2. invitation[i] \in InvitationRow
    BY <2>1
  <2>3. invitation[i].to \in Person /\ row \in UserRow
    BY <2>2, UserRowMakes DEF InvitationRow
  <2>4. invitation' = [invitation EXCEPT ![i].st = "accepted"] /\ founded' = founded
    BY <1>5 DEF AcceptInvitation
  <2>5. /\ user' = [user EXCEPT ![invitation[i].to] = row]
        /\ claims' = [claims EXCEPT ![invitation[i].to] = row]
    BY <1>5 DEF AcceptInvitation, CreateUser, SignedIn
  <2>6. teamCall' \in [TeamCall -> TeamDoing]
    BY <1>5, TeamDoingMakes DEF AcceptInvitation, TeamReply
  <2> HIDE DEF i, row
  <2>7. invitation' \in [Invitation -> InvitationRow]
    BY <2>1, <2>2, <2>4, InvitationRowMakes
  <2> QED
    BY <2>3, <2>4, <2>5, <2>6, <2>7
<1>6. ASSUME NEW k \in TeamCall, AddressTaken(k) PROVE TeamTypeOK'
  BY <1>6, TeamDoingMakes DEF AddressTaken, TeamReply
<1>7. ASSUME NEW k \in TeamCall, NEW b \in Business, RegisterBusiness(k, b) PROVE TeamTypeOK'
  <2>1. teamCall[k].p \in Person
    BY <1>7, TeamDoingFields DEF RegisterBusiness
  <2> QED
    BY <1>7, <2>1, UserRowMakes, TeamDoingMakes
    DEF RegisterBusiness, CreateUser, SignedIn, TeamReply
<1>8. ASSUME NEW k \in TeamCall, NEW q \in Person, NEW p \in Person, StartInvite(k, q, p)
      PROVE  TeamTypeOK'
  <2>1. claims[q].of \in Business
    BY <1>8 DEF StartInvite, MayManage, UserRow
  <2> QED
    BY <1>8, <2>1, TeamDoingMakes DEF StartInvite, TeamBegin
<1>9. ASSUME NEW k \in TeamCall, NEW q \in Person, NEW p \in Person,
             NEW what \in {"role", "remove"}, ReadMember(k, q, p, what)
      PROVE  TeamTypeOK'
  BY <1>9, TeamDoingMakes DEF ReadMember, TeamBegin
<1>10. ASSUME NEW k \in TeamCall, Supersede(k) PROVE TeamTypeOK'
  <2>1. teamCall' \in [TeamCall -> TeamDoing]
    BY <1>10, TeamDoingMakes DEF Supersede
  <2>2. invitation' \in [Invitation -> InvitationRow]
    BY <1>10, InvitationRowMakes DEF Supersede
  <2> QED
    BY <1>10, <2>1, <2>2 DEF Supersede
<1>11. ASSUME NEW k \in TeamCall, RemoveMember(k) PROVE TeamTypeOK'
  <2>1. teamCall[k].p \in Person
    BY <1>11, TeamDoingFields DEF RemoveMember
  <2> QED
    BY <1>11, <2>1, UserRowMakes, TeamDoingMakes DEF RemoveMember, TeamReply
<1>12. ASSUME NEW k \in TeamCall, NEW i \in Invitation, NEW role \in Invitable,
              Invite(k, i, role)
       PROVE  TeamTypeOK'
  <2>1. teamCall[k].p \in Person /\ teamCall[k].of \in Business
    BY <1>12, TeamDoingFields DEF Invite
  <2>2. [st |-> "pending", to |-> teamCall[k].p, of |-> teamCall[k].of, role |-> role]
          \in InvitationRow
    BY <2>1 DEF InvitationRow
  <2> QED
    BY <1>12, <2>2, TeamDoingMakes DEF Invite, TeamReply
<1>13. ASSUME NEW k \in TeamCall, NEW role \in Invitable, UpdateRole(k, role)
       PROVE  TeamTypeOK'
  <2>1. teamCall[k].p \in Person
    BY <1>13, TeamDoingFields DEF UpdateRole
  <2> QED
    BY <1>13, <2>1, UserRowMakes, TeamDoingMakes DEF UpdateRole, TeamReply
<1>14. ASSUME NEW p \in Person, SignIn(p) \/ ClaimsLapse(p) PROVE TeamTypeOK'
  BY <1>14, UserRowMakes DEF SignIn, ClaimsLapse, SignedIn
<1>15. ASSUME NEW i \in Invitation, ExpireInvitation(i) PROVE TeamTypeOK'
  BY <1>15, InvitationRowMakes DEF ExpireInvitation
<1>16. CASE UNCHANGED teamVars
  BY <1>16 DEF teamVars
<1> QED
  BY <1>1, <1>2, <1>3, <1>4, <1>5, <1>6, <1>7, <1>8, <1>9, <1>10, <1>11, <1>12, <1>13,
     <1>14, <1>15, <1>16 DEF TeamNext

LEMMA TeamInvStep ==
  ASSUME TeamInv, [TeamNext]_teamVars
  PROVE  TeamInv'
<1>0. TeamTypeOK /\ TeamTypeOK'
  BY TeamTypeStep DEF TeamInv
<1>1. ASSUME NEW k \in TeamCall, NEW p \in Person, NEW role \in Invitable,
             StartRegister(k, p, role)
      PROVE  TeamInv'
  BY <1>0, <1>1, TargetsStay, TeamStays DEF StartRegister, TeamBegin
<1>2. ASSUME NEW k \in TeamCall, NEW p \in Person, StartFound(k, p) PROVE TeamInv'
  BY <1>0, <1>2, TargetsStay, TeamStays DEF StartFound, TeamBegin
<1>3. ASSUME NEW k \in TeamCall, NEW i \in Invitation, ClaimInvitation(k, i) PROVE TeamInv'
  BY <1>0, <1>3, TargetsStay, TeamStays DEF ClaimInvitation, TeamBegin
<1>4. ASSUME NEW k \in TeamCall, Register(k) PROVE TeamInv'
  <2> DEFINE p == teamCall[k].p
             row == [role |-> teamCall[k].role, of |-> Nowhere]
  <2>1. p \in Person /\ teamCall[k].role \in Invitable
    BY <1>0, <1>4, TeamDoingFields DEF Register, TeamTypeOK
  <2>2. row \in UserRow /\ row.role \in Invitable /\ row.of = Nowhere
    BY <2>1, UserRowMakes
  <2>3. /\ user' = [user EXCEPT ![p] = row] /\ Unknown(p) /\ TeamReply(k)
        /\ UNCHANGED <<founded, invitation>>
    BY <1>4 DEF Register, CreateUser
  <2> HIDE DEF p, row
  <2>4. OwnersKept'
    BY <2>1, <2>2, <2>3, OwnersStay DEF Unknown
  <2>5. TargetsKept'
    BY <2>1, <2>3, TargetsGrow
  <2>6. MembersKept'
    BY <1>0, <2>1, <2>2, <2>3 DEF TeamInv, TeamTypeOK, MembersKept, Accepted
  <2> QED
    BY <1>0, <2>4, <2>5, <2>6 DEF TeamInv
<1>5. ASSUME NEW k \in TeamCall, AcceptInvitation(k) PROVE TeamInv'
  <2>1. PICK i \in Invitation : i = teamCall[k].i
    BY <1>0, <1>5, TeamDoingFields DEF AcceptInvitation, TeamTypeOK
  <2>2. PICK p \in Person, row \in UserRow :
          /\ p = invitation[i].to
          /\ row = [role |-> invitation[i].role, of |-> invitation[i].of]
    BY <1>0, UserRowMakes DEF InvitationRow, TeamTypeOK
  <2>3. /\ user' = [user EXCEPT ![p] = row] /\ Unknown(p) /\ TeamReply(k)
        /\ invitation' = [invitation EXCEPT ![i].st = "accepted"] /\ UNCHANGED founded
    BY <1>5, <2>1, <2>2 DEF AcceptInvitation, CreateUser
  <2>4. row.role \in Invitable /\ row.of = invitation[i].of
    BY <1>0, <2>2 DEF InvitationRow, TeamTypeOK
  <2>5. /\ invitation'[i].st = "accepted" /\ invitation'[i].to = p /\ invitation'[i].of = row.of
        /\ \A j \in Invitation : invitation'[j].to = invitation[j].to
                                 /\ invitation'[j].of = invitation[j].of
                                 /\ (invitation[j].st = "accepted"
                                       => invitation'[j].st = "accepted")
    BY <1>0, <2>2, <2>3, <2>4 DEF TeamTypeOK, InvitationRow
  <2>6. OwnersKept'
    BY <2>3, <2>4, OwnersStay DEF Unknown
  <2>7. TargetsKept'
    BY <2>3, TargetsGrow
  <2>8. MembersKept'
    <3> SUFFICES ASSUME NEW q \in Person, user'[q].of # Nowhere, user'[q].role # "owner"
                 PROVE  Accepted(q, user[q].of)'
      BY DEF MembersKept
    <3>1. CASE q = p
      <4>1. user'[q] = row
        BY <1>0, <2>3, <3>1 DEF TeamTypeOK
      <4> QED
        BY <2>5, <3>1, <4>1 DEF Accepted
    <3>2. CASE q # p
      <4>1. user'[q] = user[q]
        BY <1>0, <2>3, <3>2 DEF TeamTypeOK
      <4> QED
        BY <2>5, <4>1 DEF TeamInv, MembersKept, Accepted
    <3> QED
      BY <3>1, <3>2
  <2> QED
    BY <1>0, <2>6, <2>7, <2>8 DEF TeamInv
<1>6. ASSUME NEW k \in TeamCall, AddressTaken(k) PROVE TeamInv'
  BY <1>0, <1>6, TargetsStay, TeamStays DEF AddressTaken, TeamReply, Resting
<1>7. ASSUME NEW k \in TeamCall, NEW b \in Business, RegisterBusiness(k, b) PROVE TeamInv'
  <2> DEFINE p == teamCall[k].p
  <2>1. p \in Person
    BY <1>0, <1>7, TeamDoingFields DEF RegisterBusiness, TeamTypeOK
  <2>2. /\ user' = [user EXCEPT ![p] = Owner(b)] /\ Unknown(p) /\ TeamReply(k)
        /\ founded' = founded \cup {b} /\ b \notin founded /\ UNCHANGED invitation
    BY <1>7 DEF RegisterBusiness, CreateUser, Owner
  <2> HIDE DEF p
  <2>3. \A q \in Person : user'[q] = IF q = p THEN Owner(b) ELSE user[q]
    BY <1>0, <2>2 DEF TeamTypeOK
  <2>4. OwnersKept'
    <3>1. ASSUME NEW c \in founded, NEW q \in Person
          PROVE  user'[q] = Owner(c) <=> user[q] = Owner(c)
      BY <2>2, <2>3 DEF Owner, Unknown
    <3>2. \A q \in Person : user[q] # Owner(b)
      BY <2>2 DEF TeamInv, OwnersKept, Owner
    <3>3. \A c \in founded' : \E r \in Person : \A q \in Person : user'[q] = Owner(c) <=> q = r
      BY <2>1, <2>2, <2>3, <3>1, <3>2 DEF TeamInv, OwnersKept
    <3>4. \A q \in Person : user'[q].role = "owner" => user'[q].of \in founded'
      BY <2>2, <2>3 DEF TeamInv, OwnersKept, Owner
    <3>5. \A q \in Person : user'[q].role = "none" => user'[q].of = Nowhere
      BY <2>3 DEF TeamInv, OwnersKept, Owner, Unknown
    <3> QED
      BY <3>3, <3>4, <3>5 DEF OwnersKept, Unknown
  <2>5. TargetsKept'
    BY <2>1, <2>2, TargetsGrow
  <2>6. MembersKept'
    BY <2>2, <2>3 DEF TeamInv, MembersKept, Accepted, Owner
  <2> QED
    BY <1>0, <2>4, <2>5, <2>6 DEF TeamInv
<1>8. ASSUME NEW k \in TeamCall, NEW q \in Person, NEW p \in Person, StartInvite(k, q, p)
      PROVE  TeamInv'
  BY <1>0, <1>8, TargetsStay, TeamStays DEF StartInvite, TeamBegin
<1>9. ASSUME NEW k \in TeamCall, NEW q \in Person, NEW p \in Person,
             NEW what \in {"role", "remove"}, ReadMember(k, q, p, what)
      PROVE  TeamInv'
  <2>1. user[p].role \in Invitable
    BY <1>0, <1>9 DEF ReadMember, MayManage, TeamInv, OwnersKept, Unknown, TeamTypeOK, UserRow
  <2>2. TargetsKept'
    BY <1>0, <1>9, <2>1 DEF ReadMember, TeamBegin, TeamInv, TeamTypeOK, TargetsKept
  <2> QED
    BY <1>0, <1>9, <2>2, TeamStays DEF ReadMember
<1>10. ASSUME NEW k \in TeamCall, Supersede(k) PROVE TeamInv'
  <2>1. TargetsKept'
    BY <1>0, <1>10 DEF Supersede, TeamInv, TeamTypeOK, TargetsKept
  <2>2. OwnersKept'
    BY <1>10 DEF Supersede, TeamInv, OwnersKept, Unknown
  <2>3. \A p \in Person : \A b : Accepted(p, b) => Accepted(p, b)'
    BY <1>10 DEF Supersede, Accepted
  <2> QED
    BY <1>0, <1>10, <2>1, <2>2, <2>3 DEF Supersede, TeamInv, MembersKept
<1>11. ASSUME NEW k \in TeamCall, RemoveMember(k) PROVE TeamInv'
  <2> DEFINE p == teamCall[k].p
             row == [user[p] EXCEPT !.of = Nowhere]
  <2>1. p \in Person /\ user[p].role \in Invitable
    BY <1>0, <1>11, TeamDoingFields DEF RemoveMember, TeamInv, TeamTypeOK, TargetsKept
  <2>2. row \in UserRow /\ row.role = user[p].role /\ row.of = Nowhere
    BY <1>0, <2>1, UserRowMakes DEF TeamTypeOK, UserRow
  <2>3. /\ user' = [user EXCEPT ![p] = row] /\ UNCHANGED <<founded, invitation>>
        /\ teamCall' = [teamCall EXCEPT ![k] = Resting]
    BY <1>11 DEF RemoveMember, TeamReply
  <2> HIDE DEF p, row
  <2>4. OwnersKept'
    BY <2>1, <2>2, <2>3, OwnersStay DEF Invitable
  <2>5. TargetsKept'
    BY <1>0, <2>1, <2>2, <2>3, TeamDoingFields
    DEF TeamInv, TeamTypeOK, TargetsKept, Resting
  <2>6. MembersKept'
    BY <1>0, <2>1, <2>2, <2>3 DEF TeamInv, TeamTypeOK, MembersKept, Accepted
  <2> QED
    BY <1>0, <2>4, <2>5, <2>6 DEF TeamInv
<1>12. ASSUME NEW k \in TeamCall, NEW i \in Invitation, NEW role \in Invitable,
              Invite(k, i, role)
       PROVE  TeamInv'
  <2>1. TargetsKept'
    BY <1>0, <1>12 DEF Invite, TeamReply, Resting, TeamInv, TeamTypeOK, TargetsKept
  <2>2. OwnersKept'
    BY <1>12 DEF Invite, TeamInv, OwnersKept, Unknown
  <2>3. \A p \in Person : \A b : Accepted(p, b) => Accepted(p, b)'
    BY <1>0, <1>12 DEF Invite, Accepted, TeamTypeOK
  <2> QED
    BY <1>0, <1>12, <2>1, <2>2, <2>3 DEF Invite, TeamInv, MembersKept
<1>13. ASSUME NEW k \in TeamCall, NEW role \in Invitable, UpdateRole(k, role) PROVE TeamInv'
  <2> DEFINE p == teamCall[k].p
             row == [user[p] EXCEPT !.role = role]
  <2>1. p \in Person /\ user[p].role \in Invitable
    BY <1>0, <1>13, TeamDoingFields DEF UpdateRole, TeamInv, TeamTypeOK, TargetsKept
  <2>2. row \in UserRow /\ row.role = role /\ row.of = user[p].of
    BY <1>0, <2>1, UserRowMakes DEF TeamTypeOK, UserRow
  <2>3. /\ user' = [user EXCEPT ![p] = row] /\ UNCHANGED <<founded, invitation>>
        /\ teamCall' = [teamCall EXCEPT ![k] = Resting]
    BY <1>13 DEF UpdateRole, TeamReply
  <2> HIDE DEF p, row
  <2>4. OwnersKept'
    BY <2>1, <2>2, <2>3, OwnersStay DEF Invitable
  <2>5. TargetsKept'
    BY <1>0, <2>1, <2>2, <2>3, TeamDoingFields
    DEF TeamInv, TeamTypeOK, TargetsKept, Resting
  <2>6. MembersKept'
    BY <1>0, <2>1, <2>2, <2>3 DEF TeamInv, TeamTypeOK, MembersKept, Accepted, Invitable
  <2> QED
    BY <1>0, <2>4, <2>5, <2>6 DEF TeamInv
<1>14. ASSUME NEW p \in Person, SignIn(p) \/ ClaimsLapse(p) PROVE TeamInv'
  <2>1. TargetsKept'
    BY <1>14 DEF SignIn, ClaimsLapse, TeamInv, TargetsKept
  <2> QED
    BY <1>0, <1>14, <2>1, TeamStays DEF SignIn, ClaimsLapse
<1>15. ASSUME NEW i \in Invitation, ExpireInvitation(i) PROVE TeamInv'
  <2>1. OwnersKept' /\ TargetsKept'
    BY <1>15 DEF ExpireInvitation, TeamInv, OwnersKept, TargetsKept, Unknown
  <2>2. \A p \in Person : \A b : Accepted(p, b) => Accepted(p, b)'
    BY <1>0, <1>15 DEF ExpireInvitation, Accepted, TeamTypeOK
  <2> QED
    BY <1>0, <1>15, <2>1, <2>2 DEF ExpireInvitation, TeamInv, MembersKept
<1>16. CASE UNCHANGED teamVars
  BY <1>0, <1>16, TeamStays DEF teamVars, TeamInv, TargetsKept
<1> QED
  BY <1>1, <1>2, <1>3, <1>4, <1>5, <1>6, <1>7, <1>8, <1>9, <1>10, <1>11, <1>12, <1>13,
     <1>14, <1>15, <1>16 DEF TeamNext

(* Whatever stale claims somebody acts on, and however sign-ups, invitations and changes
   of the team overlap: a business has one owner, and whoever else belongs to it accepted
   an invitation of it (dashboard-auth.service.ts:163, team.service.ts:171 and 204). *)
THEOREM BusinessesAreOwned == TeamSpec => []EveryBusinessOwned
<1>1. TeamInit => TeamInv
  BY TeamInvInit
<1>2. TeamInv /\ [TeamNext]_teamVars => TeamInv'
  BY TeamInvStep
<1>3. TeamInv => EveryBusinessOwned
  BY TeamInvKeeps
<1> QED
  BY <1>1, <1>2, <1>3, PTL DEF TeamSpec

-------------------------------------------------------------------------------
(***************************************************************************)
(* The feed: pushes of new jobs.  A fan-out that has read the counts holds *)
(* a push for each worker it has yet to tell and did not find at the limit;*)
(* the pushes made and held are within the limit and the readings that     *)
(* crossed.                                                                *)
(***************************************************************************)
Telling == {j \in Posting : fan[j].at = "tell"}
ToTell(w) == {j \in Posting : fan[j].at = "tell" /\ w \in fan[j].todo /\ w \notin fan[j].mute}

Counts ==
    /\ IsFiniteSet(Telling)
    /\ \A w \in Viewer : buzz[w] <= bell[w]
                         /\ buzz[w] + Cardinality(ToTell(w)) <= HourlyPushes + overlaps

NearTold == \A j \in Posting, w \in Viewer : Told(j, w) => viewer[w].home = "near"

PushInv == FeedTypeOK /\ Counts /\ NearTold

\* Fan-outs that begin and end.
LEMMA FanMakes ==
  /\ NoFan \in FanRow /\ NoFan.at = "off"
  /\ \A b \in BOOLEAN : [at |-> "start", team |-> b] \in FanRow
  /\ \A b \in BOOLEAN : [at |-> "start", team |-> b].at = "start"
  /\ \A s \in SUBSET Viewer, m \in SUBSET Viewer :
        [at |-> "tell", todo |-> s, mute |-> m] \in FanRow
  BY DEF FanRow, NoFan

LEMMA FanTelling ==
  ASSUME NEW f \in FanRow, f.at = "tell"
  PROVE  /\ f = [at |-> "tell", todo |-> f.todo, mute |-> f.mute]
         /\ f.todo \in SUBSET Viewer /\ f.mute \in SUBSET Viewer
  BY DEF FanRow, NoFan

LEMMA FanToldOne ==
  ASSUME NEW s, NEW m, NEW t
  PROVE  [[at |-> "tell", todo |-> s, mute |-> m] EXCEPT !.todo = t]
           = [at |-> "tell", todo |-> t, mute |-> m]
  OBVIOUS

LEMMA PostingRowMakes ==
  ASSUME NEW row \in PostingRow
  PROVE  /\ \A x \in Audience : [row EXCEPT !.audience = x] \in PostingRow
         /\ [row EXCEPT !.status = "closed"] \in PostingRow
         /\ [row EXCEPT !.waiting = FALSE] \in PostingRow
         /\ [row EXCEPT !.audience = "public", !.flipped = TRUE] \in PostingRow
         /\ \A b \in BOOLEAN :
              [row EXCEPT !.status = "open", !.waiting = TRUE, !.flipped = b] \in PostingRow
  BY DEF PostingRow, Audience

LEMMA HeldFinite ==
  ASSUME IsFiniteSet(Telling), NEW w
  PROVE  IsFiniteSet(ToTell(w)) /\ Cardinality(ToTell(w)) \in Nat
         /\ Cardinality(ToTell(w)) <= Cardinality(Telling)
<1>1. ToTell(w) \subseteq Telling BY DEF ToTell, Telling
<1>2. QED BY <1>1, FS_Subset, FS_CardinalityType

\* The counts hold on as long as no fan-out comes to tell.
LEMMA FewerTell ==
  ASSUME PushInv, Telling' \subseteq Telling, \A w \in Viewer : ToTell(w)' \subseteq ToTell(w),
         UNCHANGED <<bell, buzz, overlaps>>
  PROVE  Counts'
<1>1. IsFiniteSet(Telling) BY DEF PushInv, Counts
<1>2. IsFiniteSet(Telling)' BY <1>1, FS_Subset
<1>3. ASSUME NEW w \in Viewer
      PROVE  buzz'[w] <= bell'[w] /\ buzz'[w] + Cardinality(ToTell(w))' <= HourlyPushes + overlaps'
  <2>1. IsFiniteSet(ToTell(w)) /\ Cardinality(ToTell(w)) \in Nat BY <1>1, HeldFinite
  <2>2. Cardinality(ToTell(w))' <= Cardinality(ToTell(w)) BY <2>1, FS_Subset
  <2>3. Cardinality(ToTell(w)') \in Nat BY <2>1, FS_Subset, FS_CardinalityType
  <2>4. buzz[w] \in Nat /\ bell[w] \in Nat /\ overlaps \in Nat BY DEF PushInv, FeedTypeOK
  <2>5. buzz[w] <= bell[w] /\ buzz[w] + Cardinality(ToTell(w)) <= HourlyPushes + overlaps
    BY DEF PushInv, Counts
  <2>6. QED BY <2>1, <2>2, <2>3, <2>4, <2>5, FeedAssumption
<1>4. QED BY <1>2, <1>3 DEF Counts

\* A fan-out that begins or is over leaves the others telling.
LEMMA FanSet ==
  ASSUME PushInv, NEW j \in Posting, NEW f \in FanRow, f.at # "tell",
         fan' = [fan EXCEPT ![j] = f], UNCHANGED <<bell, buzz, overlaps>>,
         \A w \in Viewer : viewer'[w].home = viewer[w].home
  PROVE  fan' \in [Posting -> FanRow] /\ Counts' /\ NearTold'
<1>1. fan \in [Posting -> FanRow] BY DEF PushInv, FeedTypeOK
<1>2. fan' \in [Posting -> FanRow] /\ fan'[j].at # "tell"
      /\ \A i \in Posting \ {j} : fan'[i] = fan[i]
  BY <1>1
<1>3. Telling' \subseteq Telling /\ \A w \in Viewer : ToTell(w)' \subseteq ToTell(w)
  BY <1>2 DEF Telling, ToTell
<1>4. NearTold' BY <1>2 DEF PushInv, NearTold, Told
<1>5. QED BY <1>2, <1>3, <1>4, FewerTell

LEMMA FanStays ==
  ASSUME PushInv, UNCHANGED <<fan, bell, buzz, overlaps>>,
         \A w \in Viewer : viewer'[w].home = viewer[w].home
  PROVE  Counts' /\ NearTold'
<1>1. Telling' \subseteq Telling /\ \A w \in Viewer : ToTell(w)' \subseteq ToTell(w)
  BY DEF Telling, ToTell
<1>2. NearTold' BY DEF PushInv, NearTold, Told
<1>3. QED BY <1>1, <1>2, FewerTell

LEMMA PushInvInit == FeedInit => PushInv
<1> SUFFICES ASSUME FeedInit PROVE PushInv
  OBVIOUS
<1>1. FeedTypeOK
  BY FanMakes DEF FeedInit, FeedTypeOK, PostingRow, Audience
<1>2. \A j \in Posting : fan[j].at # "tell" BY DEF FeedInit, NoFan
<1>3. Telling = {} /\ \A w \in Viewer : ToTell(w) = {} BY <1>2 DEF Telling, ToTell
<1>4. Counts
  <2>1. IsFiniteSet(Telling) BY <1>3, FS_EmptySet
  <2>2. \A w \in Viewer : Cardinality(ToTell(w)) = 0 BY <1>3, FS_EmptySet
  <2>3. QED BY <2>1, <2>2, FeedAssumption DEF FeedInit, Counts
<1>5. NearTold BY <1>2 DEF NearTold, Told
<1>6. QED BY <1>1, <1>4, <1>5 DEF PushInv

\* What the employer, the cron and the worker do besides.
LEMMA FeedQuiet ==
  ASSUME PushInv,
         \/ \E j \in Posting : \/ \E audience \in Audience : EditAudience(j, audience)
                               \/ CloseJob(j) \/ HalfHour(j) \/ FlipJob(j)
                               \/ \E w \in Viewer : ApplyFor(w, j)
         \/ \E w \in Viewer : SetTeam(w) \/ SetBlock(w) \/ CompleteJob(w)
         \/ FlipCron
  PROVE  PushInv'
<1>1. UNCHANGED <<fan, bell, buzz, overlaps>>
  BY DEF EditAudience, CloseJob, HalfHour, FlipJob, ApplyFor, SetTeam, SetBlock, CompleteJob,
         FlipCron
<1>2. FeedTypeOK BY DEF PushInv
<1>3. viewer' \in [Viewer -> ViewerRow] /\ \A w \in Viewer : viewer'[w].home = viewer[w].home
  <2>1. CASE UNCHANGED viewer BY <1>2, <2>1 DEF FeedTypeOK
  <2>2. ASSUME NEW w \in Viewer, CompleteJob(w)
        PROVE  viewer' \in [Viewer -> ViewerRow]
               /\ \A v \in Viewer : viewer'[v].home = viewer[v].home
    <3>1. viewer[w] \in ViewerRow BY <1>2 DEF FeedTypeOK
    <3>2. viewer' = [viewer EXCEPT ![w] = [viewer[w] EXCEPT !.jobs = viewer[w].jobs + 1]]
          /\ viewer[w].jobs + 1 \in 0..2
      BY <1>2, <2>2, <3>1 DEF CompleteJob, FeedTypeOK, ViewerRow
    <3>3. [viewer[w] EXCEPT !.jobs = viewer[w].jobs + 1] \in ViewerRow
      BY <3>1, <3>2 DEF ViewerRow
    <3>4. [viewer[w] EXCEPT !.jobs = viewer[w].jobs + 1].home = viewer[w].home
      BY <3>1 DEF ViewerRow
    <3>5. QED BY <1>2, <3>2, <3>3, <3>4 DEF FeedTypeOK
  <2>3. QED
    BY <2>1, <2>2 DEF EditAudience, CloseJob, HalfHour, FlipJob, ApplyFor, SetTeam,
                      SetBlock, FlipCron
<1>4. posting' \in [Posting -> PostingRow]
  <2>1. CASE UNCHANGED posting BY <1>2, <2>1 DEF FeedTypeOK
  <2>2. ASSUME NEW j \in Posting, NEW row \in PostingRow, posting' = [posting EXCEPT ![j] = row]
        PROVE  posting' \in [Posting -> PostingRow]
    BY <1>2, <2>2 DEF FeedTypeOK
  <2>3. ASSUME NEW j \in Posting,
               \/ \E audience \in Audience : EditAudience(j, audience)
               \/ CloseJob(j) \/ HalfHour(j) \/ FlipJob(j)
        PROVE  \E row \in PostingRow : posting' = [posting EXCEPT ![j] = row]
    <3>1. posting[j] \in PostingRow BY <1>2 DEF FeedTypeOK
    <3>2. CASE \E audience \in Audience : EditAudience(j, audience)
      BY <3>1, <3>2, PostingRowMakes DEF EditAudience
    <3>3. CASE CloseJob(j) BY <3>1, <3>3, PostingRowMakes DEF CloseJob
    <3>4. CASE HalfHour(j) BY <3>1, <3>4, PostingRowMakes DEF HalfHour
    <3>5. CASE FlipJob(j)
      <4>1. posting' = [posting EXCEPT ![j] = [posting[j] EXCEPT !.audience = "public",
                                                                 !.flipped = TRUE]]
        BY <1>2, <3>1, <3>5 DEF FlipJob, FeedTypeOK, PostingRow
      <4>2. QED BY <3>1, <4>1, PostingRowMakes
    <3>6. QED BY <2>3, <3>2, <3>3, <3>4, <3>5
  <2>4. QED
    BY <2>1, <2>2, <2>3 DEF ApplyFor, SetTeam, SetBlock, CompleteJob, FlipCron
<1>5. /\ onTeam' \subseteq Viewer /\ blocked' \subseteq Viewer
      /\ applied' \subseteq Viewer \X Posting /\ flipping' \subseteq Posting
  <2>1. CASE UNCHANGED <<onTeam, blocked, applied, flipping>> BY <1>2, <2>1 DEF FeedTypeOK
  <2>2. ASSUME NEW w \in Viewer, SetTeam(w) \/ SetBlock(w)
        PROVE  /\ onTeam' \subseteq Viewer /\ blocked' \subseteq Viewer
               /\ UNCHANGED <<applied, flipping>>
    BY <1>2, <2>2 DEF SetTeam, SetBlock, FeedTypeOK
  <2>3. ASSUME NEW w \in Viewer, NEW j \in Posting, ApplyFor(w, j)
        PROVE  /\ applied' \subseteq Viewer \X Posting
               /\ UNCHANGED <<onTeam, blocked, flipping>>
    BY <1>2, <2>3 DEF ApplyFor, FeedTypeOK
  <2>4. ASSUME FlipCron \/ \E j \in Posting : FlipJob(j)
        PROVE  flipping' \subseteq Posting /\ UNCHANGED <<onTeam, blocked, applied>>
    BY <1>2, <2>4 DEF FlipCron, FlipJob, FeedTypeOK
  <2>5. ASSUME NEW j \in Posting,
               (\E audience \in Audience : EditAudience(j, audience)) \/ CloseJob(j) \/ HalfHour(j)
        PROVE  UNCHANGED <<onTeam, blocked, applied, flipping>>
    BY <2>5 DEF EditAudience, CloseJob, HalfHour
  <2>6. ASSUME NEW w \in Viewer, CompleteJob(w)
        PROVE  UNCHANGED <<onTeam, blocked, applied, flipping>>
    BY <2>6 DEF CompleteJob
  <2>7. CASE \E w \in Viewer : SetTeam(w) \/ SetBlock(w) BY <1>2, <2>2, <2>7 DEF FeedTypeOK
  <2>8. CASE \E w \in Viewer, j \in Posting : ApplyFor(w, j)
    BY <1>2, <2>3, <2>8 DEF FeedTypeOK
  <2>9. CASE FlipCron \/ \E j \in Posting : FlipJob(j) BY <1>2, <2>4, <2>9 DEF FeedTypeOK
  <2>10. QED BY <2>1, <2>5, <2>6, <2>7, <2>8, <2>9
<1>6. FeedTypeOK' BY <1>1, <1>2, <1>3, <1>4, <1>5 DEF FeedTypeOK
<1>7. QED BY <1>1, <1>3, <1>6, FanStays DEF PushInv

\* Publishing a job starts its fan-out.
LEMMA FeedStarts ==
  ASSUME PushInv, NEW j \in Posting,
         \/ \E audience \in Audience : \E postNow \in BOOLEAN : PostJob(j, audience, postNow)
         \/ PublishJob(j)
  PROVE  PushInv'
<1>1. FeedTypeOK BY DEF PushInv
<1>2. /\ UNCHANGED <<viewer, onTeam, blocked, applied, flipping, bell, buzz, overlaps>>
      /\ UNCHANGED fan \/ \E b \in BOOLEAN : fan' = [fan EXCEPT ![j] = [at |-> "start", team |-> b]]
  BY DEF PostJob, PublishJob, FanOut
<1>3. posting' \in [Posting -> PostingRow]
  <2>1. CASE PublishJob(j)
    <3>1. DEFINE b == posting[j].audience = "public"
    <3>2. posting[j] \in PostingRow BY <1>1 DEF FeedTypeOK
    <3>3. posting' = [posting EXCEPT ![j] = [posting[j] EXCEPT !.status = "open",
                                                  !.waiting = TRUE, !.flipped = b]]
      BY <1>1, <2>1, <3>2 DEF PublishJob, FeedTypeOK, PostingRow
    <3>4. b \in BOOLEAN OBVIOUS
    <3>5. QED
      <4> HIDE DEF b
      <4> QED BY <1>1, <3>2, <3>3, <3>4, PostingRowMakes DEF FeedTypeOK
  <2>2. CASE \E audience \in Audience : \E postNow \in BOOLEAN : PostJob(j, audience, postNow)
    <3>1. PICK audience \in Audience, postNow \in BOOLEAN : PostJob(j, audience, postNow)
      BY <2>2
    <3>2. [status |-> IF postNow THEN "open" ELSE "draft", audience |-> audience,
           flipped |-> audience = "public", waiting |-> postNow] \in PostingRow
      BY DEF PostingRow
    <3>3. QED BY <1>1, <3>1, <3>2 DEF PostJob, FeedTypeOK
  <2>3. QED BY <2>1, <2>2
<1>4. CASE UNCHANGED fan
  BY <1>1, <1>2, <1>3, <1>4, FanStays DEF PushInv, FeedTypeOK
<1>5. CASE \E b \in BOOLEAN : fan' = [fan EXCEPT ![j] = [at |-> "start", team |-> b]]
  <2>1. PICK b \in BOOLEAN : fan' = [fan EXCEPT ![j] = [at |-> "start", team |-> b]]
    BY <1>5
  <2>2. [at |-> "start", team |-> b] \in FanRow /\ [at |-> "start", team |-> b].at # "tell"
    BY FanMakes
  <2>3. fan' \in [Posting -> FanRow] /\ Counts' /\ NearTold'
    BY <1>2, <2>1, <2>2, FanSet
  <2>4. QED BY <1>1, <1>2, <1>3, <2>3 DEF PushInv, FeedTypeOK
<1>6. QED BY <1>2, <1>4, <1>5

\* The counts are read: whoever is below the limit is promised a push, and the
\* other fan-outs that have read are counted.
LEMMA FanReads ==
  ASSUME PushInv, NEW j \in Posting, FanRead(j) PROVE PushInv'
<1>1. FeedTypeOK /\ Counts /\ NearTold BY DEF PushInv
<1>2. \E todo \in SUBSET Viewer :
        /\ fan' = [fan EXCEPT ![j] = [at |-> "tell", todo |-> todo,
                                      mute |-> {w \in Viewer : bell[w] >= HourlyPushes}]]
        /\ \A w \in todo : viewer[w].home = "near"
  <2>1. WITNESS {w \in Viewer : /\ viewer[w].home = "near" /\ viewer[w].alerts
                                /\ fan[j].team => w \in onTeam} \in SUBSET Viewer
  <2>2. QED BY DEF FanRead
<1> PICK todo \in SUBSET Viewer :
        /\ fan' = [fan EXCEPT ![j] = [at |-> "tell", todo |-> todo,
                                      mute |-> {w \in Viewer : bell[w] >= HourlyPushes}]]
        /\ \A w \in todo : viewer[w].home = "near"
  BY <1>2
<1>3. DEFINE mute == {w \in Viewer : bell[w] >= HourlyPushes}
             row == [at |-> "tell", todo |-> todo, mute |-> mute]
<1>4. row \in FanRow /\ row.at = "tell" /\ row.todo = todo /\ row.mute = mute
  BY FanMakes
<1>5. /\ fan' \in [Posting -> FanRow] /\ fan'[j] = row
      /\ \A i \in Posting \ {j} : fan'[i] = fan[i]
  BY <1>1, <1>2, <1>4 DEF FeedTypeOK
<1>6. /\ UNCHANGED <<posting, viewer, onTeam, blocked, applied, flipping, bell, buzz>>
      /\ overlaps' = overlaps + Cardinality({i \in Posting \ {j} : fan[i].at = "tell"})
      /\ fan[j].at = "start"
  BY DEF FanRead
<1>7. Cardinality({i \in Posting \ {j} : fan[i].at = "tell"}) = Cardinality(Telling)
  <2>1. {i \in Posting \ {j} : fan[i].at = "tell"} = Telling BY <1>6 DEF Telling
  <2>2. QED BY <2>1
<1>8. IsFiniteSet(Telling) /\ Cardinality(Telling) \in Nat
  BY <1>1, FS_CardinalityType DEF Counts
<1>9. overlaps' \in Nat /\ overlaps' = overlaps + Cardinality(Telling)
  BY <1>1, <1>6, <1>7, <1>8 DEF FeedTypeOK
<1>10. FeedTypeOK' BY <1>1, <1>5, <1>6, <1>9 DEF FeedTypeOK
<1>11. NearTold'
  <2> HIDE DEF row, mute
  <2> SUFFICES ASSUME NEW i \in Posting, NEW w \in Viewer, Told(i, w)'
               PROVE  viewer[w].home = "near"
    BY <1>6 DEF NearTold
  <2>1. CASE i = j BY <1>4, <1>5, <2>1 DEF Told
  <2>2. CASE i # j BY <1>1, <1>5, <2>2 DEF Told, NearTold
  <2>3. QED BY <2>1, <2>2
<1>12. IsFiniteSet(Telling)'
  <2>1. Telling' = Telling \union {j} BY <1>4, <1>5, <1>6 DEF Telling
  <2>2. QED BY <1>8, <2>1, FS_AddElement
<1>13. ASSUME NEW w \in Viewer
       PROVE  buzz'[w] <= bell'[w] /\ buzz'[w] + Cardinality(ToTell(w))' <= HourlyPushes + overlaps'
  <2>1. /\ buzz[w] \in Nat /\ bell[w] \in Nat /\ overlaps \in Nat /\ HourlyPushes \in Nat
        /\ buzz[w] <= bell[w] /\ buzz[w] + Cardinality(ToTell(w)) <= HourlyPushes + overlaps
    BY <1>1, FeedAssumption DEF FeedTypeOK, Counts
  <2>2. /\ IsFiniteSet(ToTell(w)) /\ Cardinality(ToTell(w)) \in Nat
        /\ Cardinality(ToTell(w)) <= Cardinality(Telling)
    BY <1>8, HeldFinite
  <2>3. j \notin ToTell(w) BY <1>6 DEF ToTell
  <2>4. CASE w \in todo /\ w \notin mute
    <3>1. ToTell(w)' = ToTell(w) \union {j}
      <4> HIDE DEF row, mute
      <4> QED BY <1>4, <1>5, <2>3, <2>4 DEF ToTell
    <3>2. Cardinality(ToTell(w) \union {j}) = Cardinality(ToTell(w)) + 1
      BY <2>2, <2>3, FS_AddElement
    <3>3. bell[w] < HourlyPushes BY <2>1, <2>4
    <3>4. Cardinality(ToTell(w))' = Cardinality(ToTell(w)) + 1 BY <3>1, <3>2
    <3>5. QED BY <1>6, <1>8, <1>9, <2>1, <2>2, <3>3, <3>4
  <2>5. CASE ~(w \in todo /\ w \notin mute)
    <3>1. ToTell(w)' = ToTell(w)
      <4> HIDE DEF row, mute
      <4> QED BY <1>4, <1>5, <2>3, <2>5 DEF ToTell
    <3>2. Cardinality(ToTell(w))' = Cardinality(ToTell(w)) BY <3>1
    <3>3. QED BY <1>6, <1>8, <1>9, <2>1, <2>2, <3>2
  <2>6. QED BY <2>4, <2>5
<1>14. QED BY <1>10, <1>11, <1>12, <1>13 DEF PushInv, Counts

\* A worker is told, and pushed if it is not muted.
LEMMA FanTells ==
  ASSUME PushInv, NEW j \in Posting, NEW w \in Viewer, FanTell(j, w) PROVE PushInv'
<1>1. FeedTypeOK /\ Counts /\ NearTold BY DEF PushInv
<1>2. fan[j] \in FanRow /\ fan[j].at = "tell" /\ w \in fan[j].todo
  BY <1>1 DEF FanTell, FeedTypeOK
<1>3. DEFINE todo == fan[j].todo \ {w}
             mute == fan[j].mute
             row == [at |-> "tell", todo |-> todo, mute |-> mute]
<1>4. row \in FanRow /\ row.at = "tell" /\ row.todo = todo /\ row.mute = mute
  BY <1>2, FanMakes, FanTelling
<1>5. [fan[j] EXCEPT !.todo = todo] = row
  <2>1. fan[j] = [at |-> "tell", todo |-> fan[j].todo, mute |-> mute] BY <1>2, FanTelling
  <2>2. [[at |-> "tell", todo |-> fan[j].todo, mute |-> mute] EXCEPT !.todo = todo] = row
    BY FanToldOne
  <2>3. QED BY <2>1, <2>2
<1>6. fan' = [fan EXCEPT ![j] = row] BY <1>1, <1>5 DEF FanTell, FeedTypeOK
<1>7. /\ fan' \in [Posting -> FanRow] /\ fan'[j] = row
      /\ \A i \in Posting \ {j} : fan'[i] = fan[i]
  BY <1>1, <1>4, <1>6 DEF FeedTypeOK
<1>8. /\ UNCHANGED <<posting, viewer, onTeam, blocked, applied, flipping, overlaps>>
      /\ bell' = [bell EXCEPT ![w] = bell[w] + 1]
      /\ buzz' = IF w \in mute THEN buzz ELSE [buzz EXCEPT ![w] = buzz[w] + 1]
  BY DEF FanTell
<1>9. /\ bell' \in [Viewer -> Nat] /\ buzz' \in [Viewer -> Nat]
      /\ \A v \in Viewer \ {w} : bell'[v] = bell[v] /\ buzz'[v] = buzz[v]
      /\ bell'[w] = bell[w] + 1
      /\ buzz'[w] = IF w \in mute THEN buzz[w] ELSE buzz[w] + 1
  <2> HIDE DEF mute
  <2> QED BY <1>1, <1>8 DEF FeedTypeOK
<1>10. FeedTypeOK' BY <1>1, <1>7, <1>8, <1>9 DEF FeedTypeOK
<1> HIDE DEF row
<1>11. NearTold'
  <2> SUFFICES ASSUME NEW i \in Posting, NEW v \in Viewer, Told(i, v)'
               PROVE  viewer[v].home = "near"
    BY <1>8 DEF NearTold
  <2>1. Told(i, v)
    <3>1. CASE i = j BY <1>2, <1>4, <1>7, <3>1 DEF Told
    <3>2. CASE i # j BY <1>7, <3>2 DEF Told
    <3>3. QED BY <3>1, <3>2
  <2>2. QED BY <1>1, <2>1 DEF NearTold
<1>12. Telling' = Telling BY <1>2, <1>4, <1>7 DEF Telling
<1>13. ASSUME NEW v \in Viewer
       PROVE  buzz'[v] <= bell'[v] /\ buzz'[v] + Cardinality(ToTell(v))' <= HourlyPushes + overlaps'
  <2>1. /\ buzz[v] \in Nat /\ bell[v] \in Nat /\ overlaps \in Nat /\ HourlyPushes \in Nat
        /\ buzz[v] <= bell[v] /\ buzz[v] + Cardinality(ToTell(v)) <= HourlyPushes + overlaps
    BY <1>1, FeedAssumption DEF FeedTypeOK, Counts
  <2>2. IsFiniteSet(ToTell(v)) /\ Cardinality(ToTell(v)) \in Nat
    BY <1>1, HeldFinite DEF Counts
  <2>3. CASE v = w /\ w \notin mute
    <3>1. j \in ToTell(w) /\ ToTell(w)' = ToTell(w) \ {j}
      BY <1>2, <1>4, <1>7, <2>3 DEF ToTell
    <3>2. Cardinality(ToTell(w) \ {j}) = Cardinality(ToTell(w)) - 1
      BY <2>2, <2>3, <3>1, FS_RemoveElement
    <3>3. Cardinality(ToTell(w))' = Cardinality(ToTell(w)) - 1 BY <3>1, <3>2
    <3>4. QED BY <1>8, <1>9, <2>1, <2>2, <2>3, <3>3
  <2>4. CASE ~(v = w /\ w \notin mute)
    <3>1. ToTell(v)' = ToTell(v)
      <4>1. ASSUME NEW i \in Posting PROVE i \in ToTell(v)' <=> i \in ToTell(v)
        <5>1. CASE i = j BY <1>2, <1>4, <1>7, <2>4, <5>1 DEF ToTell
        <5>2. CASE i # j BY <1>7, <5>2 DEF ToTell
        <5>3. QED BY <5>1, <5>2
      <4>2. QED BY <4>1 DEF ToTell
    <3>2. Cardinality(ToTell(v))' = Cardinality(ToTell(v)) BY <3>1
    <3>3. QED BY <1>8, <1>9, <2>1, <2>2, <2>4, <3>2
  <2>5. QED BY <2>3, <2>4
<1>14. QED BY <1>1, <1>10, <1>11, <1>12, <1>13 DEF PushInv, Counts

LEMMA PushInvStep == PushInv /\ [FeedNext]_feedVars => PushInv'
<1> SUFFICES ASSUME PushInv, [FeedNext]_feedVars PROVE PushInv'
  OBVIOUS
<1>1. ASSUME NEW j \in Posting, FanEnds(j) PROVE PushInv'
  <2>1. fan' \in [Posting -> FanRow] /\ Counts' /\ NearTold'
    BY <1>1, FanMakes, FanSet DEF FanEnds
  <2>2. QED BY <1>1, <2>1 DEF FanEnds, PushInv, FeedTypeOK
<1>2. CASE HourPasses
  <2>1. Telling = {} /\ \A w \in Viewer : ToTell(w) = {}
    BY <1>2 DEF HourPasses, Feeding, Telling, ToTell, NoFan
  <2>2. Telling' = {} /\ \A w \in Viewer : ToTell(w)' = {}
    BY <1>2, <2>1 DEF HourPasses, Telling, ToTell
  <2>3. FeedTypeOK' BY <1>2 DEF HourPasses, PushInv, FeedTypeOK
  <2>4. /\ bell' = [w \in Viewer |-> 0] /\ buzz' = [w \in Viewer |-> 0] /\ overlaps' = 0
        /\ UNCHANGED <<fan, viewer>>
    BY <1>2 DEF HourPasses
  <2>5. Counts' BY <2>2, <2>4, FS_EmptySet, FeedAssumption DEF Counts
  <2>6. NearTold' BY <2>4 DEF PushInv, NearTold, Told
  <2>7. QED BY <2>3, <2>5, <2>6 DEF PushInv
<1>3. CASE UNCHANGED feedVars
  BY <1>3, FanStays DEF feedVars, PushInv, FeedTypeOK
<1>4. QED
  BY <1>1, <1>2, <1>3, FeedQuiet, FeedStarts, FanReads, FanTells DEF FeedNext

LEMMA PushInvKeeps == PushInv => PushesLimited
<1> SUFFICES ASSUME PushInv PROVE PushesLimited
  OBVIOUS
<1>1. ASSUME NEW w \in Viewer
      PROVE  buzz[w] <= bell[w] /\ buzz[w] <= HourlyPushes + overlaps
  <2>1. buzz[w] \in Nat /\ overlaps \in Nat /\ HourlyPushes \in Nat
    BY FeedAssumption DEF PushInv, FeedTypeOK
  <2>2. Cardinality(ToTell(w)) \in Nat BY HeldFinite DEF PushInv, Counts
  <2>3. QED BY <2>1, <2>2 DEF PushInv, Counts
<1>2. ASSUME NEW j \in Posting, NEW w \in Viewer, Told(j, w), StillOffered(j, w)
      PROVE  InFeed(w, j)
  <2>1. viewer[w].home = "near" BY <1>2 DEF PushInv, NearTold
  <2>2. QED BY <1>2, <2>1 DEF StillOffered, InFeed
<1>3. QED BY <1>1, <1>2 DEF PushesLimited

(* A worker is told of no more new jobs in an hour than the limit, and one more
   for each reading of the counts that crossed another
   (employer-jobs.service.ts:1442): for any postings, workers and limit. *)
THEOREM PushesAreLimited == FeedSpec => []PushesLimited
<1>1. FeedInit => PushInv
  BY PushInvInit
<1>2. PushInv /\ [FeedNext]_feedVars => PushInv'
  BY PushInvStep
<1>3. PushInv => PushesLimited
  BY PushInvKeeps
<1> QED
  BY <1>1, <1>2, <1>3, PTL DEF FeedSpec

-------------------------------------------------------------------------------
(***************************************************************************)
(* The crons that nudge.  Every bucket holds a tick of the cron, and at a  *)
(* tick either the run finds whoever is due or the server is down.         *)
(***************************************************************************)
FlaggedOnce ==
    /\ \A u \in Nudged : nudges[u] <= 1
    /\ ~ reading.ran => reading.todo = {}
    /\ nudge = "late" => /\ reading.todo \subseteq {Assigned}
                         /\ Assigned \in reading.todo => nudges[Assigned] = 0

\* The tick t of the cron has been and its reminders are out, or are going out.
AllAsked(u, t) ==
    /\ t < clock => nudges[u] = 1
    /\ t = clock /\ reading.ran => nudges[u] = 1 \/ u \in reading.todo

RatersAsked ==
    nudge = "rate" /\ ~ rated =>
        \A u \in Reviewer, b \in Buckets :
            joined[u] <= b - HalfBucket /\ b \notin missed =>
                \A t \in (b - HalfBucket) .. (b + HalfBucket) : Tick(t) => AllAsked(u, t)

LateAsked ==
    nudge = "late" /\ working.in = {} =>
        /\ working.accepted
        /\ missed = {} =>
             /\ clock > LateAfter => nudges[Assigned] = 1
             /\ clock = LateAfter /\ reading.ran =>
                  nudges[Assigned] = 1 \/ Assigned \in reading.todo

RemindInv == RemindersTypeOK /\ FlaggedOnce /\ RatersAsked /\ LateAsked

LEMMA AssignedIsNudged == Assigned \in Crew /\ Assigned \in Nudged
  BY RemindersAssumption DEF Assigned, Nudged

\* A bucket is as wide as the cron is slow: there is a tick in it.
LEMMA BucketHasTick ==
  ASSUME phase \in 0..3, nudge = "rate", NEW b \in Buckets
  PROVE  \E t \in (b - HalfBucket) .. (b + HalfBucket) : Tick(t)
<1>1. Cadence = 4 BY DEF Cadence
<1>2. CASE b = 24
  <2>1. CASE phase = 0 BY <1>1, <1>2, <2>1, 24 % 4 = 0 % 4 DEF HalfBucket, Tick
  <2>2. CASE phase = 1 BY <1>1, <1>2, <2>2, 25 % 4 = 1 % 4 DEF HalfBucket, Tick
  <2>3. CASE phase = 2 BY <1>1, <1>2, <2>3, 22 % 4 = 2 % 4 DEF HalfBucket, Tick
  <2>4. CASE phase = 3 BY <1>1, <1>2, <2>4, 23 % 4 = 3 % 4 DEF HalfBucket, Tick
  <2>5. QED BY <2>1, <2>2, <2>3, <2>4
<1>3. CASE b = 192
  <2>1. CASE phase = 0 BY <1>1, <1>3, <2>1, 192 % 4 = 0 % 4 DEF HalfBucket, Tick
  <2>2. CASE phase = 1 BY <1>1, <1>3, <2>2, 193 % 4 = 1 % 4 DEF HalfBucket, Tick
  <2>3. CASE phase = 2 BY <1>1, <1>3, <2>3, 190 % 4 = 2 % 4 DEF HalfBucket, Tick
  <2>4. CASE phase = 3 BY <1>1, <1>3, <2>4, 191 % 4 = 3 % 4 DEF HalfBucket, Tick
  <2>5. QED BY <2>1, <2>2, <2>3, <2>4
<1>4. QED BY <1>2, <1>3 DEF Buckets

LEMMA LateTicks ==
  ASSUME nudge = "late", NEW t \in Nat, phase \in 0..3 PROVE Tick(t)
<1>1. \A n \in Nat : n % 1 = 0 OBVIOUS
<1>2. phase \in Nat OBVIOUS
<1>3. Cadence = 1 BY DEF Cadence
<1>4. t % 1 = 0 /\ phase % 1 = 0 BY <1>1, <1>2
<1>5. QED BY <1>3, <1>4 DEF Tick

LEMMA RemindInvInit == RemindersInit => RemindInv
<1> SUFFICES ASSUME RemindersInit PROVE RemindInv
  OBVIOUS
<1>1. RemindersTypeOK
  <2>1. phase \in 0..3
    <3>1. CASE nudge = "rate" BY <3>1 DEF RemindersInit
    <3>2. CASE nudge # "rate" BY <3>2 DEF RemindersInit
    <3>3. QED BY <3>1, <3>2
  <2>2. /\ reading \in [ran : BOOLEAN, todo : SUBSET Nudged]
        /\ working \in [in : SUBSET Crew, accepted : BOOLEAN]
    BY DEF RemindersInit
  <2>3. joined \in [Reviewer -> Nat] /\ nudges \in [Nudged -> Nat] BY DEF RemindersInit
  <2>4. QED BY <2>1, <2>2, <2>3 DEF RemindersInit, RemindersTypeOK
<1>2. FlaggedOnce BY DEF RemindersInit, FlaggedOnce
<1>3. RatersAsked
  BY DEF RemindersInit, RatersAsked, AllAsked, Buckets, HalfBucket
<1>4. LateAsked BY DEF RemindersInit, LateAsked, LateAfter
<1>5. QED BY <1>1, <1>2, <1>3, <1>4 DEF RemindInv

LEMMA CronRuns ==
  ASSUME RemindInv, NEW up \in BOOLEAN, CronRun(up) PROVE RemindInv'
<1> USE DEF RemindInv
<1>1. /\ reading' = [ran |-> TRUE, todo |-> IF up THEN DueAt(clock) ELSE {}]
      /\ Tick(clock) /\ ~ reading.ran
      /\ UNCHANGED <<clock, nudge, phase, joined, rated, nudges, working>>
  BY DEF CronRun
<1>2. missed' = IF up THEN missed
                ELSE missed \union (IF nudge = "late" THEN {0}
                                    ELSE {b \in Buckets : InBucket(clock, b)})
  BY DEF CronRun
<1>3. DueAt(clock) \subseteq Nudged BY AssignedIsNudged DEF DueAt, Nudged
<1>4. /\ reading'.ran = TRUE /\ reading'.todo = (IF up THEN DueAt(clock) ELSE {})
      /\ reading' \in [ran : BOOLEAN, todo : SUBSET Nudged]
  BY <1>1, <1>3
<1>5. missed' \subseteq Buckets \union {0} /\ missed \subseteq missed'
  BY <1>2 DEF RemindersTypeOK
<1>6. RemindersTypeOK' BY <1>1, <1>4, <1>5 DEF RemindersTypeOK
<1>7. FlaggedOnce'
  <2>1. nudge = "late" => /\ DueAt(clock) \subseteq {Assigned}
                          /\ Assigned \in DueAt(clock) => nudges[Assigned] = 0
    BY DEF DueAt
  <2>2. QED BY <1>1, <1>4, <2>1 DEF FlaggedOnce
<1>8. RatersAsked'
  <2> SUFFICES ASSUME nudge = "rate", ~ rated, NEW u \in Reviewer, NEW b \in Buckets,
                      joined[u] <= b - HalfBucket, b \notin missed',
                      NEW t \in (b - HalfBucket) .. (b + HalfBucket), Tick(t)
               PROVE  AllAsked(u, t)'
    BY <1>1 DEF RatersAsked, Tick, Cadence
  <2>1. AllAsked(u, t) BY <1>5 DEF RatersAsked
  <2>2. CASE t < clock BY <1>1, <2>1, <2>2 DEF AllAsked
  <2>3. CASE t = clock
    <3>1. InBucket(clock, b) BY <2>3 DEF InBucket, Buckets, HalfBucket
    <3>2. up BY <1>2, <3>1
    <3>3. u \in DueAt(clock)
      BY <2>3, <3>1 DEF DueAt, RemindersTypeOK, Buckets, HalfBucket
    <3>4. QED BY <1>1, <1>4, <2>3, <3>2, <3>3 DEF AllAsked
  <2>4. CASE t > clock BY <1>1, <2>4 DEF AllAsked, RemindersTypeOK, Buckets, HalfBucket
  <2>5. QED BY <2>2, <2>3, <2>4 DEF RemindersTypeOK, Buckets, HalfBucket
<1>9. LateAsked'
  <2> SUFFICES ASSUME nudge = "late", working.in = {}
               PROVE  /\ working.accepted
                      /\ missed' = {} =>
                           /\ clock > LateAfter => nudges[Assigned] = 1
                           /\ clock = LateAfter =>
                                nudges[Assigned] = 1 \/ Assigned \in reading'.todo
    BY <1>1 DEF LateAsked
  <2>1. working.accepted BY DEF LateAsked
  <2>2. ASSUME missed' = {} PROVE up /\ missed = {} BY <1>2, <2>2
  <2>3. clock = LateAfter /\ nudges[Assigned] = 0 => Assigned \in DueAt(clock)
    BY <2>1 DEF DueAt, LateAfter
  <2>4. nudges[Assigned] \in {0, 1}
    BY AssignedIsNudged DEF FlaggedOnce, RemindersTypeOK
  <2>5. QED BY <1>4, <2>1, <2>2, <2>3, <2>4 DEF LateAsked
<1>10. QED BY <1>6, <1>7, <1>8, <1>9

LEMMA NudgeWrites ==
  ASSUME RemindInv, NEW u \in Nudged, Nudge(u) PROVE RemindInv'
<1> USE DEF RemindInv
<1>1. /\ u \in reading.todo
      /\ reading' = [reading EXCEPT !.todo = reading.todo \ {u}]
      /\ UNCHANGED <<clock, nudge, phase, joined, rated, missed, working>>
  BY DEF Nudge
<1>2. /\ reading' \in [ran : BOOLEAN, todo : SUBSET Nudged]
      /\ reading'.ran = reading.ran /\ reading'.todo = reading.todo \ {u}
  BY <1>1 DEF RemindersTypeOK
<1>3. nudges' = IF nudge = "rate" /\ nudges[u] > 0 THEN nudges
                ELSE [nudges EXCEPT ![u] = nudges[u] + 1]
  BY DEF Nudge
<1>4. nudges[u] \in {0, 1} BY DEF FlaggedOnce, RemindersTypeOK
<1>5. nudge = "late" => u = Assigned /\ nudges[u] = 0
  BY <1>1 DEF FlaggedOnce
<1>6. /\ nudges' \in [Nudged -> Nat] /\ nudges'[u] = 1
      /\ \A v \in Nudged \ {u} : nudges'[v] = nudges[v]
  <2>1. CASE nudge = "rate" /\ nudges[u] > 0
    BY <1>3, <1>4, <2>1 DEF RemindersTypeOK
  <2>2. CASE ~(nudge = "rate" /\ nudges[u] > 0)
    <3>1. nudges[u] = 0 BY <1>4, <1>5, <2>2 DEF RemindersTypeOK
    <3>2. QED BY <1>3, <2>2, <3>1 DEF RemindersTypeOK
  <2>3. QED BY <2>1, <2>2
<1>7. RemindersTypeOK' BY <1>1, <1>2, <1>6 DEF RemindersTypeOK
<1>8. FlaggedOnce' BY <1>1, <1>2, <1>5, <1>6 DEF FlaggedOnce
<1>9. RatersAsked'
  <2> SUFFICES ASSUME nudge = "rate", ~ rated, NEW v \in Reviewer, NEW b \in Buckets,
                      joined[v] <= b - HalfBucket, b \notin missed,
                      NEW t \in (b - HalfBucket) .. (b + HalfBucket), Tick(t)
               PROVE  AllAsked(v, t)'
    BY <1>1 DEF RatersAsked, Tick, Cadence
  <2>1. AllAsked(v, t) BY DEF RatersAsked
  <2>2. v \in Nudged BY DEF Nudged
  <2>3. CASE v = u BY <1>6, <2>3 DEF AllAsked
  <2>4. CASE v # u BY <1>1, <1>2, <1>6, <2>1, <2>2, <2>4 DEF AllAsked
  <2>5. QED BY <2>3, <2>4
<1>10. LateAsked'
  BY <1>1, <1>2, <1>5, <1>6 DEF LateAsked
<1>11. QED BY <1>7, <1>8, <1>9, <1>10

LEMMA Waits ==
  ASSUME RemindInv, Wait PROVE RemindInv'
<1> USE DEF RemindInv
<1>1. /\ reading.todo = {} /\ (Tick(clock) => reading.ran) /\ clock' = clock + 1
      /\ reading' = [reading EXCEPT !.ran = FALSE]
      /\ UNCHANGED <<nudge, phase, joined, rated, missed, nudges, working>>
      /\ clock \in Nat
  BY DEF Wait, RemindersTypeOK
<1>2. /\ reading' \in [ran : BOOLEAN, todo : SUBSET Nudged]
      /\ reading'.ran = FALSE /\ reading'.todo = {}
  BY <1>1 DEF RemindersTypeOK
<1>3. RemindersTypeOK' BY <1>1, <1>2 DEF RemindersTypeOK
<1>4. FlaggedOnce' BY <1>1, <1>2 DEF FlaggedOnce
<1>5. RatersAsked'
  <2> SUFFICES ASSUME nudge = "rate", ~ rated, NEW u \in Reviewer, NEW b \in Buckets,
                      joined[u] <= b - HalfBucket, b \notin missed,
                      NEW t \in (b - HalfBucket) .. (b + HalfBucket), Tick(t)
               PROVE  AllAsked(u, t)'
    BY <1>1 DEF RatersAsked, Tick, Cadence
  <2>1. AllAsked(u, t) BY DEF RatersAsked
  <2>2. CASE t < clock BY <1>1, <1>2, <2>1, <2>2 DEF AllAsked
  <2>3. CASE t = clock BY <1>1, <1>2, <2>1, <2>3 DEF AllAsked
  <2>4. CASE t > clock BY <1>1, <1>2, <2>4 DEF AllAsked, Buckets, HalfBucket
  <2>5. QED BY <1>1, <2>2, <2>3, <2>4 DEF Buckets, HalfBucket
<1>6. LateAsked'
  <2> SUFFICES ASSUME nudge = "late", working.in = {}
               PROVE  /\ working.accepted
                      /\ missed = {} /\ clock + 1 > LateAfter => nudges[Assigned] = 1
    BY <1>1, <1>2 DEF LateAsked
  <2>1. working.accepted BY DEF LateAsked
  <2>2. reading.ran BY <1>1, LateTicks DEF RemindersTypeOK
  <2>3. QED BY <1>1, <2>1, <2>2 DEF LateAsked, LateAfter
<1>7. QED BY <1>3, <1>4, <1>5, <1>6

LEMMA RemindInvStep == RemindInv /\ [RemindersNext]_reminderVars => RemindInv'
<1> SUFFICES ASSUME RemindInv, [RemindersNext]_reminderVars PROVE RemindInv'
  OBVIOUS
<1> USE DEF RemindInv
<1>1. CASE RateNow
  <2>1. RemindersTypeOK' /\ FlaggedOnce'
    BY <1>1 DEF RateNow, RemindersTypeOK, FlaggedOnce
  <2>2. RatersAsked' /\ LateAsked' BY <1>1 DEF RateNow, RatersAsked, LateAsked
  <2>3. QED BY <2>1, <2>2
<1>2. ASSUME NEW w \in Crew, ClockInLate(w) PROVE RemindInv'
  <2>1. /\ nudge = "late" /\ working' = [in |-> working.in \union {w}, accepted |-> FALSE]
        /\ UNCHANGED <<clock, nudge, phase, joined, rated, missed, reading, nudges>>
    BY <1>2 DEF ClockInLate
  <2>2. working' \in [in : SUBSET Crew, accepted : BOOLEAN] /\ working'.in # {}
    BY <2>1 DEF RemindersTypeOK
  <2>3. RemindersTypeOK' /\ FlaggedOnce'
    BY <2>1, <2>2 DEF RemindersTypeOK, FlaggedOnce
  <2>4. RatersAsked' /\ LateAsked' BY <2>1, <2>2 DEF RatersAsked, LateAsked
  <2>5. QED BY <2>3, <2>4
<1>3. CASE UNCHANGED reminderVars
  BY <1>3 DEF reminderVars, RemindersTypeOK, FlaggedOnce, RatersAsked, LateAsked, AllAsked,
              Tick, Cadence
<1>4. QED BY <1>1, <1>2, <1>3, CronRuns, NudgeWrites, Waits DEF RemindersNext

LEMMA RemindInvKeeps == RemindInv => NudgedOnce
<1> SUFFICES ASSUME RemindInv PROVE NudgedOnce
  OBVIOUS
<1>1. \A u \in Nudged : nudges[u] <= 1 BY DEF RemindInv, FlaggedOnce
<1>2. ASSUME nudge = "rate", ~ rated, NEW u \in Reviewer, NEW b \in Buckets, Reached(u, b)
      PROVE  nudges[u] = 1
  <2>1. PICK t \in (b - HalfBucket) .. (b + HalfBucket) : Tick(t)
    BY <1>2, BucketHasTick DEF RemindInv, RemindersTypeOK
  <2>2. AllAsked(u, t) BY <1>2, <2>1 DEF RemindInv, RatersAsked, Reached
  <2>3. t < clock
    BY <1>2, <2>1 DEF Reached, RemindInv, RemindersTypeOK, Buckets, HalfBucket
  <2>4. QED BY <2>2, <2>3 DEF AllAsked
<1>3. nudge = "late" /\ working.in = {} /\ clock > LateAfter /\ missed = {} =>
        nudges[Assigned] = 1
  BY DEF RemindInv, LateAsked
<1>4. QED BY <1>1, <1>2, <1>3 DEF NudgedOnce

(* The crons that nudge reach each of those they nudge once, however their
   ticks, restarts and answers fall (rate-reminder.cron.ts:9): for any crew. *)
THEOREM RemindersReachOnce == RemindersSpec => []NudgedOnce
<1>1. RemindersInit => RemindInv
  BY RemindInvInit
<1>2. RemindInv /\ [RemindersNext]_reminderVars => RemindInv'
  BY RemindInvStep
<1>3. RemindInv => NudgedOnce
  BY RemindInvKeeps
<1> QED
  BY <1>1, <1>2, <1>3, PTL DEF RemindersSpec

(***************************************************************************)
(* The nightly scores of employers.                                        *)
(*                                                                         *)
(* One run is under way at most, and no snapshot is of a later day than    *)
(* its own: so what it writes is the latest, and what it read of an        *)
(* employer it has still to do is the score of that employer.              *)
(***************************************************************************)
RunUnderWay ==
    nightly.on =>
        /\ nightly.day \in 1 .. today
        /\ \A b \in Employer : DOMAIN snapshots[b] \subseteq 1 .. nightly.day
        /\ \A b \in nightly.left : nightly.read[b] = credit[b]

RunRow == [left : SUBSET Employer, read : {<< >>} \cup [Employer -> CreditScores],
           day : 0 .. LastDay, on : BOOLEAN]

Snapshots == \A b \in Employer : DOMAIN snapshots[b] \subseteq 1 .. today

RecalcInv ==
    /\ RecalcTypeOK /\ nightly \in RunRow /\ jobRuns \in Seq({"running", "succeeded", "failed"})
    /\ DOMAIN snapshots = Employer
    /\ nightly.on => jobRuns # << >>
    /\ Snapshots /\ RunUnderWay /\ ScoreIsLatest

LEMMA RecalcInvInit == RecalcInit => RecalcInv
  BY RecalcAssumption
  DEF RecalcInit, RecalcInv, RecalcTypeOK, RunRow, NoRun, Snapshots, RunUnderWay, ScoreIsLatest

LEMMA GreatestDay ==
  ASSUME NEW S \in SUBSET Int, NEW d \in S, \A e \in S : e <= d
  PROVE  Max(S) = d
<1>1. \E x \in S : \A y \in S : x >= y
  OBVIOUS
<1>2. Max(S) \in S /\ \A y \in S : Max(S) >= y
  BY <1>1 DEF Max
<1>3. PICK m : m = Max(S)
  OBVIOUS
<1>4. m \in Int /\ d \in Int /\ m >= d /\ m <= d
  BY <1>2, <1>3
<1> QED
  BY <1>3, <1>4

LEMMA RecalcInvStep == RecalcInv /\ [RecalcNext]_recalcVars => RecalcInv'
<1> SUFFICES ASSUME RecalcInv, [RecalcNext]_recalcVars PROVE RecalcInv'
  OBVIOUS
<1> USE RecalcAssumption
<1>0. /\ RecalcTypeOK /\ nightly \in RunRow /\ Snapshots /\ RunUnderWay /\ ScoreIsLatest
      /\ jobRuns \in Seq({"running", "succeeded", "failed"}) /\ DOMAIN snapshots = Employer
      /\ today \in 1 .. LastDay
      /\ nightly.on => jobRuns # << >>
  BY DEF RecalcInv, RecalcTypeOK
<1>1. ASSUME NEW b \in Employer, SkipEmployer(b) PROVE RecalcInv'
  <2>1. /\ nightly' \in RunRow /\ nightly'.left = nightly.left \ {b}
        /\ nightly'.read = nightly.read /\ nightly'.day = nightly.day /\ nightly'.on
    BY <1>0, <1>1 DEF SkipEmployer, RunRow
  <2> QED
    BY <1>0, <1>1, <2>1
    DEF SkipEmployer, RecalcInv, RecalcTypeOK, RunRow, Snapshots, RunUnderWay, ScoreIsLatest
<1>2. ASSUME NEW b \in Employer, NEW score \in CreditScores, Recompute(b, score)
      PROVE  RecalcInv'
  <2>1. /\ nightly' \in RunRow /\ nightly'.left = nightly.left \ {b}
        /\ nightly'.read = nightly.read /\ nightly'.day = nightly.day /\ nightly'.on
        /\ nightly.on /\ b \in nightly.left /\ UNCHANGED <<today, jobRuns>>
    BY <1>0, <1>2 DEF Recompute, RunRow
  <2>2. /\ nightly.day \in 1 .. today /\ nightly.day \in Int
        /\ \A c \in Employer : DOMAIN snapshots[c] \subseteq 1 .. nightly.day
        /\ \A c \in nightly.left : nightly.read[c] = credit[c]
    BY <1>0, <2>1 DEF RunUnderWay
  <2>3. /\ credit' \in [Employer -> CreditScores] /\ credit'[b] = score
        /\ \A c \in Employer \ {b} : credit'[c] = credit[c]
    BY <1>0, <1>2, <2>1, <2>2 DEF Recompute, RecalcTypeOK
  <2>4. /\ DOMAIN snapshots' = Employer
        /\ DOMAIN snapshots'[b] = DOMAIN snapshots[b] \cup {nightly.day}
        /\ snapshots'[b][nightly.day] = score
        /\ \A d \in DOMAIN snapshots[b] : d # nightly.day => snapshots'[b][d] = snapshots[b][d]
        /\ \A c \in Employer \ {b} : snapshots'[c] = snapshots[c]
    BY <1>0, <1>2 DEF Recompute
  <2>5. \A c \in Employer : DOMAIN snapshots'[c] \subseteq 1 .. nightly.day
    BY <2>2, <2>4
  <2>6. 1 .. nightly.day \subseteq 1 .. today /\ 1 .. today \subseteq 1 .. LastDay
    BY <1>0, <2>2
  <2>7. Snapshots' /\ RunUnderWay'
    BY <2>1, <2>2, <2>3, <2>5, <2>6 DEF Snapshots, RunUnderWay, RunRow
  <2>8. RecalcTypeOK'
    <3>1. \A c \in Employer : /\ DOMAIN snapshots'[c] \subseteq 1 .. LastDay
                              /\ \A d \in DOMAIN snapshots'[c] : snapshots'[c][d] \in CreditScores
      BY <1>0, <2>4, <2>5, <2>6 DEF RecalcTypeOK
    <3> QED
      BY <1>0, <2>1, <2>3, <3>1 DEF RecalcTypeOK, RunRow
  <2>9. ScoreIsLatest'
    <3>1. Max(DOMAIN snapshots'[b]) = nightly.day
      BY <2>2, <2>4, <2>5, GreatestDay
    <3> QED
      BY <1>0, <2>3, <2>4, <3>1 DEF ScoreIsLatest
  <2> QED
    BY <1>0, <2>1, <2>4, <2>7, <2>8, <2>9 DEF RecalcInv
<1>3. CASE RunBegins
  <2>1. /\ nightly' = [left |-> Employer, read |-> credit, day |-> today, on |-> TRUE]
        /\ UNCHANGED <<today, credit, snapshots>> /\ jobRuns' = Append(jobRuns, "running")
    BY <1>3 DEF RunBegins
  <2>2. nightly' \in RunRow
    BY <1>0, <2>1 DEF RecalcTypeOK, RunRow
  <2>3. jobRuns' \in Seq({"running", "succeeded", "failed"}) /\ jobRuns' # << >>
    BY <1>0, <2>1
  <2>4. RecalcTypeOK'
    BY <1>0, <2>1, <2>3 DEF RecalcTypeOK
  <2>5. RunUnderWay'
    BY <1>0, <2>1 DEF Snapshots, RunUnderWay
  <2> QED
    BY <1>0, <2>1, <2>2, <2>3, <2>4, <2>5 DEF RecalcInv, Snapshots, ScoreIsLatest
<1>4. CASE RunEnds \/ RunFails \/ RunCrashes
  <2>1. nightly' = NoRun /\ UNCHANGED <<today, credit, snapshots>> /\ nightly.on
    BY <1>4 DEF RunEnds, RunFails, RunCrashes
  <2>2. jobRuns' \in Seq({"running", "succeeded", "failed"})
    BY <1>0, <1>4, <2>1 DEF RunEnds, RunFails, RunCrashes, SetLast
  <2>3. nightly' \in RunRow /\ nightly'.left = {} /\ nightly'.on = FALSE
    BY <2>1 DEF NoRun, RunRow
  <2>4. RecalcTypeOK'
    <3>1. \A i \in DOMAIN jobRuns' : jobRuns'[i] \in {"running", "succeeded", "failed"}
      BY <2>2
    <3> QED
      BY <1>0, <2>1, <2>3, <3>1 DEF RecalcTypeOK
  <2> QED
    BY <1>0, <2>1, <2>2, <2>3, <2>4 DEF RecalcInv, Snapshots, RunUnderWay, ScoreIsLatest
<1>5. CASE NextDay
  BY <1>0, <1>5
  DEF NextDay, RecalcInv, RecalcTypeOK, RunRow, Snapshots, RunUnderWay, ScoreIsLatest
<1>6. CASE UNCHANGED recalcVars
  BY <1>0, <1>6
  DEF recalcVars, RecalcInv, RecalcTypeOK, Snapshots, RunUnderWay, ScoreIsLatest
<1> QED
  BY <1>1, <1>2, <1>3, <1>4, <1>5, <1>6 DEF RecalcNext

(* However runs fail, crash, skip employers, cross midnight or are repeated in a day: the
   score an employer has is the last one of its history, which a page shows beside it
   (employer-score-recalc.cron.ts:75).  Any number of employers and days. *)
THEOREM ScoresAreLatest == RecalcSpec => []ScoreIsLatest
<1>1. RecalcInv => ScoreIsLatest
  BY DEF RecalcInv
<1> QED
  BY <1>1, RecalcInvInit, RecalcInvStep, PTL DEF RecalcSpec

(***************************************************************************)
(* The hints to dashboards.                                                *)
(*                                                                         *)
(* A handler that has committed a change of the review queue has a hint of *)
(* it still to publish (WillTell, Owes), so a dashboard that shows an old  *)
(* queue is about to hear of it, to ask or to be answered (Refreshed).     *)
(***************************************************************************)
ScriptStep == [commit : SUBSET Surface, tell : DOMAIN Hint]

TellsReview(step) == step.commit = {} /\ "review" \in Hint[step.tell]

WillTell(todo) ==
    \A i \in 1 .. Len(todo) : "review" \in todo[i].commit =>
        \E k \in (i + 1) .. Len(todo) : TellsReview(todo[k])

Owes(h) ==
    "review" \in publisher[h].untold =>
        \E k \in 1 .. Len(publisher[h].todo) : TellsReview(publisher[h].todo[k])

HandlerRow == [of : Tenant, todo : Seq(ScriptStep), untold : SUBSET Surface]
TabRow == [open : BOOLEAN, of : Tenant, stale : SUBSET Surface, newest : SUBSET Surface,
           answer : [Surface -> {"none", "new", "old"}]]

Untold(e) == \E h \in Publisher : publisher[h].of = e /\ "review" \in publisher[h].untold

Refreshed(t) ==
    tab[t].open =>
        \/ "review" \in tab[t].stale \/ Untold(tab[t].of)
        \/ tab[t].answer["review"] = "new"
        \/ tab[t].answer["review"] = "none" /\ "review" \in tab[t].newest

HandlersTell ==
    /\ publisher \in [Publisher -> HandlerRow]
    /\ \A h \in Publisher : /\ Len(publisher[h].todo) <= 5
                            /\ WillTell(publisher[h].todo) /\ Owes(h)

StreamInv ==
    /\ HandlersTell
    /\ tab \in [Tab -> TabRow]
    /\ \A t \in Tab : Refreshed(t)

LEMMA HintType == \A e \in DOMAIN Hint : Hint[e] \subseteq Surface
  BY DEF Hint, Surface

\* Every script that changes the queue tells of it after that.
LEMMA ScriptTells ==
  ASSUME NEW op \in DOMAIN Script
  PROVE  Script[op] \in Seq(ScriptStep) /\ Len(Script[op]) <= 5 /\ WillTell(Script[op])
<1>1. /\ \A S \in SUBSET Surface : Commit(S) \in ScriptStep /\ Commit(S).commit = S
      /\ \A e \in DOMAIN Hint : /\ Tell(e) \in ScriptStep /\ Tell(e).commit = {}
                                /\ Tell(e).tell = e
  BY DEF Commit, Tell, ScriptStep, Hint
<1>2. /\ {"map"} \in SUBSET Surface /\ {"map", "review"} \in SUBSET Surface
      /\ Surface \in SUBSET Surface /\ {"review"} \in SUBSET Surface
      /\ {"map", "payments"} \in SUBSET Surface
  BY DEF Surface
<1>3. /\ \A e \in {"job_lifecycle_changed", "worker_clock_event", "transaction_updated",
                   "session_pending_review", "session_review_resolved"} : e \in DOMAIN Hint
      /\ "review" \in Hint["session_pending_review"]
      /\ "review" \in Hint["session_review_resolved"]
  BY DEF Hint
<1>4. /\ TellsReview(Tell("session_pending_review"))
      /\ TellsReview(Tell("session_review_resolved"))
  BY <1>1, <1>3 DEF TellsReview
<1> USE DEF WillTell
<1> HIDE DEF TellsReview
<1>5. CASE op = "clock_in"
  <2>1. Script[op] = <<Commit({"map"})>>
    BY <1>5 DEF Script
  <2> QED
    BY <1>1, <1>2, <2>1
<1>6. CASE op = "clock_out"
  <2>1. Script[op] = <<Commit({"map", "review"}), Tell("worker_clock_event"),
                       Tell("session_pending_review")>>
    BY <1>6 DEF Script
  <2> QED
    BY <1>1, <1>2, <1>3, <1>4, <2>1
<1>7. CASE op = "confirm"
  <2>1. Script[op] = <<Commit(Surface), Tell("job_lifecycle_changed"),
                       Tell("transaction_updated"), Tell("session_review_resolved")>>
    BY <1>7 DEF Script
  <2> QED
    BY <1>1, <1>2, <1>3, <1>4, <2>1
<1>8. CASE op = "dispute"
  <2>1. Script[op] = <<Commit({"review"}), Tell("session_review_resolved")>>
    BY <1>8 DEF Script
  <2> QED
    BY <1>1, <1>2, <1>3, <1>4, <2>1
<1>9. CASE op = "auto_release"
  <2>1. Script[op] = <<Commit({"map", "payments"}), Tell("job_lifecycle_changed"),
                       Tell("transaction_updated"), Commit({"review"}),
                       Tell("session_review_resolved")>>
    BY <1>9 DEF Script
  <2> QED
    BY <1>1, <1>2, <1>3, <1>4, <2>1
<1> QED
  BY <1>5, <1>6, <1>7, <1>8, <1>9 DEF Script

\* What follows the first step of a script.
LEMMA TailTells ==
  ASSUME NEW todo \in Seq(ScriptStep), todo # << >>, WillTell(todo), Len(todo) <= 5
  PROVE  /\ Tail(todo) \in Seq(ScriptStep) /\ Len(Tail(todo)) <= 5 /\ WillTell(Tail(todo))
         /\ todo[1] \in ScriptStep
         /\ (\E k \in 1 .. Len(todo) : TellsReview(todo[k])) /\ ~ TellsReview(todo[1])
              => \E k \in 1 .. Len(Tail(todo)) : TellsReview(Tail(todo)[k])
         /\ "review" \in todo[1].commit
              => \E k \in 1 .. Len(Tail(todo)) : TellsReview(Tail(todo)[k])
<1>1. /\ Len(todo) \in Nat \ {0} /\ Len(Tail(todo)) = Len(todo) - 1
      /\ Tail(todo) \in Seq(ScriptStep)
      /\ \A k \in 1 .. Len(todo) - 1 : Tail(todo)[k] = todo[k + 1]
      /\ todo[1] \in ScriptStep
  OBVIOUS
<1>2. \A m \in 2 .. Len(todo) : m - 1 \in 1 .. Len(Tail(todo)) /\ Tail(todo)[m - 1] = todo[m]
  BY <1>1
<1>3. ASSUME NEW i \in 1 .. Len(Tail(todo)), "review" \in Tail(todo)[i].commit
      PROVE  \E k \in (i + 1) .. Len(Tail(todo)) : TellsReview(Tail(todo)[k])
  <2>1. i + 1 \in 1 .. Len(todo) /\ Tail(todo)[i] = todo[i + 1]
    BY <1>1
  <2>2. PICK k \in (i + 2) .. Len(todo) : TellsReview(todo[k])
    BY <1>1, <1>3, <2>1 DEF WillTell
  <2>3. k - 1 \in (i + 1) .. Len(Tail(todo)) /\ Tail(todo)[k - 1] = todo[k]
    BY <1>1, <1>2, <2>2
  <2> QED
    BY <2>2, <2>3
<1>4. WillTell(Tail(todo))
  BY <1>3 DEF WillTell
<1>5. ASSUME NEW k \in 2 .. Len(todo), TellsReview(todo[k])
      PROVE  \E m \in 1 .. Len(Tail(todo)) : TellsReview(Tail(todo)[m])
  BY <1>2, <1>5
<1>6. ASSUME "review" \in todo[1].commit
      PROVE  \E k \in 2 .. Len(todo) : TellsReview(todo[k])
  BY <1>1, <1>6 DEF WillTell
<1>7. ASSUME NEW k \in 1 .. Len(todo), TellsReview(todo[k]), ~ TellsReview(todo[1])
      PROVE  k \in 2 .. Len(todo)
  BY <1>1, <1>7
<1> QED
  BY <1>1, <1>4, <1>5, <1>6, <1>7

LEMMA HandlerSteps ==
  ASSUME StreamInv, NEW h \in Publisher, CommitRows(h) \/ PublishEvent(h)
  PROVE  /\ HandlersTell'
         /\ publisher'[h].of = publisher[h].of
         /\ CommitRows(h) => publisher'[h].untold =
                               publisher[h].untold \cup publisher[h].todo[1].commit
         /\ PublishEvent(h) => publisher'[h].untold =
                                 publisher[h].untold \ Hint[publisher[h].todo[1].tell]
         /\ publisher[h].todo[1] \in ScriptStep
         /\ \A g \in Publisher \ {h} : publisher'[g] = publisher[g]
<1> DEFINE todo == publisher[h].todo
<1>1. /\ publisher \in [Publisher -> HandlerRow] /\ todo \in Seq(ScriptStep) /\ todo # << >>
      /\ WillTell(todo) /\ Owes(h) /\ Len(todo) <= 5 /\ publisher[h].untold \subseteq Surface
  BY DEF StreamInv, HandlersTell, HandlerRow, CommitRows, PublishEvent
<1> HIDE DEF todo
<1>2. PICK untold \in SUBSET Surface :
        /\ publisher' = [publisher EXCEPT ![h].untold = untold, ![h].todo = Tail(@)]
        /\ CommitRows(h) => untold = publisher[h].untold \cup todo[1].commit
        /\ PublishEvent(h) => untold = publisher[h].untold \ Hint[todo[1].tell]
        /\ "review" \in untold =>
             \/ "review" \in todo[1].commit
             \/ "review" \in publisher[h].untold /\ ~ TellsReview(todo[1])
  <2>1. CASE CommitRows(h)
    <3>1. /\ todo[1].commit # {} /\ todo[1].commit \subseteq Surface
          /\ publisher' = [publisher EXCEPT ![h].untold = @ \cup todo[1].commit,
                                            ![h].todo = Tail(@)]
      BY <1>1, <2>1, TailTells DEF CommitRows, ScriptStep, todo
    <3>2. ~ PublishEvent(h)
      BY <3>1 DEF PublishEvent, todo
    <3>3. publisher[h].untold \cup todo[1].commit \in SUBSET Surface
      BY <1>1, <3>1
    <3>4. ~ TellsReview(todo[1])
      BY <3>1 DEF TellsReview
    <3>5. publisher' = [publisher EXCEPT ![h].untold = publisher[h].untold \cup todo[1].commit,
                                         ![h].todo = Tail(@)]
      BY <1>1, <3>1
    <3> QED
      BY <3>2, <3>3, <3>4, <3>5, Zenon
  <2>2. CASE PublishEvent(h)
    <3>1. /\ todo[1].commit = {}
          /\ publisher' = [publisher EXCEPT ![h].untold = @ \ Hint[todo[1].tell],
                                            ![h].todo = Tail(@)]
      BY <2>2 DEF PublishEvent, todo
    <3>2. ~ CommitRows(h)
      BY <3>1 DEF CommitRows, todo
    <3> QED
      BY <1>1, <3>1, <3>2 DEF TellsReview
  <2> QED
    BY <2>1, <2>2
<1>3. /\ publisher'[h].of = publisher[h].of /\ publisher'[h].untold = untold
      /\ publisher'[h].todo = Tail(todo) /\ publisher' \in [Publisher -> HandlerRow]
      /\ \A g \in Publisher \ {h} : publisher'[g] = publisher[g]
  BY <1>1, <1>2, TailTells DEF HandlerRow, todo
<1>4. Owes(h)'
  BY <1>1, <1>2, <1>3, TailTells DEF Owes, todo
<1>5. \A g \in Publisher \ {h} : Owes(g)' <=> Owes(g)
  BY <1>3 DEF Owes
<1>6. HandlersTell'
  BY <1>1, <1>3, <1>4, <1>5, TailTells DEF StreamInv, HandlersTell
<1> QED
  BY <1>1, <1>2, <1>3, <1>6, TailTells DEF todo

LEMMA StreamInvInit == StreamInit => StreamInv
<1> SUFFICES ASSUME StreamInit PROVE StreamInv
  OBVIOUS
<1>1. NoHandler \in HandlerRow /\ NoHandler.todo = << >> /\ NoHandler.untold = {}
      /\ Closed \in TabRow /\ Closed.open = FALSE
  BY StreamAssumption DEF NoHandler, Closed, HandlerRow, TabRow
<1>2. HandlersTell
  BY <1>1 DEF StreamInit, HandlersTell, WillTell, Owes
<1> QED
  BY <1>1, <1>2 DEF StreamInit, StreamInv, Refreshed

LEMMA StreamInvStep == StreamInv /\ [StreamNext]_streamVars => StreamInv'
<1> SUFFICES ASSUME StreamInv, [StreamNext]_streamVars PROVE StreamInv'
  OBVIOUS
<1>0. /\ HandlersTell /\ publisher \in [Publisher -> HandlerRow] /\ tab \in [Tab -> TabRow]
      /\ NoHandler \in HandlerRow /\ NoHandler.todo = << >> /\ NoHandler.untold = {}
      /\ Closed \in TabRow /\ Closed.open = FALSE
  BY StreamAssumption DEF StreamInv, HandlersTell, NoHandler, Closed, HandlerRow, TabRow
<1>1. ASSUME NEW h \in Publisher, NEW e \in Tenant, NEW op \in DOMAIN Script,
             StartHandler(h, e, op)
      PROVE  StreamInv'
  <2>1. /\ publisher[h].untold = {} /\ UNCHANGED tab
        /\ publisher' = [publisher EXCEPT ![h] = [of |-> e, todo |-> Script[op], untold |-> {}]]
    BY <1>0, <1>1 DEF StartHandler
  <2>2. /\ publisher' \in [Publisher -> HandlerRow] /\ publisher'[h].todo = Script[op]
        /\ publisher'[h].untold = {} /\ \A g \in Publisher \ {h} : publisher'[g] = publisher[g]
    BY <1>0, <2>1, ScriptTells DEF HandlerRow
  <2>3. HandlersTell'
    BY <1>0, <2>2, ScriptTells DEF HandlersTell, Owes
  <2>4. \A u \in Tenant : Untold(u) => Untold(u)'
    BY <2>1, <2>2 DEF Untold
  <2>5. \A t \in Tab : tab[t].of \in Tenant
    BY <1>0 DEF TabRow
  <2> QED
    BY <1>0, <2>1, <2>3, <2>4, <2>5 DEF StreamInv, Refreshed
<1>2. ASSUME NEW h \in Publisher, CommitRows(h) PROVE StreamInv'
  <2> DEFINE S == publisher[h].todo[1].commit
             e == publisher[h].of
             Aged(a) == IF a = "new" THEN "old" ELSE a
  <2>1. /\ HandlersTell' /\ publisher'[h].of = e /\ S \subseteq Surface
        /\ publisher'[h].untold = publisher[h].untold \cup S
        /\ \A g \in Publisher \ {h} : publisher'[g] = publisher[g]
    BY <1>2, HandlerSteps DEF ScriptStep
  <2>2. tab' = [t \in Tab |->
              IF tab[t].of = e
              THEN [tab[t] EXCEPT
                      !.newest = @ \ S,
                      !.answer = [s \in Surface |-> IF s \in S THEN Aged(@[s]) ELSE @[s]]]
              ELSE tab[t]]
    BY <1>2 DEF CommitRows, ScopeMatches
  <2> HIDE DEF S, e
  <2>3. ASSUME NEW t \in Tab
        PROVE  /\ tab'[t] \in TabRow /\ tab'[t].of = tab[t].of /\ tab'[t].open = tab[t].open
               /\ tab'[t].stale = tab[t].stale
               /\ ~ ("review" \in S /\ tab[t].of = e) =>
                    /\ tab'[t].answer["review"] = tab[t].answer["review"]
                    /\ "review" \in tab[t].newest => "review" \in tab'[t].newest
    <3>1. /\ tab[t] \in TabRow /\ "review" \in Surface
          /\ \A s \in Surface : tab[t].answer[s] \in {"none", "new", "old"}
      BY <1>0 DEF TabRow, Surface
    <3>2. CASE tab[t].of = e
      BY <2>2, <3>1, <3>2 DEF TabRow
    <3>3. CASE tab[t].of # e
      BY <2>2, <3>1, <3>3
    <3> QED
      BY <3>2, <3>3
  <2>4. \A u \in Tenant : Untold(u) => Untold(u)'
    BY <2>1 DEF Untold, e
  <2>5. ASSUME NEW t \in Tab PROVE Refreshed(t)'
    <3>1. Refreshed(t) /\ tab[t].of \in Tenant
      BY <1>0 DEF StreamInv, TabRow
    <3>2. CASE "review" \in S /\ tab[t].of = e
      BY <2>1, <2>3, <3>2 DEF Refreshed, Untold, e
    <3>3. CASE ~ ("review" \in S /\ tab[t].of = e)
      BY <2>3, <2>4, <3>1, <3>3 DEF Refreshed
    <3> QED
      BY <3>2, <3>3
  <2>6. tab' \in [Tab -> TabRow]
    BY <2>2, <2>3
  <2> QED
    BY <2>1, <2>5, <2>6 DEF StreamInv
<1>3. ASSUME NEW h \in Publisher, PublishEvent(h) PROVE StreamInv'
  <2> DEFINE S == Hint[publisher[h].todo[1].tell]
             e == publisher[h].of
  <2>1. /\ HandlersTell' /\ publisher'[h].of = e /\ S \subseteq Surface
        /\ publisher'[h].untold = publisher[h].untold \ S
        /\ \A g \in Publisher \ {h} : publisher'[g] = publisher[g]
    BY <1>3, HandlerSteps, HintType DEF ScriptStep
  <2>2. tab' = [t \in Tab |-> IF tab[t].open /\ tab[t].of = e
                              THEN [tab[t] EXCEPT !.stale = @ \cup S] ELSE tab[t]]
    BY <1>3 DEF PublishEvent, ScopeMatches
  <2> HIDE DEF S, e
  <2>3. ASSUME NEW t \in Tab
        PROVE  /\ tab'[t] \in TabRow /\ tab'[t].of = tab[t].of /\ tab'[t].open = tab[t].open
               /\ tab[t].stale \subseteq tab'[t].stale
               /\ tab[t].open /\ tab[t].of = e => S \subseteq tab'[t].stale
               /\ tab'[t].answer = tab[t].answer /\ tab'[t].newest = tab[t].newest
    <3>1. tab[t] \in TabRow
      BY <1>0
    <3> QED
      BY <2>1, <2>2, <3>1 DEF TabRow
  <2>4. \A u \in Tenant : Untold(u) => Untold(u)' \/ (u = e /\ "review" \in S)
    BY <2>1 DEF Untold, e
  <2>5. ASSUME NEW t \in Tab PROVE Refreshed(t)'
    <3>1. Refreshed(t) /\ tab[t].of \in Tenant
      BY <1>0 DEF StreamInv, TabRow
    <3> QED
      BY <2>3, <2>4, <3>1 DEF Refreshed
  <2>6. tab' \in [Tab -> TabRow]
    BY <2>2, <2>3
  <2> QED
    BY <2>1, <2>5, <2>6 DEF StreamInv
<1>4. ASSUME NEW h \in Publisher, EndHandler(h) PROVE StreamInv'
  <2>1. /\ publisher[h].todo = << >> /\ UNCHANGED tab
        /\ publisher' = [publisher EXCEPT ![h] = NoHandler]
    BY <1>4 DEF EndHandler
  <2>2. "review" \notin publisher[h].untold
    BY <1>0, <2>1 DEF HandlersTell, Owes
  <2>3. /\ publisher' \in [Publisher -> HandlerRow] /\ publisher'[h] = NoHandler
        /\ \A g \in Publisher \ {h} : publisher'[g] = publisher[g]
    BY <1>0, <2>1
  <2>4. HandlersTell'
    BY <1>0, <2>3 DEF HandlersTell, Owes, WillTell
  <2>5. \A u \in Tenant : Untold(u) => Untold(u)'
    BY <2>2, <2>3 DEF Untold
  <2>6. \A t \in Tab : tab[t].of \in Tenant
    BY <1>0 DEF TabRow
  <2> QED
    BY <1>0, <2>1, <2>4, <2>5, <2>6 DEF StreamInv, Refreshed
<1>5. ASSUME NEW t \in Tab, UNCHANGED publisher,
             \A u \in Tab \ {t} : tab'[u] = tab[u],
             tab' \in [Tab -> TabRow], Refreshed(t)'
      PROVE  StreamInv'
  <2>1. HandlersTell'
    BY <1>0, <1>5 DEF HandlersTell, Owes
  <2>2. \A u \in Tab \ {t} : Refreshed(u)'
    BY <1>5 DEF StreamInv, Refreshed, Untold
  <2> QED
    BY <1>5, <2>1, <2>2 DEF StreamInv
<1>6. ASSUME NEW t \in Tab, Disconnect(t) \/ \E e \in Tenant : Connect(t, e) PROVE StreamInv'
  <2>1. PICK row \in TabRow : /\ tab' = [tab EXCEPT ![t] = row] /\ UNCHANGED publisher
                              /\ row.open => row.stale = Surface
    <3>1. CASE Disconnect(t)
      BY <1>0, <3>1 DEF Disconnect
    <3>2. ASSUME NEW e \in Tenant, Connect(t, e)
          PROVE  \E row \in TabRow : /\ tab' = [tab EXCEPT ![t] = row] /\ UNCHANGED publisher
                                     /\ row.open => row.stale = Surface
      <4>1. PICK row : row = [Closed EXCEPT !.open = TRUE, !.of = e, !.stale = Surface]
        OBVIOUS
      <4>2. row \in TabRow /\ row.stale = Surface
        BY <1>0, <4>1 DEF TabRow
      <4> QED
        BY <3>2, <4>1, <4>2 DEF Connect
    <3> QED
      BY <1>6, <3>1, <3>2
  <2>2. /\ tab'[t] = row /\ tab' \in [Tab -> TabRow] /\ \A u \in Tab \ {t} : tab'[u] = tab[u]
    BY <1>0, <2>1
  <2>3. Refreshed(t)'
    BY <2>1, <2>2 DEF Refreshed, Surface
  <2> QED
    BY <1>5, <2>1, <2>2, <2>3
<1>7. ASSUME NEW t \in Tab, NEW s \in Surface, Fetch(t, s) PROVE StreamInv'
  <2>1. /\ tab' = [tab EXCEPT ![t].stale = @ \ {s}, ![t].answer[s] = "new"]
        /\ UNCHANGED publisher /\ tab[t] \in TabRow /\ "review" \in Surface
    BY <1>0, <1>7 DEF Fetch, Surface
  <2>2. /\ tab'[t].open = tab[t].open /\ tab'[t].of = tab[t].of
        /\ tab'[t].stale = tab[t].stale \ {s} /\ tab'[t].newest = tab[t].newest
        /\ tab'[t].answer = [tab[t].answer EXCEPT ![s] = "new"]
        /\ tab' \in [Tab -> TabRow] /\ \A u \in Tab \ {t} : tab'[u] = tab[u]
    BY <1>0, <2>1 DEF TabRow
  <2>3. /\ s = "review" => tab'[t].answer["review"] = "new"
        /\ s # "review" => tab'[t].answer["review"] = tab[t].answer["review"]
    BY <2>1, <2>2 DEF TabRow
  <2>4. Refreshed(t)'
    BY <2>1, <2>2, <2>3 DEF StreamInv, Refreshed, Untold
  <2> QED
    BY <1>5, <2>1, <2>2, <2>4
<1>8. ASSUME NEW t \in Tab, NEW s \in Surface, ShowAnswer(t, s) PROVE StreamInv'
  <2>1. PICK newest : newest = IF tab[t].answer[s] = "new" THEN tab[t].newest \cup {s}
                               ELSE tab[t].newest \ {s}
    OBVIOUS
  <2>2. /\ tab' = [tab EXCEPT ![t].answer[s] = "none", ![t].newest = newest]
        /\ UNCHANGED publisher /\ tab[t] \in TabRow /\ "review" \in Surface
    BY <1>0, <1>8, <2>1 DEF ShowAnswer, Surface
  <2>3. newest \subseteq Surface
    BY <2>1, <2>2 DEF TabRow
  <2>4. /\ tab'[t].open = tab[t].open /\ tab'[t].of = tab[t].of
        /\ tab'[t].stale = tab[t].stale /\ tab'[t].newest = newest
        /\ tab'[t].answer = [tab[t].answer EXCEPT ![s] = "none"]
        /\ tab' \in [Tab -> TabRow] /\ \A u \in Tab \ {t} : tab'[u] = tab[u]
    BY <1>0, <2>2, <2>3 DEF TabRow
  <2>5. /\ s = "review" => tab'[t].answer["review"] = "none"
        /\ s # "review" => tab'[t].answer["review"] = tab[t].answer["review"]
    BY <2>2, <2>4 DEF TabRow
  <2>6. tab[t].answer[s] # "none"
    BY <1>8 DEF ShowAnswer
  <2>7. Refreshed(t) /\ (Untold(tab[t].of) <=> Untold(tab[t].of)')
    BY <2>2, <2>4 DEF StreamInv, Untold
  <2>8. Refreshed(t)'
    BY <2>1, <2>4, <2>5, <2>6, <2>7 DEF Refreshed
  <2> QED
    BY <1>5, <2>2, <2>4, <2>8
<1>9. CASE StreamCrash
  BY <1>0, <1>9 DEF StreamCrash, StreamInv, HandlersTell, WillTell, Owes, Refreshed
<1>10. CASE UNCHANGED streamVars
  <2>1. HandlersTell'
    BY <1>0, <1>10 DEF streamVars, HandlersTell, Owes
  <2> QED
    BY <1>10, <2>1 DEF streamVars, StreamInv, Refreshed, Untold
<1> QED
  BY <1>1, <1>2, <1>3, <1>4, <1>6, <1>7, <1>8, <1>9, <1>10 DEF StreamNext

LEMMA StreamInvKeeps == StreamInv => QueueFresh
  BY DEF StreamInv, Refreshed, Untold, QueueFresh, TabRow

(* However commits, hints, fetches, answers, lost connections and crashes follow each
   other, the review queue on an open dashboard is the one stored, up to what is on its way
   (stream.publisher.ts:55, auto-release.cron.ts:62): for any number of dashboards,
   employers and handlers. *)
THEOREM QueuesAreFresh == StreamSpec => []QueueFresh
<1> QED
  BY StreamInvKeeps, StreamInvInit, StreamInvStep, PTL DEF StreamSpec
===============================================================================
