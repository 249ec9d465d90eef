-------------------------------- MODULE Profile --------------------------------
(***************************************************************************)
(* The profile of a worker (me.service.ts): its photo and the uploads      *)
(* photos are taken from (uploads.service.ts, liveness.service.ts), the    *)
(* change of its phone number, and the deletion of its account.  A call    *)
(* reads and writes later; calls overlap.                                  *)
(***************************************************************************)
EXTENDS Integers, FiniteSets

CONSTANTS
    Member,         \* workers with an account
    Number,         \* phone numbers
    Change,         \* rows of OtpChallenge with the flow phone_change
    File,           \* rows of Upload
    ProfileCall,    \* requests in flight
    MaxLiveness,    \* liveness.rateLimit.attempts
    NoFile, NoNumber

ASSUME ProfileAssumption == Member # {} /\ Number # {} /\ MaxLiveness \in Nat

VARIABLES
    phoneOf,        \* Member -> its number, NoNumber before it is registered
    change,         \* Change -> the row
    proven,         \* pairs of a member and a number it entered the code of
    upload,         \* File -> the row
    photo,          \* Member -> the upload its photoUrl is of
    selfies,        \* Member -> liveness attempts counted in the window
    owes,           \* Member -> what stands in the way of a deletion
    leaving,        \* Member -> deletionScheduledAt is set
    profileCall     \* what each call has read

profileVars == <<phoneOf, change, proven, upload, photo, selfies, owes, leaving, profileCall>>
phoneVars == <<phoneOf, change, proven>>
photoVars == <<upload, photo, selfies>>
leaveVars == <<owes, leaving>>
--------------------------------------------------------------------------------
NoCall == [at |-> "idle"]

ChangeRow == [st : {"none", "valid", "expired"}, by : Member, to : Number,
              consumed : BOOLEAN, tries : Nat]
UploadRow == [st : {"none", "fresh", "expired"}, by : Member, promoted : BOOLEAN,
              purpose : {"worker_avatar", "clock_out_proof", "liveness_selfie"}]

OwesRow == [loan : BOOLEAN, withdrawal : {"none", "processing", "pending"}]

InProfile ==
    {NoCall}
    \union [at : {"asked"}, by : Member, to : Number]
    \union [at : {"compared"}, c : Change, right : BOOLEAN]
    \union [at : {"photo"}, by : Member, f : File]
    \union [at : {"show"}, by : Member, f : File \union {NoFile}]
    \union [at : {"verify"}, by : Member]
    \union [at : {"leave", "settle"}, by : Member]

ProfileTypeOK ==
    /\ phoneOf \in [Member -> Number \union {NoNumber}]
    /\ change \in [Change -> ChangeRow]
    /\ proven \subseteq Member \X Number
    /\ upload \in [File -> UploadRow]
    /\ photo \in [Member -> File \union {NoFile}]
    /\ selfies \in [Member -> 0 .. MaxLiveness]
    /\ owes \in [Member -> OwesRow]
    /\ leaving \in [Member -> BOOLEAN]
    /\ profileCall \in [ProfileCall -> InProfile]

ProfileInit ==
    /\ phoneOf \in {h \in [Member -> Number \union {NoNumber}] :
          \A m, n \in Member : h[m] = h[n] => m = n \/ h[m] = NoNumber}
    /\ change = [c \in Change |-> [st |-> "none", by |-> CHOOSE m \in Member : TRUE,
                                   to |-> CHOOSE x \in Number : TRUE,
                                   consumed |-> FALSE, tries |-> 0]]
    /\ proven = {<<m, phoneOf[m]>> : m \in {n \in Member : phoneOf[n] # NoNumber}}
    /\ upload = [f \in File |-> [st |-> "none", by |-> CHOOSE m \in Member : TRUE,
                                 promoted |-> FALSE, purpose |-> "worker_avatar"]]
    /\ photo = [m \in Member |-> NoFile]
    /\ selfies = [m \in Member |-> 0]
    /\ owes = [m \in Member |-> [loan |-> FALSE, withdrawal |-> "none"]]
    /\ leaving = [m \in Member |-> FALSE]
    /\ profileCall = [k \in ProfileCall |-> NoCall]

Starts(k, c) == profileCall[k] = NoCall /\ profileCall' = [profileCall EXCEPT ![k] = c]
Goes(k, c) == profileCall' = [profileCall EXCEPT ![k] = c]
Done(k) == Goes(k, NoCall)
--------------------------------------------------------------------------------
(* The phone number *)
Held(x) == \E m \in Member : phoneOf[m] = x

\* phoneChangeRequest: any number but another worker's, as often as one likes.
AskChange(k, m, x) ==
    /\ phoneOf[m] # NoNumber
    /\ \A n \in Member \ {m} : phoneOf[n] # x
    /\ Starts(k, [at |-> "asked", by |-> m, to |-> x])
    /\ UNCHANGED <<phoneVars, photoVars, leaveVars>>

WriteChange(k, c) ==
    /\ profileCall[k].at = "asked" /\ change[c].st = "none"
    /\ change' = [change EXCEPT ![c] =
          [st |-> "valid", by |-> profileCall[k].by, to |-> profileCall[k].to,
           consumed |-> FALSE, tries |-> 0]]
    /\ Done(k)
    /\ UNCHANGED <<phoneOf, proven, photoVars, leaveVars>>

\* phoneChangeConfirm, by the worker that asked; the tries are not looked at.
CompareChange(k, c, right) ==
    /\ change[c].st = "valid" /\ ~ change[c].consumed
    /\ Starts(k, [at |-> "compared", c |-> c, right |-> right])
    /\ UNCHANGED <<phoneVars, photoVars, leaveVars>>

\* The code is consumed and the number changed, or neither: the number is unique.
ConfirmChange(k) ==
    /\ profileCall[k].at = "compared"
    /\ LET c == profileCall[k].c
           m == change[c].by
           x == change[c].to
           free == \A n \in Member \ {m} : phoneOf[n] # x
       IN  IF ~ profileCall[k].right
           THEN /\ change' = [change EXCEPT ![c].tries = @ + 1]
                /\ UNCHANGED <<phoneOf, proven>>
           ELSE /\ proven' = proven \union {<<m, x>>}
                /\ change' = IF free THEN [change EXCEPT ![c].consumed = TRUE] ELSE change
                /\ phoneOf' = IF free THEN [phoneOf EXCEPT ![m] = x] ELSE phoneOf
    /\ Done(k)
    /\ UNCHANGED <<photoVars, leaveVars>>

ChangeExpires(c) ==
    /\ change[c].st = "valid"
    /\ change' = [change EXCEPT ![c].st = "expired"]
    /\ UNCHANGED <<phoneOf, proven, photoVars, leaveVars, profileCall>>

\* Somebody signs up with a free number (module WorkerAuth).
Occupy(m, x) ==
    /\ phoneOf[m] = NoNumber /\ ~ Held(x)
    /\ phoneOf' = [phoneOf EXCEPT ![m] = x]
    /\ proven' = proven \union {<<m, x>>}
    /\ UNCHANGED <<change, photoVars, leaveVars, profileCall>>
--------------------------------------------------------------------------------
(* Uploads and the photo.  The object is stored, then the row is created. *)
Stored(f, m, purpose) ==
    /\ upload[f].st = "none"
    /\ upload' = [upload EXCEPT ![f] = [st |-> "fresh", by |-> m, promoted |-> FALSE,
                                        purpose |-> purpose]]

\* store: refuses a selfie, which has a way of its own.
StoreFile(f, m, purpose) ==
    /\ purpose # "liveness_selfie"
    /\ Stored(f, m, purpose)
    /\ UNCHANGED <<phoneVars, photo, selfies, leaveVars, profileCall>>

\* What the provider's answer is made of, in the order it is looked at.
Verdict(code, spoof, poor, confident) ==
    IF code \in {"0810", "0811", "0814"}
    THEN IF spoof THEN "not_live"
         ELSE IF poor \/ ~ confident THEN "low_quality" ELSE "ok"
    ELSE IF code = "0820" THEN "no_face_detected"
    ELSE IF code = "0821" THEN "multiple_faces" ELSE "image_invalid"

\* verifyAndStore: the attempt is counted before the provider is asked, in a
\* window that begins with the first attempt and is lost when the process stops.
AskLiveness(k, m) ==
    /\ selfies[m] < MaxLiveness
    /\ Starts(k, [at |-> "verify", by |-> m])
    /\ selfies' = [selfies EXCEPT ![m] = @ + 1]
    /\ UNCHANGED <<phoneVars, upload, photo, leaveVars>>

Verified(k, f, verdict) ==
    /\ profileCall[k].at = "verify"
    /\ IF verdict = "ok" THEN Stored(f, profileCall[k].by, "liveness_selfie")
       ELSE UNCHANGED upload
    /\ Done(k)
    /\ UNCHANGED <<phoneVars, photo, selfies, leaveVars>>

WindowEnds ==
    /\ \E m \in Member : selfies[m] > 0
    /\ selfies' = [m \in Member |-> 0]
    /\ UNCHANGED <<phoneVars, upload, photo, leaveVars, profileCall>>

FileExpires(f) ==
    /\ upload[f].st = "fresh"
    /\ upload' = [upload EXCEPT ![f].st = "expired"]
    /\ UNCHANGED <<phoneVars, photo, selfies, leaveVars, profileCall>>

\* edit: an avatar of one's own, expired or not; it is promoted, then shown.
OpenPhoto(k, m, f) ==
    /\ upload[f].st # "none" /\ upload[f].by = m /\ upload[f].purpose = "worker_avatar"
    /\ Starts(k, [at |-> "photo", by |-> m, f |-> f])
    /\ UNCHANGED <<phoneVars, photoVars, leaveVars>>

PromoteFile(k) ==
    /\ profileCall[k].at = "photo"
    /\ upload' = [upload EXCEPT ![profileCall[k].f].promoted = TRUE]
    /\ Goes(k, [at |-> "show", by |-> profileCall[k].by, f |-> profileCall[k].f])
    /\ UNCHANGED <<phoneVars, photo, selfies, leaveVars>>

ShowPhoto(k) ==
    /\ profileCall[k].at = "show"
    /\ photo' = [photo EXCEPT ![profileCall[k].by] = profileCall[k].f]
    /\ Done(k)
    /\ UNCHANGED <<phoneVars, upload, selfies, leaveVars>>

\* An edit of something else writes the photo back that it read.
OpenEdit(k, m) ==
    /\ Starts(k, [at |-> "show", by |-> m, f |-> photo[m]])
    /\ UNCHANGED <<phoneVars, photoVars, leaveVars>>

DropPhoto(m) ==
    /\ photo[m] # NoFile
    /\ photo' = [photo EXCEPT ![m] = NoFile]
    /\ UNCHANGED <<phoneVars, upload, selfies, leaveVars, profileCall>>
--------------------------------------------------------------------------------
(* The end of the account: a loan that is active is in the way, and a withdrawal
   that is "pending", which none is (module Withdrawals: they are "processing"). *)
AskLeave(k, m) ==
    /\ ~ owes[m].loan
    /\ Starts(k, [at |-> "leave", by |-> m])
    /\ UNCHANGED <<phoneVars, photoVars, leaveVars>>

CheckPayouts(k) ==
    /\ profileCall[k].at = "leave"
    /\ IF owes[profileCall[k].by].withdrawal = "pending" THEN Done(k)
       ELSE Goes(k, [at |-> "settle", by |-> profileCall[k].by])
    /\ UNCHANGED <<phoneVars, photoVars, leaveVars>>

ScheduleDeletion(k) ==
    /\ profileCall[k].at = "settle"
    /\ leaving' = [leaving EXCEPT ![profileCall[k].by] = TRUE]
    /\ Done(k)
    /\ UNCHANGED <<phoneVars, photoVars, owes>>

\* A loan is granted or repaid, a withdrawal begins or ends, leaving or not.
Owe(m, what) ==
    /\ owes' = [owes EXCEPT ![m] = what]
    /\ owes[m] # what /\ what.withdrawal # "pending"
    /\ UNCHANGED <<phoneVars, photoVars, leaving, profileCall>>
--------------------------------------------------------------------------------
ProfileStep(k) ==
    \/ \E m \in Member : \/ \E x \in Number : AskChange(k, m, x)
                         \/ \E f \in File : OpenPhoto(k, m, f)
                         \/ OpenEdit(k, m) \/ AskLiveness(k, m) \/ AskLeave(k, m)
    \/ \E c \in Change : \/ WriteChange(k, c)
                         \/ \E right \in BOOLEAN : CompareChange(k, c, right)
    \/ \E f \in File, code \in {"0810", "0820"}, poor \in BOOLEAN :
          Verified(k, f, Verdict(code, FALSE, poor, TRUE))
    \/ ConfirmChange(k) \/ PromoteFile(k) \/ ShowPhoto(k)
    \/ CheckPayouts(k) \/ ScheduleDeletion(k)

ProfileNext ==
    \/ \E k \in ProfileCall : ProfileStep(k)
    \/ \E c \in Change : ChangeExpires(c)
    \/ \E f \in File : \/ FileExpires(f)
                       \/ \E m \in Member, purpose \in {"worker_avatar", "clock_out_proof"} :
                             StoreFile(f, m, purpose)
    \/ \E m \in Member :
          \/ DropPhoto(m)
          \/ \E x \in Number : Occupy(m, x)
          \/ \E loan \in BOOLEAN, w \in {"none", "processing"} :
                Owe(m, [loan |-> loan, withdrawal |-> w])
    \/ WindowEnds

ProfileSpec == ProfileInit /\ [][ProfileNext]_profileVars
--------------------------------------------------------------------------------
(* A worker's number is one it entered the code of, and no other worker's, however
   requests and confirmations cross (me.service.ts:192-282). *)
NumbersProven ==
    \A m \in Member : phoneOf[m] # NoNumber =>
        /\ <<m, phoneOf[m]>> \in proven
        /\ \A n \in Member \ {m} : phoneOf[n] # phoneOf[m]

(* The photo shown is an avatar the worker uploaded itself, and it is promoted, so
   that a sweep of expired uploads would leave it alone (me.service.ts:61-81). *)
PhotosKept ==
    \A m \in Member : photo[m] # NoFile =>
        /\ upload[photo[m]].by = m /\ upload[photo[m]].promoted
        /\ upload[photo[m]].purpose = "worker_avatar"
================================================================================
