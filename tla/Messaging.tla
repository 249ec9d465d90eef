------------------------------- MODULE Messaging -------------------------------
(***************************************************************************)
(* Push messages to the devices of one worker and the channel of one-time  *)
(* codes (push-notification.service.ts, fcm.client.ts,                     *)
(* otp-channel.service.ts).                                                *)
(*                                                                         *)
(* A push goes to the devices that were read when it began, takes up to    *)
(* seven seconds for each, and removes at its end the rows whose token     *)
(* Firebase no longer knows.  Meanwhile the app registers new tokens.      *)
(***************************************************************************)
EXTENDS Integers, FiniteSets, Sequences

CONSTANTS
    Device,
    MaxToken,     \* tokens a device is given, one after the other
    MaxRow,       \* rows of DeviceToken ever created
    Kind,         \* kinds of message, of those below
    Push          \* messages in flight

ASSUME PushAssumption == MaxToken \in Nat \ {0} /\ MaxRow \in Nat

VARIABLES
    devices,      \* the rows of DeviceToken, the latest written first
    installed,    \* Device -> its current token; Firebase knows no other
    made,         \* rows created so far
    muted,        \* flags the worker has switched off in Preference
    push,         \* Push -> the message
    rewritten,    \* rows written while a message was in flight
    channels      \* the configuration: which of push and WhatsApp are switched on

pushVars == <<devices, installed, made, muted, push, rewritten, channels>>
-----------------------------------------------------------------------------
NewJobKinds == {"new_job"}
ApplicationKinds == {"application_accepted", "application_rejected",
                     "application_received", "job_cancelled", "clock_in_reminder",
                     "worker_late"}
PaymentKinds == {"payment_initiated", "payment_processed", "payment_received",
                 "payment_pending", "payment_held_for_review", "payment_disputed",
                 "payment_refunded"}
LoanKinds == {"loan_approved", "loan_rejected", "loan_disbursed",
              "loan_repayment_made", "loan_repayment_due"}

\* preferenceFlagForKind: codes, ratings and system messages have no switch.
FlagsFor(kind) ==
    {f \in {"newJobAlerts", "applicationUpdates", "paymentConfirmations", "loanReminders"} :
        \/ f = "newJobAlerts" /\ kind \in NewJobKinds
        \/ f = "applicationUpdates" /\ kind \in ApplicationKinds
        \/ f = "paymentConfirmations" /\ kind \in PaymentKinds
        \/ f = "loanReminders" /\ kind \in LoanKinds}

DeviceRow == [device : Device, token : 1..MaxToken, id : 1..MaxRow]
Target == [device : Device, token : 1..MaxToken, id : 0..MaxRow]   \* 0: a hint, no row

Texts == {"whatsapp", "sms"}
Channel == {"push"} \union Texts
Unsent == [at |-> "idle"]

\* A code also has the texts it is sent by: picked, what is up, what took it.
Message ==
    {Unsent}
    \union [at : {"send", "prune", "texts"}, code : BOOLEAN, todo : SUBSET Target,
            dead : SUBSET Target, picked : Channel, known : BOOLEAN, took : SUBSET Channel]
    \union [at : {"answered"}, picked : Channel, up : SUBSET Texts,
            took : SUBSET Channel, channel : Channel]

DeviceRows == {devices[i] : i \in 1..Len(devices)}

PushTypeOK ==
    /\ DeviceRows \subseteq DeviceRow
    /\ \A i, j \in 1..Len(devices) : devices[i].device = devices[j].device => i = j
    /\ installed \in [Device -> 1..MaxToken]
    /\ made \in 0..MaxRow
    /\ muted \subseteq UNION {FlagsFor(k) : k \in Kind}
    /\ \A m \in Push : push[m] \in Message
    /\ rewritten \subseteq 1..MaxRow
    /\ channels \subseteq {"push", "whatsapp"}

PushInit ==
    /\ devices = <<>> /\ made = 0
    /\ installed = [d \in Device |-> 1]
    /\ muted = {} /\ rewritten = {}
    /\ channels \in SUBSET {"push", "whatsapp"}
    /\ push = [m \in Push |-> Unsent]
-----------------------------------------------------------------------------
(* The app *)
InFlight == \E m \in Push : push[m].at \in {"send", "prune"}

\* The rows but those of R, in their order.
Without(R) ==
    LET Kept[n \in 0..Len(devices)] ==
          IF n = 0 THEN <<>>
          ELSE IF devices[n] \in R THEN Kept[n - 1] ELSE Append(Kept[n - 1], devices[n])
    IN  Kept[Len(devices)]

\* Upsert on (worker, device): the row keeps its id and takes the token; by
\* POST /me/devices, or as part of the verification of a code.
RegisterDevice(d) ==
    LET own == {r \in DeviceRows : r.device = d}
        id == IF own = {} THEN made + 1 ELSE (CHOOSE r \in own : TRUE).id IN
    /\ id <= MaxRow
    /\ devices' = <<[device |-> d, token |-> installed[d], id |-> id]>> \o Without(own)
    /\ made' = IF own = {} THEN id ELSE made
    /\ rewritten' = IF InFlight THEN rewritten \union {id} ELSE rewritten
    /\ UNCHANGED <<installed, muted, push, channels>>

\* DELETE /me/devices/:id, and the logout of a device.
UnregisterDevice(d) ==
    /\ \E r \in DeviceRows : r.device = d
    /\ devices' = Without({r \in DeviceRows : r.device = d})
    /\ UNCHANGED <<installed, made, muted, push, rewritten, channels>>

NewToken(d) ==
    /\ installed[d] < MaxToken
    /\ installed' = [installed EXCEPT ![d] = @ + 1]
    /\ UNCHANGED <<devices, made, muted, push, rewritten, channels>>

SetPreference(f) ==
    /\ muted' = IF f \in muted THEN muted \ {f} ELSE muted \union {f}
    /\ UNCHANGED <<devices, installed, made, push, rewritten, channels>>
-----------------------------------------------------------------------------
(* Sending *)
StartPush(m, msg) == push[m].at \in {"idle", "answered"} /\ push' = [push EXCEPT ![m] = msg]

NewMessage(code, todo, picked, known) ==
    [at |-> "send", code |-> code, todo |-> todo, dead |-> {},
     picked |-> picked, known |-> known, took |-> {}]

\* notifyWorker: the switch, then every row that is there.
NotifyWorker(m, kind) ==
    /\ FlagsFor(kind) \intersect muted = {}
    /\ DeviceRows # {}
    /\ StartPush(m, NewMessage(FALSE, DeviceRows, "push", TRUE))
    /\ UNCHANGED <<devices, installed, made, muted, rewritten, channels>>

\* pickChannel: an explicit text; else the device that asks, if it says which it
\* is; else the latest device of a known worker; else a text, by WhatsApp if enabled.
PickChannel(pref, known, hint) ==
    LET device == IF known /\ devices # <<>> THEN {Head(devices)} ELSE {}
        pushOn == "push" \in channels IN
    CASE pref \in {"whatsapp", "sms"} -> [channel |-> pref, to |-> {}]
      [] pref \in {"auto", "push"} /\ hint # {} /\ pushOn ->
            [channel |-> "push", to |-> hint]
      [] pref \in {"auto", "push"} /\ ~ (hint # {} /\ pushOn) ->
            IF device # {} /\ pushOn THEN [channel |-> "push", to |-> device]
            ELSE IF pref = "push" THEN [channel |-> "refused", to |-> {}]
            ELSE [channel |-> IF "whatsapp" \in channels THEN "whatsapp" ELSE "sms", to |-> {}]

\* A hint carries the token the app has now.
SendCode(m, pref, known, hinted) ==
    \E d \in Device :
      LET hint == IF hinted THEN {[device |-> d, token |-> installed[d], id |-> 0]} ELSE {}
          pick == PickChannel(pref, known, hint) IN
      /\ pick.channel # "refused"
      /\ StartPush(m, NewMessage(TRUE, pick.to, pick.channel, known))
      /\ UNCHANGED <<devices, installed, made, muted, rewritten, channels>>

\* What FCM answers for a token: it knows it, it does not, or it fails.
FcmAnswers(t) ==
    {IF t.token = installed[t.device] THEN "ok" ELSE "unregistered", "error", "mismatch"}

\* Variant: as if any failure meant that the device is gone.
AttemptHarsh(m, t, answer) ==
    /\ push[m].at = "send" /\ t \in push[m].todo /\ answer \in FcmAnswers(t)
    /\ push' = [push EXCEPT
         ![m].todo = @ \ {t},
         ![m].dead = IF answer # "ok" THEN @ \union {t} ELSE @,
         ![m].took = IF answer = "ok" THEN @ \union {"push"} ELSE @]
    /\ UNCHANGED <<devices, installed, made, muted, rewritten, channels>>

\* One device: an error is tried again, three times at most, and the last answer
\* counts.  A dead token is remembered; other failures are only logged.
Attempt(m, t, answer) ==
    /\ push[m].at = "send" /\ t \in push[m].todo /\ answer \in FcmAnswers(t)
    /\ push' = [push EXCEPT
         ![m].todo = @ \ {t},
         ![m].dead = IF answer = "unregistered" THEN @ \union {t} ELSE @,
         ![m].took = IF answer = "ok" THEN @ \union {"push"} ELSE @]
    /\ UNCHANGED <<devices, installed, made, muted, rewritten, channels>>

\* The texts of a code: WhatsApp if enabled and not ruled out, then SMS.
TextsTaken(picked, up) ==
    LET first == IF picked # "sms" /\ "whatsapp" \in channels THEN {"whatsapp"} ELSE {}
    IN  IF first \intersect up # {} THEN first ELSE {"sms"} \intersect up

Reported(took) ==
    CASE "push" \in took -> "push"
      [] "push" \notin took /\ took # {} -> CHOOSE c \in took : TRUE
      [] took = {} -> "sms"

\* The push is done.  The texts of a code run beside it; they are told afterwards.
PushDone(m) ==
    /\ push' = [push EXCEPT ![m] = IF @.code THEN [@ EXCEPT !.at = "texts", !.dead = {}]
                                   ELSE Unsent]
    /\ rewritten' = IF \E o \in Push \ {m} : push[o].at \in {"send", "prune"}
                    THEN rewritten ELSE {}

\* Every send is answered: dead rows are to go, for a worker that is known.
Sent(m) ==
    /\ push[m].at = "send" /\ push[m].todo = {}
    /\ IF push[m].dead # {} /\ push[m].known
       THEN push' = [push EXCEPT ![m].at = "prune"] /\ UNCHANGED rewritten
       ELSE PushDone(m)
    /\ UNCHANGED <<devices, installed, made, muted, channels>>

\* notifyWorker removes the rows it read, by id; a code that went to one device
\* removes the row of that device, whatever it holds now.
Pruned(m) ==
    {r \in DeviceRows : \E t \in push[m].dead :
        IF push[m].code THEN r.device = t.device ELSE r.id = t.id}

Prune(m) ==
    /\ push[m].at = "prune"
    /\ devices' = Without(Pruned(m))
    /\ PushDone(m)
    /\ UNCHANGED <<installed, made, muted, channels>>

\* up: the texts that get through.
Answered(m, up) ==
    LET took == push[m].took \union TextsTaken(push[m].picked, up) IN
    /\ push[m].at = "texts"
    /\ push' = [push EXCEPT ![m] = [at |-> "answered", picked |-> @.picked, up |-> up,
                                    took |-> took, channel |-> Reported(took)]]
    /\ UNCHANGED <<devices, installed, made, muted, rewritten, channels>>
-----------------------------------------------------------------------------
App(d) == RegisterDevice(d) \/ UnregisterDevice(d) \/ NewToken(d)

PushNext ==
    \/ \E d \in Device : App(d)
    \/ \E f \in UNION {FlagsFor(k) : k \in Kind} : SetPreference(f)
    \/ \E m \in Push :
         \/ \E k \in Kind : NotifyWorker(m, k)
         \/ \E pref \in {"auto", "push", "whatsapp", "sms"}, known, hinted \in BOOLEAN :
                SendCode(m, pref, known, hinted)
         \/ push[m].at = "send" /\ \E t \in push[m].todo : \E answer \in FcmAnswers(t) :
                Attempt(m, t, answer)
         \/ Sent(m) \/ Prune(m)
         \/ \E up \in SUBSET Texts : Answered(m, up)

PushSpec == PushInit /\ [][PushNext]_pushVars
-----------------------------------------------------------------------------
(* A message removes the row of a device only when its token is dead or was
   written while a message was in flight: the second is a race the code loses
   (push-notification.service.ts:234 and 310). *)
PrunedWasDead ==
    [][\A m \in Push : push[m].at = "prune" /\ push'[m].at # "prune" =>
         \A r \in Pruned(m) : r.token # installed[r.device] \/ r.id \in rewritten]_pushVars

(* A code that goes by push also goes by text, and a text has another to fall
   back on: the code reaches the worker if any of the channels it may take is up,
   and the channel reported took it, unless none did (otp-channel.service.ts:146). *)
CodeReaches ==
    \A m \in Push : push[m].at = "answered" =>
        LET may == IF push[m].picked = "sms" THEN {"sms"}
                   ELSE {"sms"} \union (channels \ {"push"}) IN
        /\ push[m].up \intersect may # {} => push[m].took # {}
        /\ push[m].channel \in push[m].took \/ push[m].took = {}
=============================================================================
