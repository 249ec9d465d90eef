------------------------------- MODULE Settings -------------------------------
(***************************************************************************)
(* The settings of one business (settings.service.ts): its profile, what   *)
(* it is notified of, its wallet at Squad and its billing; pausing and     *)
(* resuming payouts (employer-payouts.service.ts), the account that is     *)
(* provisioned for it (virtual-account-provisioner.service.ts), and the    *)
(* sending of its invoices (employer-invoices.service.ts).  Owners call at *)
(* the same time; a call reads the row and writes later.                   *)
(***************************************************************************)
EXTENDS Integers

CONSTANTS
    SettingsCall,   \* requests in flight
    Invoice         \* invoices of the business

VARIABLES
    business,       \* the row of the business
    settingsCall,   \* what each request read and will write
    wished,         \* ghost: what was last written of each setting on request
    invoice,        \* Invoice -> its status
    mailedTo        \* Invoice -> whether a mail of it was handed to the provider

settingsVars == <<business, settingsCall, wished, invoice, mailedTo>>
--------------------------------------------------------------------------------
\* Settings that are written as they are asked: one of the profile, one of the
\* notifications, and the address for invoices, which may be taken out.
SettingValues ==
    [businessName |-> {"one", "two"}, newApplication |-> {"on", "off"},
     invoicingEmail |-> {"none", "office"}]
Setting == DOMAIN SettingValues
NoRequest == [at |-> "idle"]

Writes ==
    {NoRequest}
    \union (UNION {[at : {"update"}, set : {x}, to : SettingValues[x]] : x \in Setting})
    \union [at : {"disconnect", "provision"}]
    \union [at : {"pause"}, to : BOOLEAN]
    \union [at : {"send"}, i : Invoice]

SettingsTypeOK ==
    /\ DOMAIN business = Setting \union {"wallet", "number", "payoutsPaused"}
    /\ \A x \in Setting : business[x] \in SettingValues[x] /\ wished[x] \in SettingValues[x]
    /\ {business.wallet, business.number, business.payoutsPaused} \subseteq BOOLEAN
    /\ settingsCall \in [SettingsCall -> Writes]
    /\ invoice \in [Invoice -> {"none", "draft", "sent"}]
    /\ mailedTo \in [Invoice -> BOOLEAN]

NewSettings == [businessName |-> "one", newApplication |-> "on", invoicingEmail |-> "none"]

SettingsInit ==
    /\ business = [businessName |-> "one", newApplication |-> "on", invoicingEmail |-> "none",
                   wallet |-> FALSE, number |-> FALSE, payoutsPaused |-> FALSE]
    /\ settingsCall = [k \in SettingsCall |-> NoRequest]
    /\ wished = NewSettings
    /\ invoice = [i \in Invoice |-> "none"]
    /\ mailedTo = [i \in Invoice |-> FALSE]

Begins(k, c) ==
    /\ settingsCall[k] = NoRequest
    /\ settingsCall' = [settingsCall EXCEPT ![k] = c]
    /\ UNCHANGED <<business, wished, invoice, mailedTo>>
Ends(k) == settingsCall' = [settingsCall EXCEPT ![k] = NoRequest]
--------------------------------------------------------------------------------
\* updateBusiness, updateNotifications, updateBilling: the row is read, for the
\* audit; then what the body names is written, and nothing else.
AskUpdate(k, x, v) == Begins(k, [at |-> "update", set |-> x, to |-> v])

WriteSetting(k) ==
    LET c == settingsCall[k]
    IN  /\ c.at = "update"
        /\ business' = [business EXCEPT ![c.set] = c.to]
        /\ wished' = [wished EXCEPT ![c.set] = c.to]
        /\ Ends(k)
        /\ UNCHANGED <<invoice, mailedTo>>

\* ensureForEmployer: skipped when there is a number; else Squad opens an account.
AskProvision(k) == ~ business.number /\ Begins(k, [at |-> "provision"])

OpenWallet(k, opened) ==
    /\ settingsCall[k].at = "provision"
    /\ business' = IF opened THEN [business EXCEPT !.wallet = TRUE, !.number = TRUE]
                   ELSE business
    /\ Ends(k)
    /\ UNCHANGED <<wished, invoice, mailedTo>>

\* disconnectSquad: nothing to do without a wallet; payouts are paused with it.
AskDisconnect(k) == business.wallet /\ Begins(k, [at |-> "disconnect"])

DisconnectSquad(k) ==
    /\ settingsCall[k].at = "disconnect"
    /\ business' = [business EXCEPT !.wallet = FALSE, !.payoutsPaused = TRUE]
    /\ Ends(k)
    /\ UNCHANGED <<wished, invoice, mailedTo>>

\* setPaused: nothing to do when it is so already; a resume does not ask whether
\* the wallet is connected.
AskPaused(k, p) == business.payoutsPaused # p /\ Begins(k, [at |-> "pause", to |-> p])

SetPaused(k) ==
    /\ settingsCall[k].at = "pause"
    /\ business' = [business EXCEPT !.payoutsPaused = settingsCall[k].to]
    /\ Ends(k)
    /\ UNCHANGED <<wished, invoice, mailedTo>>

\* generateInvoice and generateBatch make a draft (module Boards has its lines).
DraftInvoice(i) ==
    /\ invoice[i] = "none"
    /\ invoice' = [invoice EXCEPT ![i] = "draft"]
    /\ UNCHANGED <<business, settingsCall, wished, mailedTo>>

\* send: as often as one likes, for nothing pays an invoice; without an address it
\* is refused.  The mail is handed over first, and whether it goes out is not awaited.
AskSend(k, i) ==
    /\ invoice[i] # "none" /\ business.invoicingEmail # "none"
    /\ settingsCall[k] = NoRequest
    /\ settingsCall' = [settingsCall EXCEPT ![k] = [at |-> "send", i |-> i]]
    /\ mailedTo' = [mailedTo EXCEPT ![i] = TRUE]
    /\ UNCHANGED <<business, wished, invoice>>

MarkSent(k) ==
    /\ settingsCall[k].at = "send"
    /\ invoice' = [invoice EXCEPT ![settingsCall[k].i] = "sent"]
    /\ Ends(k)
    /\ UNCHANGED <<business, wished, mailedTo>>

\* The process stops between the two steps of the requests.
SettingsCrash ==
    /\ settingsCall' = [k \in SettingsCall |-> NoRequest]
    /\ UNCHANGED <<business, wished, invoice, mailedTo>>
--------------------------------------------------------------------------------
SettingsNext ==
    \/ \E k \in SettingsCall :
          \/ \E x \in Setting : \E v \in SettingValues[x] : AskUpdate(k, x, v)
          \/ \E opened \in BOOLEAN : OpenWallet(k, opened)
          \/ \E p \in BOOLEAN : AskPaused(k, p)
          \/ \E i \in Invoice : AskSend(k, i)
          \/ WriteSetting(k) \/ AskProvision(k) \/ AskDisconnect(k) \/ DisconnectSquad(k)
          \/ SetPaused(k) \/ MarkSent(k)
    \/ \E i \in Invoice : DraftInvoice(i)
    \/ SettingsCrash

SettingsSpec == SettingsInit /\ [][SettingsNext]_settingsVars
--------------------------------------------------------------------------------
(* However the requests of the owners cross, every setting holds what was last
   written of it on request: no request writes back what it read of another setting.
   A connected wallet has its number, and an invoice that is marked sent was handed
   to the mailer (settings.service.ts:43-171, employer-invoices.service.ts:166-219). *)
SettingsKept ==
    /\ \A x \in Setting : business[x] = wished[x]
    /\ business.wallet => business.number
    /\ \A i \in Invoice : invoice[i] = "sent" => mailedTo[i]
================================================================================
