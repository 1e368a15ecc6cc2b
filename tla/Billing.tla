------------------------------ MODULE Billing -------------------------------
(***************************************************************************)
(* The billing service: a company's subscription and licence, the          *)
(* endpoints its administrators call, and the webhook through which Stripe *)
(* reports what became of the subscription it sells                        *)
(* (billing-service/app/api/v1/billing.py).                                *)
(*                                                                         *)
(* Administrators' calls run in worker threads; the webhook is an async    *)
(* handler without awaits, so the event loop runs one at a time.  Each has *)
(* a session of its own: it reads the rows, and its commit writes the      *)
(* columns it changed.  Stripe is external: it reports every change in     *)
(* order of occurrence, delivers a report again until it is acknowledged,  *)
(* and may deliver later reports first.                                    *)
(*                                                                         *)
(* Billing is enabled, the provider is Stripe, one company is modelled and *)
(* time is in days.                                                        *)
(***************************************************************************)
EXTENDS Integers, Sequences, SequencesExt

CONSTANTS Threads, Loop,   \* who serves administrators, who the webhook
          TrialDays,       \* TRIAL_DAYS
          GraceDays,       \* PAYMENT_GRACE_DAYS
          PeriodDays,      \* what a renewal at Stripe buys
          Reach,           \* how far ahead of its turn a report may arrive
          MaxTime, MaxMail \* bounds on the clock and on reports under way

ASSUME BillingAssumption ==
    /\ TrialDays \in Nat /\ GraceDays \in Nat
    /\ PeriodDays \in Nat \ {0} /\ Reach \in Nat \ {0}
    /\ MaxTime \in Nat /\ MaxMail \in Nat

Servers == Threads \cup {Loop}

VARIABLES
    now,
    sub,       \* the company's BillingSubscription
    lic,       \* the company's BillingLicense
    stripe,    \* Stripe's subscription
    mail,      \* reports Stripe has not seen acknowledged
    promised,  \* history: the latest end of a trial or period ever promised
    op         \* the call each server is in the middle of

billingVars == <<now, sub, lic, stripe, mail, promised, op>>

-----------------------------------------------------------------------------
(* Rows *)

Plan   == {"free", "standard"}
Status == {"trialing", "active", "past_due", "canceled"}
Subscription == [plan : Plan \cup {"none"}, status : Status, trialEnd : Nat, periodEnd : Nat]
Licence      == [status : {"none", "allocated", "active"}, shown : BOOLEAN, expires : Nat]

NoSubscription == [plan |-> "none", status |-> "trialing", trialEnd |-> 0, periodEnd |-> 0]
NoLicence      == [status |-> "none", shown |-> FALSE, expires |-> 0]

(* get_or_create_subscription, get_or_create_license *)
NewSubscription ==
    [plan |-> "free", status |-> "trialing",
     trialEnd |-> now + TrialDays, periodEnd |-> now + TrialDays]
NewLicence(shown) == [status |-> "allocated", shown |-> shown, expires |-> 0]

(* A commit writes the columns whose value differs from the one read. *)
BillingWritten(row, read, new) ==
    [c \in DOMAIN row |-> IF new[c] = read[c] THEN row[c] ELSE new[c]]

Later(t, u) == IF t < u THEN u ELSE t

(* activate_license_for_period *)
Activated(l, s) == [l EXCEPT !.status = "active", !.expires = s.periodEnd]

-----------------------------------------------------------------------------
(* What a company may use *)

EffectiveStatus(s) ==
    IF s.status = "trialing" /\ s.trialEnd < now THEN "expired" ELSE s.status

WorkspaceLocked(s) ==
    \/ EffectiveStatus(s) = "expired"
    \/ EffectiveStatus(s) = "past_due" /\ s.periodEnd + GraceDays < now
    \/ EffectiveStatus(s) = "canceled" /\ s.periodEnd < now

(* Wrong: an active licence never expires. *)
LicenceActiveForever(l) == l.status = "active"

LicenceActive(l) == l.status = "active" /\ ~(l.expires < now)

(* entitlements_for: the standard plan's limits, or the free plan's *)
StandardActive(s, l) ==
    /\ s.plan = "standard"
    /\ s.status \in {"active", "trialing"}
    /\ LicenceActive(l)
    /\ ~WorkspaceLocked(s)

-----------------------------------------------------------------------------
(* Calls in progress *)

BillingIdle == [kind |-> "idle"]

(* What a call is about, and the rows as it read them *)
BillingCall == [kind : {"select_free", "change_plan", "activate", "webhook"},
         plan : Plan \cup {"none"}, turn : Nat, sub : Subscription, lic : Licence]

Begin(w, kind, plan, turn) ==
    /\ op[w] = BillingIdle
    /\ sub # NoSubscription
    /\ op' = [op EXCEPT ![w] = [kind |-> kind, plan |-> plan, turn |-> turn,
                               sub |-> sub, lic |-> lic]]
    /\ UNCHANGED <<now, sub, lic, stripe, mail, promised>>

Serving(w, kind) == op[w].kind = kind

Finish(w) == op' = [op EXCEPT ![w] = BillingIdle]

Abort(w) ==
    /\ op[w] # BillingIdle
    /\ Finish(w)
    /\ UNCHANGED <<now, sub, lic, stripe, mail, promised>>

(* The first call for a company inserts its rows, in transactions of their *)
(* own.  The licence key is shown by GET /status and by rotate only.       *)
CreateSubscription(w) ==
    /\ op[w] = BillingIdle
    /\ sub = NoSubscription
    /\ sub' = NewSubscription
    /\ promised' = Later(promised, now + TrialDays)
    /\ UNCHANGED <<now, lic, stripe, mail, op>>

CreateLicence(w, shown) ==
    /\ op[w] = BillingIdle
    /\ lic = NoLicence
    /\ lic' = NewLicence(shown)
    /\ UNCHANGED <<now, sub, stripe, mail, promised, op>>

-----------------------------------------------------------------------------
(* Administrators *)

(* checkout of the free plan *)
SelectFreeRead(w) == Begin(w, "select_free", "free", 0)

SelectFreeCommit(w) ==
    /\ Serving(w, "select_free")
    /\ sub' = BillingWritten(sub, op[w].sub,
                      [op[w].sub EXCEPT !.plan = "free", !.status = "trialing"])
    /\ Finish(w)
    /\ UNCHANGED <<now, lic, stripe, mail, promised>>

(* change_plan commits before it asks the provider, which does nothing. *)
ChangePlanRead(w, plan) == Begin(w, "change_plan", plan, 0)

ChangePlanCommit(w) ==
    /\ Serving(w, "change_plan")
    /\ sub' = BillingWritten(sub, op[w].sub, [op[w].sub EXCEPT !.plan = op[w].plan])
    /\ Finish(w)
    /\ UNCHANGED <<now, lic, stripe, mail, promised>>

(* activate_license, with the key that was shown *)
ActivateRead(w) ==
    /\ lic.status # "none" /\ lic.shown
    /\ sub.status \in {"active", "trialing"}
    /\ sub.plan # "free"
    /\ Begin(w, "activate", sub.plan, 0)

ActivateCommit(w) ==
    /\ Serving(w, "activate")
    /\ lic' = BillingWritten(lic, op[w].lic, Activated(op[w].lic, op[w].sub))
    /\ Finish(w)
    /\ UNCHANGED <<now, sub, stripe, mail, promised>>

(* rotate_license changes the key and nothing else. *)
Rotate(w) ==
    /\ op[w] = BillingIdle
    /\ lic.status # "none"
    /\ lic' = [lic EXCEPT !.shown = TRUE]
    /\ UNCHANGED <<now, sub, stripe, mail, promised, op>>

-----------------------------------------------------------------------------
(* Stripe (external), and the reports it sends *)

Report ==
    [type : {"completed", "succeeded", "failed"}]
    \cup [type : {"subscription"}, status : Status, trialEnd : Nat, periodEnd : Nat]

Completed == [type |-> "completed"]
Succeeded == [type |-> "succeeded"]
Failed    == [type |-> "failed"]
Reported(s) == [type |-> "subscription", status |-> s.status,
                trialEnd |-> s.trialEnd, periodEnd |-> s.periodEnd]

NotSold == [status |-> "none", trialEnd |-> 0, periodEnd |-> 0]

Becomes(s, reports) ==
    /\ Len(mail) + Len(reports) <= MaxMail
    /\ stripe' = s
    /\ mail' = mail \o reports
    /\ promised' = Later(promised, s.periodEnd)
    /\ UNCHANGED <<now, sub, lic, op>>

(* The customer completes a checkout; a trial comes with a paid invoice    *)
(* over nothing.                                                           *)
Subscribe ==
    LET end == now + (IF TrialDays > 0 THEN TrialDays ELSE PeriodDays)
        s == [status |-> IF TrialDays > 0 THEN "trialing" ELSE "active",
              trialEnd |-> IF TrialDays > 0 THEN end ELSE 0, periodEnd |-> end]
    IN
    /\ sub # NoSubscription
    /\ stripe.status \in {"none", "canceled"}
    /\ Becomes(s, <<Completed, Reported(s), Succeeded>>)

(* A period ends and the next one is paid, or not. *)
Renew(paid) ==
    LET s == [stripe EXCEPT !.status = IF paid THEN "active" ELSE "past_due",
                            !.periodEnd = stripe.periodEnd + PeriodDays]
    IN
    /\ stripe.status \in {"trialing", "active"}
    /\ now >= stripe.periodEnd
    /\ Becomes(s, <<Reported(s), IF paid THEN Succeeded ELSE Failed>>)

(* A failed payment is made good. *)
Recover ==
    LET s == [stripe EXCEPT !.status = "active"]
    IN
    /\ stripe.status = "past_due"
    /\ Becomes(s, <<Reported(s), Succeeded>>)

Cancel ==
    LET s == [stripe EXCEPT !.status = "canceled"]
    IN
    /\ stripe.status \in {"trialing", "active", "past_due"}
    /\ Becomes(s, <<Reported(s)>>)

-----------------------------------------------------------------------------
(* The webhook *)

Turns == {i \in 1 .. Len(mail) : i <= Reach}

WebhookRead(i) ==
    /\ i \in Turns
    /\ Begin(Loop, "webhook", sub.plan, i)

(* Wrong: a report's period is not copied.                                 *)
AppliedWithoutPeriod(s, r) ==
    CASE r.type = "completed" -> [s EXCEPT !.plan = "standard", !.status = "trialing"]
      [] r.type = "subscription" -> [s EXCEPT !.plan = "standard", !.status = r.status]
      [] r.type = "succeeded" -> [s EXCEPT !.status = "active"]
      [] r.type = "failed" -> [s EXCEPT !.status = "past_due"]

(* apply_stripe_event: what a report makes of the subscription *)
Applied(s, r) ==
    CASE r.type = "completed" ->
           [s EXCEPT !.plan = "standard",
                     !.status = IF TrialDays = 0 THEN "active" ELSE "trialing"]
      [] r.type = "subscription" ->
           [s EXCEPT !.plan = "standard", !.status = r.status,
                     !.trialEnd = IF r.trialEnd = 0 THEN @ ELSE r.trialEnd,
                     !.periodEnd = r.periodEnd]
      [] r.type = "succeeded" -> [s EXCEPT !.status = "active"]
      [] r.type = "failed" -> [s EXCEPT !.status = "past_due"]

(* A paid invoice of a company without a licence inserts one, and commits  *)
(* what was done so far, before it goes on.                                *)
WebhookCreatesLicence ==
    LET s == Applied(op[Loop].sub, mail[op[Loop].turn])
    IN
    /\ Serving(Loop, "webhook")
    /\ mail[op[Loop].turn] = Succeeded
    /\ op[Loop].lic = NoLicence
    /\ lic = NoLicence
    /\ sub' = BillingWritten(sub, op[Loop].sub, s)
    /\ lic' = NewLicence(FALSE)
    /\ op' = [op EXCEPT ![Loop].sub = s, ![Loop].lic = NewLicence(FALSE)]
    /\ UNCHANGED <<now, stripe, mail, promised>>

(* The commit, which Stripe may or may not see acknowledged. *)
WebhookCommit(acknowledged) ==
    LET r == mail[op[Loop].turn]
        s == Applied(op[Loop].sub, r)
    IN
    /\ Serving(Loop, "webhook")
    /\ r = Succeeded => op[Loop].lic # NoLicence
    /\ sub' = BillingWritten(sub, op[Loop].sub, s)
    /\ lic' = IF r = Succeeded THEN BillingWritten(lic, op[Loop].lic, Activated(op[Loop].lic, s))
                               ELSE lic
    /\ mail' = IF acknowledged THEN RemoveAt(mail, op[Loop].turn) ELSE mail
    /\ Finish(Loop)
    /\ UNCHANGED <<now, stripe, promised>>

-----------------------------------------------------------------------------
(* Specification *)

BillingInit ==
    /\ now = 0
    /\ sub = NoSubscription
    /\ lic = NoLicence
    /\ stripe = NotSold
    /\ mail = <<>>
    /\ promised = 0
    /\ op = [w \in Servers |-> BillingIdle]

Tick ==
    /\ now < MaxTime
    /\ now' = now + 1
    /\ UNCHANGED <<sub, lic, stripe, mail, promised, op>>

(* Whoever asks for the status or the entitlements first makes the rows.   *)
AskingStatus(w) ==
    \/ CreateSubscription(w)
    \/ \E shown \in BOOLEAN : CreateLicence(w, shown)

Administrating(w) ==
    \/ AskingStatus(w)
    \/ SelectFreeRead(w) \/ SelectFreeCommit(w)
    \/ \E plan \in Plan : ChangePlanRead(w, plan)
    \/ ChangePlanCommit(w)
    \/ ActivateRead(w) \/ ActivateCommit(w)
    \/ Rotate(w)

Selling == Subscribe \/ (\E paid \in BOOLEAN : Renew(paid)) \/ Recover \/ Cancel

Reporting ==
    \/ \E i \in 1 .. MaxMail : WebhookRead(i)
    \/ WebhookCreatesLicence
    \/ \E acknowledged \in BOOLEAN : WebhookCommit(acknowledged)

BillingNext ==
    \/ \E w \in Threads : Administrating(w)
    \/ \E w \in Servers : Abort(w)
    \/ Selling \/ Reporting \/ Tick

BillingSpec == BillingInit /\ [][BillingNext]_billingVars

-----------------------------------------------------------------------------
(* Properties *)

(* The variables keep the shape of the rows of models/billing.py and of    *)
(* Stripe's reports, and a call that serves a report finds it there.       *)
BillingTypeOK ==
    /\ now \in Nat
    /\ sub \in Subscription
    /\ lic \in Licence
    /\ stripe \in [status : Status \cup {"none"}, trialEnd : Nat, periodEnd : Nat]
    /\ mail \in Seq(Report)
    /\ promised \in Nat
    /\ op \in [Servers -> BillingCall \cup {BillingIdle}]
    /\ op[Loop].kind = "webhook" => op[Loop].turn \in 1 .. Len(mail)

(* Whatever the order in which Stripe's reports arrive, however often, and *)
(* whatever administrators do meanwhile, a company has the standard plan's *)
(* limits only while a trial or a period lasts that was promised to it.    *)
StandardIsPromised == StandardActive(sub, lic) => now <= promised

(* Reports applied in order, one call at a time: once every report has     *)
(* been served, a company whose subscription Stripe holds paid has the     *)
(* standard plan until the end of the period, unless its administrators    *)
(* have since selected another.                                            *)
PaidIsServed ==
    /\ mail = <<>>
    /\ \A w \in Servers : op[w] = BillingIdle
    /\ stripe.status = "active" /\ now <= stripe.periodEnd
    /\ sub.plan = "standard" /\ sub.status = "active"
    => StandardActive(sub, lic)
=============================================================================
