----------------------------- MODULE Connections -----------------------------
(***************************************************************************)
(* Microsoft as the company's calendar and as a way to sign in             *)
(* (auth-service/app/api/routes/auth.py, services/auth.py sso_login,       *)
(* services/microsoft_graph.py).                                           *)
(*                                                                         *)
(* A flow is one journey of a browser to Microsoft and back, to connect    *)
(* the company's calendar ('link') or to sign in ('sso').  What the        *)
(* service must remember meanwhile is in a cookie, which every response    *)
(* replaces as a whole.  The connection is a part of the company's JSON    *)
(* document, which every writer reads and writes as a whole, some of them  *)
(* with a call of Microsoft in between.                                    *)
(*                                                                         *)
(* Two tabs of one browser stand for what shares a cookie.  Google's flows *)
(* take the same way, with a state that Authlib keeps in the same cookie.  *)
(***************************************************************************)
EXTENDS Integers, FiniteSets

CONSTANTS Flows,          \* 1 .. n, in the order they are begun
          Companies,      \* companies there are
          Own,            \* the company that is made when the person signs up
          Workers,        \* requests served at once
          NoHome,
          AutoProvision,  \* SSO_AUTO_PROVISION
          MaxTokens,      \* bound on tokens issued for the calendar
          MaxRequests,    \* bound on requests of other kinds
          MaxFaults       \* bound on repeated callbacks and requests cut off

ASSUME ConnectionsAssumption ==
    /\ Flows = 1 .. Cardinality(Flows) /\ Flows # {}
    /\ Own \notin Companies /\ NoHome \notin Companies \union {Own}
    /\ NoHome # Own
    /\ AutoProvision \in BOOLEAN
    /\ MaxTokens \in Nat /\ MaxRequests \in Nat /\ MaxFaults \in Nat

NoFlow == 0

VARIABLES
    flows,     \* each flow: what for, which company it names, how far it is
    cookie,    \* the browser's session cookie
    spent,     \* flows whose code Microsoft has redeemed
    accounts,  \* the accounts of the person at the browser
    doc,       \* the connection, in the company's document
    page,      \* the connection, as the settings page has it
    issued,    \* tokens issued for the calendar so far
    call,      \* what each worker is doing
    asked,     \* requests of other kinds so far
    faults,
    crossed,   \* history: flows another request of the browser got in the way of
    unhelped,  \* history: flows the user, Microsoft or a failure put an end to
    inherits,  \* history: flows begun with the company another one had named
    wasted,    \* history: tokens that a request got and did not keep
    raced,     \* history: a document was written by who had read an older one
    decided    \* history: what was last decided about the connection

vars == <<flows, cookie, spent, accounts, doc, page, issued, call, asked, faults,
          crossed, unhelped, inherits, wasted, raced, decided>>

history == <<crossed, unhelped, inherits>>

-----------------------------------------------------------------------------
Homes == Companies \union {Own}
Home  == Homes \union {NoHome}
Token == 0 .. MaxTokens

Flow == [kind : {"link", "sso"}, tenant : Home, at : Home,
         stage : {"unused", "starting", "away", "back", "entered", "refused"}]

Unused == [kind |-> "link", tenant |-> NoHome, at |-> NoHome, stage |-> "unused"]

(* integration_state, oauth_state, and oauth_tenant_slug, which stands for *)
(* oauth_next and oauth_email_hint too.                                    *)
Cookie  == [link : Flows \union {NoFlow}, sso : Flows \union {NoFlow}, tenant : Home]
Cleared == [link |-> NoFlow, sso |-> NoFlow, tenant |-> NoHome]

Account == {"none", "local", "linked"}

Connection == [status : {"off", "connected", "error"}, token : Token]

(* 'tenant' is the company a callback found in its cookie, 'copy' the      *)
(* connection as the request read it, 'token' the one it was given.        *)
Call == [stage : {"idle", "reply", "exchange", "login", "save", "fail", "graph", "write", "keep"},
         flow : Flows \union {NoFlow}, cookie : Cookie, copy : Connection, token : Token]

Nothing == [status |-> "off", token |-> 0]
Idle    == [stage |-> "idle", flow |-> NoFlow, cookie |-> Cleared, copy |-> Nothing, token |-> 0]

TypeOK ==
    /\ flows \in [Flows -> Flow]
    /\ cookie \in Cookie
    /\ spent \subseteq Flows
    /\ accounts \in [Homes -> Account]
    /\ doc \in Connection /\ page \in Connection
    /\ issued \in Token
    /\ call \in [Workers -> Call]
    /\ asked \in 0 .. MaxRequests /\ faults \in 0 .. MaxFaults
    /\ crossed \subseteq Flows /\ unhelped \subseteq Flows /\ inherits \subseteq Flows
    /\ wasted \subseteq Token
    /\ raced \in BOOLEAN
    /\ decided \in {"off", "connected", "error"}

Init ==
    /\ flows = [f \in Flows |-> Unused]
    /\ cookie = Cleared
    /\ spent = {}
    /\ accounts \in {a \in [Homes -> Account] : a[Own] = "none"}
    /\ doc = Nothing /\ page = Nothing
    /\ issued = 0
    /\ call = [w \in Workers |-> Idle]
    /\ asked = 0 /\ faults = 0
    /\ crossed = {} /\ unhelped = {} /\ inherits = {} /\ wasted = {}
    /\ raced = FALSE
    /\ decided = "off"

At(w, stage)   == call[w].stage = stage
Becomes(w, c)  == call' = [call EXCEPT ![w] = c]
Fault          == faults < MaxFaults /\ faults' = faults + 1
Asks           == asked < MaxRequests /\ asked' = asked + 1

-----------------------------------------------------------------------------
(* The browser: beginning a flow *)

Live == {f \in Flows : flows[f].stage \in {"starting", "away", "back"}}

(* Requests of the browser not yet answered                                *)
InFlight == {w \in Workers : call[w].stage \in {"reply", "exchange", "login", "save", "fail"}}

(* Wrong: the session is begun anew                                        *)
AnewWith(kind, f, tenant) ==
    [Cleared EXCEPT !.link = IF kind = "link" THEN f ELSE NoFlow,
                    !.sso = IF kind = "sso" THEN f ELSE NoFlow, !.tenant = tenant]

(* What a request that begins a flow leaves in the session                 *)
With(kind, f, tenant) ==
    IF kind = "link" THEN [cookie EXCEPT !.link = f]
    ELSE [cookie EXCEPT !.sso = f, !.tenant = IF tenant = NoHome THEN @ ELSE tenant]

(* connect_integration, start_sso                                          *)
Start(w, f, kind, tenant) ==
    /\ At(w, "idle")
    /\ flows[f] = Unused /\ \A g \in 1 .. f - 1 : flows[g] # Unused
    /\ kind = "link" => tenant = NoHome
    /\ tenant = Own => accounts[Own] # "none"
    /\ flows' = [flows EXCEPT ![f] = [Unused EXCEPT !.kind = kind, !.tenant = tenant, !.stage = "starting"]]
    /\ Becomes(w, [Idle EXCEPT !.stage = "reply", !.flow = f, !.cookie = With(kind, f, tenant)])
    /\ LET replaced == {g \in Live : flows[g].kind = kind}
       IN  crossed' = crossed \union (IF InFlight = {} THEN replaced ELSE Live \union {f})
    /\ inherits' = IF kind = "sso" /\ tenant = NoHome /\ cookie.tenant # NoHome
                   THEN inherits \union {f} ELSE inherits
    /\ UNCHANGED <<cookie, spent, accounts, doc, page, issued, asked, faults,
                   unhelped, wasted, raced, decided>>

(* Any other request of the browser: its answer carries the session back.  *)
Browse(w) ==
    /\ At(w, "idle") /\ Asks
    /\ cookie # Cleared
    /\ Becomes(w, [Idle EXCEPT !.stage = "reply", !.cookie = cookie])
    /\ crossed' = crossed \union (IF InFlight = {} THEN {} ELSE Live)
    /\ UNCHANGED <<flows, cookie, spent, accounts, doc, page, issued, faults,
                   unhelped, inherits, wasted, raced, decided>>

(* The answer arrives; one that begins a flow sends the browser away.      *)
Reply(w) ==
    LET f == call[w].flow IN
    /\ At(w, "reply")
    /\ cookie' = call[w].cookie
    /\ flows' = IF f # NoFlow /\ flows[f].stage = "starting"
                THEN [flows EXCEPT ![f].stage = "away"] ELSE flows
    /\ Becomes(w, Idle)
    /\ UNCHANGED <<spent, accounts, doc, page, issued, asked, faults, history, wasted, raced, decided>>

-----------------------------------------------------------------------------
(* The browser: coming back *)

(* The flow is over for its user, and the session is cleared.              *)
Ends(w, f, stage, home) ==
    /\ flows' = [flows EXCEPT ![f].stage = IF @ = "entered" THEN @ ELSE stage, ![f].at = home]
    /\ Becomes(w, [Idle EXCEPT !.stage = "reply", !.flow = f])

(* Wrong: the state is not compared                                        *)
AnyState(f) == (IF flows[f].kind = "link" THEN cookie.link ELSE cookie.sso) # NoFlow

(* The state Microsoft sends back is the one in the session.               *)
Expected(f) == (IF flows[f].kind = "link" THEN cookie.link ELSE cookie.sso) = f

(* integration_callback, sso_callback: up to the exchange of the code.     *)
(* The user may have declined.                                             *)
Callback(w, f, declined) ==
    /\ At(w, "idle")
    /\ IF Expected(f) /\ ~declined
       THEN /\ flows' = [flows EXCEPT ![f].stage = IF @ = "away" THEN "back" ELSE @]
            /\ Becomes(w, [Idle EXCEPT !.stage = "exchange", !.flow = f, !.cookie = cookie])
       ELSE Ends(w, f, "refused", flows[f].at)
    /\ unhelped' = IF declined THEN unhelped \union {f} ELSE unhelped
    /\ UNCHANGED <<cookie, spent, accounts, doc, page, issued, asked, inherits, wasted, raced, decided>>

Return(w, f, declined) ==
    /\ flows[f].stage = "away"
    /\ Callback(w, f, declined)
    /\ crossed' = crossed \union (IF InFlight = {} THEN Live \ {f} ELSE Live)
    /\ UNCHANGED faults

(* The page Microsoft has sent the browser to is loaded once more.         *)
Repeat(w, f) ==
    /\ flows[f].stage \in {"back", "entered", "refused"} /\ Fault
    /\ Callback(w, f, FALSE)
    /\ crossed' = crossed \union Live \union {f}

-----------------------------------------------------------------------------
(* The callback, after the exchange *)

(* The rest of a callback, a database access on the event loop, is not     *)
(* interrupted by another callback; threads that serve other requests go   *)
(* on meanwhile.                                                           *)
LoopFree == \A v \in Workers : ~(At(v, "login") \/ At(v, "save") \/ At(v, "fail"))

OutOfDate(copy) == doc # copy

(* exchange_microsoft_code: a code is good once; the token it brings may   *)
(* turn out to be of no use (identity probe).                              *)
Redeem(w) ==
    LET f == call[w].flow IN
    /\ At(w, "exchange") /\ LoopFree
    /\ f \notin spent
    /\ spent' = spent \union {f}
    /\ IF flows[f].kind = "link"
       THEN /\ issued < MaxTokens
            /\ issued' = issued + 1
            /\ \/ /\ Becomes(w, [call[w] EXCEPT !.stage = "save", !.copy = doc, !.token = issued'])
                  /\ UNCHANGED <<unhelped, wasted>>
               \/ /\ Becomes(w, [call[w] EXCEPT !.stage = "fail", !.copy = doc])
                  /\ unhelped' = unhelped \union {f} /\ wasted' = wasted \union {issued'}
       ELSE /\ \/ Becomes(w, [call[w] EXCEPT !.stage = "login"]) /\ unhelped' = unhelped
               \/ Becomes(w, [call[w] EXCEPT !.stage = "fail"]) /\ unhelped' = unhelped \union {f}
            /\ UNCHANGED <<issued, wasted>>
    /\ UNCHANGED <<flows, cookie, accounts, doc, page, asked, faults, crossed, inherits, raced, decided>>

(* Microsoft redeems nothing: the code was redeemed before, or has expired. *)
Replayed(w) ==
    LET f == call[w].flow IN
    /\ At(w, "exchange") /\ LoopFree
    /\ Becomes(w, [call[w] EXCEPT !.stage = "fail", !.copy = doc])
    /\ unhelped' = IF f \in spent THEN unhelped ELSE unhelped \union {f}
    /\ UNCHANGED <<flows, cookie, spent, accounts, doc, page, issued, asked, faults,
                   crossed, inherits, wasted, raced, decided>>

(* save_microsoft_integration                                              *)
LinkSave(w) ==
    /\ At(w, "save")
    /\ doc' = [status |-> "connected", token |-> call[w].token]
    /\ decided' = "connected"
    /\ raced' = (raced \/ OutOfDate(call[w].copy))
    /\ Ends(w, call[w].flow, "entered", NoHome)
    /\ UNCHANGED <<cookie, spent, accounts, page, issued, asked, faults, history, wasted>>

(* Wrong: a failure is shown and not stored                                *)
FailUnstored(w) ==
    /\ At(w, "fail")
    /\ doc' = doc
    /\ IF flows[call[w].flow].kind = "link" THEN decided' = "error" ELSE decided' = decided
    /\ raced' = raced
    /\ Ends(w, call[w].flow, "refused", NoHome)
    /\ UNCHANGED <<cookie, spent, accounts, page, issued, asked, faults, history, wasted>>

(* A failed attempt to connect marks the connection, also one that is up.  *)
Fail(w) ==
    LET f == call[w].flow IN
    /\ At(w, "fail")
    /\ IF flows[f].kind = "link"
       THEN /\ doc' = [call[w].copy EXCEPT !.status = "error"]
            /\ decided' = "error"
            /\ raced' = (raced \/ OutOfDate(call[w].copy))
       ELSE UNCHANGED <<doc, decided, raced>>
    /\ Ends(w, f, "refused", flows[f].at)
    /\ UNCHANGED <<cookie, spent, accounts, page, issued, asked, faults, history, wasted>>

Having(account) == {h \in Homes : accounts[h] = account}

(* The company a person signs in to: the one named; or one where Microsoft *)
(* is known already; or the only one with an account; or a new one.        *)
SignInTo(tenant) ==
    IF tenant # NoHome
    THEN {h \in {tenant} : accounts[h] # "none" \/ AutoProvision}
    ELSE IF Having("linked") # {} THEN Having("linked")
    ELSE IF Cardinality(Having("local")) = 1 THEN Having("local")
    ELSE {Own}

(* sso_login                                                               *)
SsoLogin(w) ==
    LET f == call[w].flow  into == SignInTo(call[w].cookie.tenant) IN
    /\ At(w, "login")
    /\ \/ \E h \in into :
            /\ accounts' = [accounts EXCEPT ![h] = "linked"]
            /\ Ends(w, f, "entered", h)
       \/ into = {} /\ accounts' = accounts /\ Ends(w, f, "refused", NoHome)
    /\ UNCHANGED <<cookie, spent, doc, page, issued, asked, faults, history, wasted, raced, decided>>

-----------------------------------------------------------------------------
(* The company's document: settings, other writers, the calendar *)

(* get_company_settings                                                    *)
OpenSettings ==
    /\ Asks
    /\ page' = doc
    /\ UNCHANGED <<flows, cookie, spent, accounts, doc, issued, call, faults,
                   history, wasted, raced, decided>>

(* update_company_settings with the integrations the page has, as they     *)
(* were or with the calendar disconnected                                  *)
SaveSettings ==
    /\ Asks
    /\ \/ doc' = page /\ decided' = decided
       \/ doc' = [page EXCEPT !.status = "off"] /\ decided' = "off"
    /\ raced' = (raced \/ OutOfDate(page))
    /\ UNCHANGED <<flows, cookie, spent, accounts, page, issued, call, faults, history, wasted>>

(* Whoever writes another part of the document writes this one back.       *)
WriteRead(w) ==
    /\ At(w, "idle") /\ Asks
    /\ Becomes(w, [Idle EXCEPT !.stage = "keep", !.copy = doc])
    /\ UNCHANGED <<flows, cookie, spent, accounts, doc, page, issued, faults,
                   history, wasted, raced, decided>>

WriteCommit(w) ==
    /\ At(w, "keep")
    /\ doc' = call[w].copy
    /\ raced' = (raced \/ OutOfDate(call[w].copy))
    /\ Becomes(w, Idle)
    /\ UNCHANGED <<flows, cookie, spent, accounts, page, issued, asked, faults,
                   history, wasted, decided>>

(* A request for the calendar: list_meetings, upsert_meeting,              *)
(* delete_meeting                                                          *)
GraphRead(w) ==
    /\ At(w, "idle") /\ Asks
    /\ doc.status = "connected"
    /\ Becomes(w, [Idle EXCEPT !.stage = "graph", !.copy = doc])
    /\ UNCHANGED <<flows, cookie, spent, accounts, doc, page, issued, faults,
                   history, wasted, raced, decided>>

(* The token serves, or cannot be renewed: nothing to store.               *)
GraphServed(w) ==
    /\ At(w, "graph")
    /\ Becomes(w, Idle)
    /\ UNCHANGED <<flows, cookie, spent, accounts, doc, page, issued, asked, faults,
                   history, wasted, raced, decided>>

(* refresh_microsoft_token: what the calendar then answers decides whether *)
(* the new token is stored.                                                *)
GraphRefresh(w) ==
    /\ At(w, "graph") /\ issued < MaxTokens
    /\ issued' = issued + 1
    /\ \/ Becomes(w, [call[w] EXCEPT !.stage = "write", !.token = issued']) /\ wasted' = wasted
       \/ Becomes(w, Idle) /\ wasted' = wasted \union {issued'}
    /\ UNCHANGED <<flows, cookie, spent, accounts, doc, page, asked, faults, history, raced, decided>>

(* Wrong: the new token is used and forgotten                              *)
RefreshUnstored(w) ==
    /\ At(w, "write")
    /\ Becomes(w, Idle)
    /\ UNCHANGED <<flows, cookie, spent, accounts, doc, page, issued, asked, faults,
                   history, wasted, raced, decided>>

GraphWrite(w) ==
    /\ At(w, "write")
    /\ doc' = [call[w].copy EXCEPT !.token = call[w].token]
    /\ raced' = (raced \/ OutOfDate(call[w].copy))
    /\ Becomes(w, Idle)
    /\ UNCHANGED <<flows, cookie, spent, accounts, page, issued, asked, faults,
                   history, wasted, decided>>

-----------------------------------------------------------------------------
(* The server goes down, the database or the network fails a request.      *)
Cut(w) ==
    LET f == call[w].flow IN
    /\ ~At(w, "idle") /\ Fault
    /\ Becomes(w, Idle)
    /\ flows' = IF f \in Live THEN [flows EXCEPT ![f].stage = "refused"] ELSE flows
    /\ unhelped' = unhelped \union ({f} \ {NoFlow})
    /\ wasted' = wasted \union (IF At(w, "save") \/ At(w, "write") THEN {call[w].token} ELSE {})
    /\ UNCHANGED <<cookie, spent, accounts, doc, page, issued, asked, crossed, inherits, raced, decided>>

Journey(w) ==
    \/ \E f \in Flows :
        \/ \E kind \in {"link", "sso"}, tenant \in Home : Start(w, f, kind, tenant)
        \/ \E declined \in BOOLEAN : Return(w, f, declined)
        \/ Repeat(w, f)
    \/ Browse(w) \/ Reply(w)
    \/ Redeem(w) \/ Replayed(w) \/ LinkSave(w) \/ Fail(w) \/ SsoLogin(w)

Document(w) ==
    \/ WriteRead(w) \/ WriteCommit(w)
    \/ GraphRead(w) \/ GraphServed(w) \/ GraphRefresh(w) \/ GraphWrite(w)

Next ==
    \/ \E w \in Workers : Journey(w) \/ Document(w) \/ Cut(w)
    \/ OpenSettings \/ SaveSettings

Spec == Init /\ [][Next]_vars

-----------------------------------------------------------------------------
(* Properties *)

(* The connection is up, broken or off as was last decided, by a user or   *)
(* by an attempt to connect, unless somebody wrote the document who had    *)
(* read an older one (update_company_settings, integration_callback,       *)
(* list_meetings, upsert_meeting, delete_meeting).                         *)
DecisionHolds == doc.status = decided \/ raced

(* The company has the newest token Microsoft issued for its calendar, or  *)
(* is about to, unless the request that got it did not come to its end or  *)
(* the calendar then refused it, or an older document was written back     *)
(* (refresh_microsoft_token, save_microsoft_integration).                  *)
LatestTokenKept ==
    \/ doc.token = issued \/ issued \in wasted \/ raced
    \/ \E w \in Workers : (At(w, "save") \/ At(w, "write")) /\ call[w].token = issued

(* Who comes back from Microsoft gets in, unless the browser did something *)
(* else meanwhile, the user, Microsoft or a failure prevented it, or the   *)
(* company named, by this sign-in or by one given up before, has no        *)
(* account of theirs (connect_integration, start_sso, the callbacks).      *)
RefusalExplained ==
    \A f \in Flows : flows[f].stage = "refused" =>
        \/ f \in crossed \union unhelped \union inherits
        \/ flows[f].tenant # NoHome /\ accounts[flows[f].tenant] = "none" /\ ~AutoProvision

(* A sign-in that names a company ends in that company, whatever else the  *)
(* browser began (start_sso, sso_callback, sso_login).                     *)
SignedInWhereAsked ==
    \A f \in Flows :
        flows[f].kind = "sso" /\ flows[f].stage = "entered" /\ flows[f].tenant # NoHome
        => flows[f].at = flows[f].tenant
=============================================================================
