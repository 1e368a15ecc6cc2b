-------------------------- MODULE ConnectionsProofs --------------------------
(* Type correctness of Connections, and its four promises, for any number  *)
(* of flows, companies, workers and requests.                              *)
EXTENDS Connections, FiniteSetTheorems, TLAPS

-----------------------------------------------------------------------------
(* Type correctness *)

LEMMA NoFlowIsNone == NoFlow \notin Flows
  <1>1. Flows = 1 .. Cardinality(Flows)
    BY ConnectionsAssumption
  <1>2. \A n : 0 \notin 1 .. n
    OBVIOUS
  <1> QED BY <1>1, <1>2 DEF NoFlow

LEMMA StartTypes ==
  /\ Cleared \in Cookie /\ Unused \in Flow /\ Nothing \in Connection /\ Idle \in Call
  <1>1. Cleared \in Cookie
    BY DEF Cleared, Cookie, Home
  <1>2. Unused \in Flow
    BY DEF Unused, Flow, Home
  <1>3. 0 \in Token
    BY ConnectionsAssumption DEF Token
  <1>4. Nothing \in Connection
    BY <1>3 DEF Nothing, Connection
  <1> QED BY <1>1, <1>2, <1>3, <1>4 DEF Idle, Call

LEMMA NextToken ==
  ASSUME TypeOK, issued < MaxTokens
  PROVE  issued + 1 \in Token /\ issued \in Nat
  BY ConnectionsAssumption DEF TypeOK, Token

LEMMA Counted ==
  ASSUME TypeOK
  PROVE  /\ Asks => asked' \in 0 .. MaxRequests
         /\ Fault => faults' \in 0 .. MaxFaults
  BY ConnectionsAssumption DEF TypeOK, Asks, Fault

LEMMA CallFields ==
  ASSUME NEW c \in Call
  PROVE  /\ c.flow \in Flows \union {NoFlow} /\ c.cookie \in Cookie
         /\ c.copy \in Connection /\ c.token \in Token
  BY DEF Call

LEMMA CallsType ==
  ASSUME TypeOK, NEW w \in Workers, NEW c \in Call, Becomes(w, c)
  PROVE  call' \in [Workers -> Call]
  BY DEF TypeOK, Becomes

LEMMA WithType ==
  ASSUME TypeOK, NEW kind \in {"link", "sso"}, NEW f \in Flows, NEW tenant \in Home
  PROVE  With(kind, f, tenant) \in Cookie
  BY DEF TypeOK, With, Cookie

LEMMA TypeStart ==
  ASSUME TypeOK, NEW w \in Workers, NEW f \in Flows, NEW kind \in {"link", "sso"}, NEW tenant \in Home,
         Start(w, f, kind, tenant)
  PROVE  TypeOK'
  <1> DEFINE flow == [Unused EXCEPT !.kind = kind, !.tenant = tenant, !.stage = "starting"]
             c    == [Idle EXCEPT !.stage = "reply", !.flow = f, !.cookie = With(kind, f, tenant)]
  <1>1. flow \in Flow
    BY StartTypes DEF Flow
  <1>2. c \in Call
    BY StartTypes, WithType DEF Call
  <1>3. flows' = [flows EXCEPT ![f] = flow] /\ Becomes(w, c)
    BY DEF Start
  <1> HIDE DEF flow, c
  <1>4. flows' \in [Flows -> Flow]
    BY <1>1, <1>3 DEF TypeOK
  <1>5. call' \in [Workers -> Call]
    BY <1>2, <1>3, CallsType
  <1>6. crossed' \subseteq Flows /\ inherits' \subseteq Flows
    BY DEF Start, Live, TypeOK
  <1> QED BY <1>4, <1>5, <1>6 DEF Start, TypeOK

LEMMA TypeBrowse ==
  ASSUME TypeOK, NEW w \in Workers, Browse(w)
  PROVE  TypeOK'
  <1>1. [Idle EXCEPT !.stage = "reply", !.cookie = cookie] \in Call
    BY StartTypes DEF Call, TypeOK
  <1>2. call' \in [Workers -> Call]
    BY <1>1, CallsType DEF Browse
  <1>3. crossed' \subseteq Flows /\ asked' \in 0 .. MaxRequests
    BY Counted DEF Browse, Live, TypeOK
  <1> QED BY <1>2, <1>3 DEF Browse, TypeOK

LEMMA TypeReply ==
  ASSUME TypeOK, NEW w \in Workers, Reply(w)
  PROVE  TypeOK'
  <1>1. call[w] \in Call /\ cookie' = call[w].cookie /\ Becomes(w, Idle)
    BY DEF Reply, TypeOK
  <1>2. cookie' \in Cookie /\ call' \in [Workers -> Call]
    BY <1>1, CallFields, CallsType, StartTypes
  <1>3. flows' \in [Flows -> Flow]
    BY <1>1, CallFields DEF Reply, TypeOK, Flow
  <1> QED BY <1>2, <1>3 DEF Reply, TypeOK, history

(* A flow that is over, and the answer to its browser                      *)
Over(flow, stage, home) ==
    [flow EXCEPT !.stage = IF flow.stage = "entered" THEN "entered" ELSE stage, !.at = home]

LEMMA EndsType ==
  ASSUME TypeOK, NEW w \in Workers, NEW f \in Flows, NEW stage \in {"entered", "refused"},
         NEW home \in Home, Ends(w, f, stage, home)
  PROVE  /\ flows' = [flows EXCEPT ![f] = Over(flows[f], stage, home)]
         /\ flows' \in [Flows -> Flow] /\ call' \in [Workers -> Call]
  <1>1. [Idle EXCEPT !.stage = "reply", !.flow = f] \in Call
    BY StartTypes DEF Call
  <1>2. call' \in [Workers -> Call]
    BY <1>1, CallsType DEF Ends
  <1>3. flows' = [flows EXCEPT ![f] = Over(flows[f], stage, home)]
    BY DEF Ends, TypeOK, Over
  <1>4. Over(flows[f], stage, home) \in Flow
    BY DEF Over, TypeOK, Flow
  <1>5. flows' \in [Flows -> Flow]
    BY <1>3, <1>4 DEF TypeOK
  <1> QED BY <1>2, <1>3, <1>5

LEMMA CallbackType ==
  ASSUME TypeOK, NEW w \in Workers, NEW f \in Flows, NEW declined \in BOOLEAN, Callback(w, f, declined)
  PROVE  flows' \in [Flows -> Flow] /\ call' \in [Workers -> Call] /\ unhelped' \subseteq Flows
  <1>1. unhelped' \subseteq Flows
    BY DEF Callback, TypeOK
  <1>2. CASE Expected(f) /\ ~declined
    <2>1. flows' = [flows EXCEPT ![f].stage = IF @ = "away" THEN "back" ELSE @]
          /\ Becomes(w, [Idle EXCEPT !.stage = "exchange", !.flow = f, !.cookie = cookie])
      BY <1>2 DEF Callback
    <2>2. [Idle EXCEPT !.stage = "exchange", !.flow = f, !.cookie = cookie] \in Call
      BY StartTypes DEF Call, TypeOK
    <2>3. flows' \in [Flows -> Flow]
      BY <2>1 DEF TypeOK, Flow
    <2> QED BY <1>1, <2>1, <2>2, <2>3, CallsType
  <1>3. CASE ~(Expected(f) /\ ~declined)
    <2>1. flows[f].at \in Home
      BY DEF TypeOK, Flow
    <2> QED BY <1>1, <1>3, <2>1, EndsType DEF Callback
  <1> QED BY <1>2, <1>3

LEMMA TypeReturn ==
  ASSUME TypeOK, NEW w \in Workers, NEW f \in Flows, NEW declined \in BOOLEAN, Return(w, f, declined)
  PROVE  TypeOK'
  <1>1. Callback(w, f, declined) /\ crossed' \subseteq Flows /\ UNCHANGED faults
    BY DEF Return, Live, TypeOK
  <1> QED BY <1>1, CallbackType DEF Callback, TypeOK

LEMMA TypeRepeat ==
  ASSUME TypeOK, NEW w \in Workers, NEW f \in Flows, Repeat(w, f)
  PROVE  TypeOK'
  <1>1. Callback(w, f, FALSE) /\ crossed' \subseteq Flows /\ faults' \in 0 .. MaxFaults
    BY Counted DEF Repeat, Live, TypeOK
  <1> QED BY <1>1, CallbackType DEF Callback, TypeOK

(* A worker that handles a callback does so for a flow.                    *)
AtCallback(w) == call[w].stage \in {"exchange", "login", "save", "fail"}

CallbacksHaveFlow == \A w \in Workers : AtCallback(w) => call[w].flow \in Flows

TypeInv == TypeOK /\ CallbacksHaveFlow

LEMMA StageType ==
  ASSUME NEW c \in Call,
         NEW stage \in {"idle", "reply", "exchange", "login", "save", "fail", "graph", "write", "keep"},
         NEW copy \in Connection, NEW token \in Token
  PROVE  /\ [c EXCEPT !.stage = stage] \in Call
         /\ [c EXCEPT !.stage = stage, !.copy = copy] \in Call
         /\ [c EXCEPT !.stage = stage, !.token = token] \in Call
         /\ [c EXCEPT !.stage = stage, !.copy = copy, !.token = token] \in Call
  BY DEF Call

LEMMA TypeRedeem ==
  ASSUME TypeInv, NEW w \in Workers, Redeem(w)
  PROVE  TypeOK'
  <1>1. call[w] \in Call /\ doc \in Connection /\ call[w].flow \in Flows
    BY DEF Redeem, TypeInv, TypeOK, CallbacksHaveFlow, AtCallback, At
  <1>2. spent' \subseteq Flows /\ unhelped' \subseteq Flows
    BY <1>1 DEF Redeem, TypeInv, TypeOK
  <1>3. issued' \in Token
    BY NextToken DEF Redeem, TypeInv, TypeOK
  <1>4. wasted' \subseteq Token
    BY <1>3 DEF Redeem, TypeInv, TypeOK
  <1>5. call' \in [Workers -> Call]
    <2>1. \/ Becomes(w, [call[w] EXCEPT !.stage = "save", !.copy = doc, !.token = issued'])
          \/ Becomes(w, [call[w] EXCEPT !.stage = "fail", !.copy = doc])
          \/ Becomes(w, [call[w] EXCEPT !.stage = "login"])
          \/ Becomes(w, [call[w] EXCEPT !.stage = "fail"])
      BY DEF Redeem
    <2>2. PICK token \in Token : token = issued'
      BY <1>3
    <2> QED BY <1>1, <2>1, <2>2, StageType, CallsType DEF TypeInv
  <1> QED BY <1>2, <1>3, <1>4, <1>5 DEF Redeem, TypeInv, TypeOK

LEMMA TypeReplayed ==
  ASSUME TypeInv, NEW w \in Workers, Replayed(w)
  PROVE  TypeOK'
  <1>1. call[w] \in Call /\ doc \in Connection /\ call[w].flow \in Flows /\ 0 \in Token
    BY StartTypes DEF Replayed, TypeInv, TypeOK, CallbacksHaveFlow, AtCallback, At, Nothing, Connection
  <1>2. [call[w] EXCEPT !.stage = "fail", !.copy = doc] \in Call
    BY <1>1, StageType
  <1>3. call' \in [Workers -> Call]
    BY <1>2, CallsType DEF Replayed, TypeInv
  <1>4. unhelped' \subseteq Flows
    BY <1>1 DEF Replayed, TypeInv, TypeOK
  <1> QED BY <1>3, <1>4 DEF Replayed, TypeInv, TypeOK

LEMMA EndingKinds ==
  ASSUME TypeInv, NEW w \in Workers, LinkSave(w) \/ Fail(w) \/ SsoLogin(w)
  PROVE  \E stage \in {"entered", "refused"}, home \in Home : Ends(w, call[w].flow, stage, home)
  <1>1. call[w] \in Call /\ call[w].flow \in Flows
    BY DEF LinkSave, Fail, SsoLogin, TypeInv, TypeOK, CallbacksHaveFlow, AtCallback, At
  <1>2. flows[call[w].flow].at \in Home /\ NoHome \in Home
    BY <1>1 DEF TypeInv, TypeOK, Flow, Home
  <1>3. SignInTo(call[w].cookie.tenant) \subseteq Home
    BY <1>1, CallFields DEF SignInTo, Having, Home, Homes, Cookie
  <1> QED BY <1>2, <1>3 DEF LinkSave, Fail, SsoLogin

LEMMA TypeEnds ==
  ASSUME TypeInv, NEW w \in Workers, LinkSave(w) \/ Fail(w) \/ SsoLogin(w)
  PROVE  TypeOK'
  <1>1. call[w] \in Call /\ call[w].flow \in Flows
    BY DEF LinkSave, Fail, SsoLogin, TypeInv, TypeOK, CallbacksHaveFlow, AtCallback, At
  <1>2. call[w].copy \in Connection /\ call[w].token \in Token
    BY <1>1, CallFields
  <1>3. flows[call[w].flow].at \in Home /\ NoHome \in Home
    BY <1>1 DEF TypeInv, TypeOK, Flow, Home
  <1>4. CASE LinkSave(w)
    <2>1. doc' \in Connection
      BY <1>2, <1>4 DEF LinkSave, Connection
    <2>2. flows' \in [Flows -> Flow] /\ call' \in [Workers -> Call]
      BY <1>1, <1>3, <1>4, EndsType DEF LinkSave, TypeInv
    <2>3. raced' \in BOOLEAN /\ decided' \in {"off", "connected", "error"}
      BY <1>4 DEF LinkSave
    <2> QED BY <1>4, <2>1, <2>2, <2>3 DEF LinkSave, TypeInv, TypeOK, history
  <1>5. CASE Fail(w)
    <2>1. doc' \in Connection
      BY <1>2, <1>5 DEF Fail, Connection, TypeInv, TypeOK
    <2>2. flows' \in [Flows -> Flow] /\ call' \in [Workers -> Call]
      BY <1>1, <1>3, <1>5, EndsType DEF Fail, TypeInv
    <2>3. raced' \in BOOLEAN
      BY <1>5 DEF Fail, TypeInv, TypeOK
    <2>4. decided' \in {"off", "connected", "error"}
      BY <1>5 DEF Fail, TypeInv, TypeOK
    <2> QED BY <1>5, <2>1, <2>2, <2>3, <2>4 DEF Fail, TypeInv, TypeOK, history
  <1>6. CASE SsoLogin(w)
    <2>1. \E stage \in {"entered", "refused"}, home \in Home :
              Ends(w, call[w].flow, stage, home)
              /\ (accounts' = accounts \/ accounts' = [accounts EXCEPT ![home] = "linked"])
      <3>1. SignInTo(call[w].cookie.tenant) \subseteq Home
        BY <1>1, CallFields DEF SignInTo, Having, Home, Homes, Cookie
      <3> QED BY <1>3, <1>6, <3>1 DEF SsoLogin
    <2>2. flows' \in [Flows -> Flow] /\ call' \in [Workers -> Call]
      BY <1>1, <2>1, EndsType DEF TypeInv
    <2>3. accounts' \in [Homes -> Account]
      BY <2>1 DEF TypeInv, TypeOK, Account
    <2> QED BY <1>6, <2>2, <2>3 DEF SsoLogin, TypeInv, TypeOK, history
  <1> QED BY <1>4, <1>5, <1>6

LEMMA TypeSettings ==
  ASSUME TypeInv, OpenSettings \/ SaveSettings
  PROVE  TypeOK'
  <1>1. doc' \in Connection /\ page' \in Connection
    BY DEF OpenSettings, SaveSettings, TypeInv, TypeOK, Connection
  <1>2. asked' \in 0 .. MaxRequests
    BY Counted DEF OpenSettings, SaveSettings, TypeInv
  <1>3. raced' \in BOOLEAN
    BY DEF OpenSettings, SaveSettings, TypeInv, TypeOK
  <1> QED BY <1>1, <1>2, <1>3 DEF OpenSettings, SaveSettings, TypeInv, TypeOK, history

LEMMA TypeDocument ==
  ASSUME TypeInv, NEW w \in Workers, Document(w)
  PROVE  TypeOK'
  <1>1. call[w] \in Call /\ doc \in Connection
    BY DEF TypeInv, TypeOK
  <1>2. call[w].copy \in Connection /\ call[w].token \in Token
    BY <1>1, CallFields
  <1>3. CASE WriteRead(w) \/ GraphRead(w)
    <2>1. [Idle EXCEPT !.stage = "keep", !.copy = doc] \in Call
          /\ [Idle EXCEPT !.stage = "graph", !.copy = doc] \in Call
      BY <1>1, <1>2, StartTypes, StageType
    <2>2. call' \in [Workers -> Call] /\ asked' \in 0 .. MaxRequests
      BY <1>3, <2>1, CallsType, Counted DEF WriteRead, GraphRead, TypeInv
    <2> QED BY <1>3, <2>2 DEF WriteRead, GraphRead, TypeInv, TypeOK, history
  <1>4. CASE WriteCommit(w) \/ GraphServed(w) \/ GraphWrite(w)
    <2>1. doc' \in Connection
      BY <1>1, <1>2, <1>4 DEF WriteCommit, GraphServed, GraphWrite, Connection
    <2>2. call' \in [Workers -> Call]
      BY <1>4, StartTypes, CallsType DEF WriteCommit, GraphServed, GraphWrite, TypeInv
    <2>3. raced' \in BOOLEAN
      BY <1>4 DEF WriteCommit, GraphServed, GraphWrite, TypeInv, TypeOK
    <2> QED BY <1>4, <2>1, <2>2, <2>3
        DEF WriteCommit, GraphServed, GraphWrite, TypeInv, TypeOK, history
  <1>5. CASE GraphRefresh(w)
    <2>1. issued' \in Token
      BY <1>5, NextToken DEF GraphRefresh, TypeInv
    <2>2. PICK token \in Token : token = issued'
      BY <2>1
    <2>3. [call[w] EXCEPT !.stage = "write", !.token = token] \in Call
      BY <1>1, <1>2, StageType
    <2>4. call' \in [Workers -> Call]
      BY <1>5, <2>2, <2>3, StartTypes, CallsType DEF GraphRefresh, TypeInv
    <2>5. wasted' \subseteq Token
      BY <1>5, <2>1 DEF GraphRefresh, TypeInv, TypeOK
    <2> QED BY <1>5, <2>1, <2>4, <2>5 DEF GraphRefresh, TypeInv, TypeOK, history
  <1> QED BY <1>3, <1>4, <1>5 DEF Document

LEMMA TypeCut ==
  ASSUME TypeInv, NEW w \in Workers, Cut(w)
  PROVE  TypeOK'
  <1>1. call[w].flow \in Flows \union {NoFlow} /\ call[w].token \in Token
    BY CallFields DEF TypeInv, TypeOK
  <1>2. flows' \in [Flows -> Flow]
    BY <1>1 DEF Cut, Live, TypeInv, TypeOK, Flow
  <1>3. unhelped' \subseteq Flows /\ wasted' \subseteq Token
    BY <1>1 DEF Cut, TypeInv, TypeOK
  <1>4. call' \in [Workers -> Call] /\ faults' \in 0 .. MaxFaults
    BY StartTypes, CallsType, Counted DEF Cut, TypeInv
  <1> QED BY <1>2, <1>3, <1>4 DEF Cut, TypeInv, TypeOK

-----------------------------------------------------------------------------
(* Calls and cookies.  A cookie that expects a sign-in remembers the       *)
(* company the sign-in names; a callback serves a flow that has come back  *)
(* and that its cookie expected; two callbacks of one flow are noted.      *)

Has(c, f) == (IF flows[f].kind = "link" THEN c.link ELSE c.sso) = f

Back(f) == flows[f].stage \notin {"unused", "starting", "away"}

CookieSound(c) ==
    \A f \in Flows : c.sso = f =>
        /\ flows[f].kind = "sso" /\ flows[f].stage # "unused"
        /\ flows[f].tenant # NoHome => c.tenant = flows[f].tenant
        /\ flows[f].tenant = NoHome /\ c.tenant # NoHome => f \in inherits

CallSound(c) ==
    /\ CookieSound(c.cookie)
    /\ c.stage \in {"exchange", "login", "save", "fail"} => c.flow \in Flows /\ Back(c.flow)
    /\ c.stage = "exchange" => /\ Has(c.cookie, c.flow)
                               /\ c.flow \in spent => c.flow \in crossed
    /\ c.stage = "login" => flows[c.flow].kind = "sso" /\ c.cookie.sso = c.flow
    /\ c.stage = "save" => flows[c.flow].kind = "link"
    /\ c.stage = "fail" => c.flow \in crossed \union unhelped

Twins ==
    \A v, w \in Workers :
        /\ v # w /\ call[v].stage = "exchange" /\ call[w].stage = "exchange"
        /\ call[v].flow = call[w].flow
        => call[w].flow \in crossed

CallsInv ==
    /\ \A w \in Workers : CallSound(call[w])
    /\ CookieSound(cookie)
    /\ \A f \in spent : Back(f)
    /\ Twins

(* What a flow is for does not change, and it does not begin anew.         *)
Later(f) ==
    /\ flows[f].stage # "unused" => /\ flows'[f].kind = flows[f].kind
                                    /\ flows'[f].tenant = flows[f].tenant
                                    /\ flows'[f].stage # "unused"
    /\ Back(f) => Back(f)'

(* A cookie that was sound stays so.                                       *)
LEMMA CookieStays ==
  ASSUME NEW c \in Cookie, CookieSound(c), \A f \in Flows : Later(f), inherits \subseteq inherits'
  PROVE  CookieSound(c)'
  BY DEF CookieSound, Later

LEMMA ExchangeSound ==
  ASSUME NEW c, CallSound(c), c.stage = "exchange"
  PROVE  Has(c.cookie, c.flow) /\ (c.flow \in spent => c.flow \in crossed)
  <1>1. Has(c.cookie, c.flow)
    BY DEF CallSound
  <1>2. c.flow \in spent => c.flow \in crossed
    BY DEF CallSound
  <1> QED BY <1>1, <1>2

(* A step of one worker                                                    *)
LEMMA CallsKept ==
  ASSUME TypeOK, CallsInv, NEW w \in Workers, NEW c \in Call, call' = [call EXCEPT ![w] = c],
         \A f \in Flows : Later(f),
         crossed \subseteq crossed', unhelped \subseteq unhelped', inherits \subseteq inherits',
         spent' \subseteq Flows,
         CallSound(c)', CookieSound(cookie)',
         \A f \in spent' : f \in spent \/
             (Back(f)' /\ \A v \in Workers \ {w} :
                 call[v].stage = "exchange" /\ call[v].flow = f => f \in crossed'),
         c.stage = "exchange" => \A v \in Workers \ {w} :
             call[v].stage = "exchange" /\ call[v].flow = c.flow => c.flow \in crossed'
  PROVE  CallsInv'
  <1>1. \A v \in Workers : call'[v] = IF v = w THEN c ELSE call[v]
    BY DEF TypeOK
  <1>2. ASSUME NEW v \in Workers, v # w PROVE CallSound(call[v])'
    <2>1. PICK d \in Call : d = call[v]
      BY DEF TypeOK
    <2>2. CallSound(d) /\ call'[v] = d
      BY <1>1, <1>2, <2>1 DEF CallsInv
    <2>3. CookieSound(d.cookie)'
      BY <2>2, CookieStays, CallFields DEF CallSound
    <2>4. ASSUME d.stage \in {"exchange", "login", "save", "fail"}
          PROVE  d.flow \in Flows /\ Back(d.flow)' /\ flows'[d.flow].kind = flows[d.flow].kind
      <3>1. PICK f \in Flows : f = d.flow
        BY <2>2, <2>4 DEF CallSound
      <3>2. Back(f)
        BY <2>2, <2>4, <3>1 DEF CallSound
      <3> QED BY <3>1, <3>2 DEF Later, Back
    <2>5. ASSUME d.stage = "exchange"
          PROVE  Has(d.cookie, d.flow)' /\ (d.flow \in spent' => d.flow \in crossed')
      <3>1. Has(d.cookie, d.flow) /\ (d.flow \in spent => d.flow \in crossed)
        BY <2>2, <2>5, ExchangeSound
      <3>2. Has(d.cookie, d.flow)'
        BY <2>4, <2>5, <3>1 DEF Has
      <3>3. ASSUME d.flow \in spent' PROVE d.flow \in crossed'
        <4>1. CASE d.flow \in spent
          BY <3>1, <4>1
        <4>2. CASE d.flow \notin spent
          <5>1. \A u \in Workers \ {w} :
                   call[u].stage = "exchange" /\ call[u].flow = d.flow => d.flow \in crossed'
            BY <3>3, <4>2
          <5> QED BY <1>2, <2>1, <2>5, <5>1
        <4> QED BY <4>1, <4>2
      <3> QED BY <3>2, <3>3
    <2>6. ASSUME d.stage \in {"login", "save", "fail"}
          PROVE  /\ d.stage = "login" => flows'[d.flow].kind = "sso" /\ d.cookie.sso = d.flow
                 /\ d.stage = "save" => flows'[d.flow].kind = "link"
                 /\ d.stage = "fail" => d.flow \in crossed' \union unhelped'
      BY <2>2, <2>4, <2>6 DEF CallSound
    <2>7. CallSound(d)'
      BY <2>3, <2>4, <2>5, <2>6 DEF CallSound
    <2> QED BY <2>2, <2>7 DEF CallSound, CookieSound, Has, Back
  <1>3. \A v \in Workers : CallSound(call[v])'
    <2> SUFFICES ASSUME NEW v \in Workers PROVE CallSound(call[v])'
      OBVIOUS
    <2>1. CASE v = w
      BY <1>1, <2>1 DEF CallSound, CookieSound, Has, Back
    <2> QED BY <1>2, <2>1
  <1>4. \A f \in spent' : Back(f)'
    BY DEF CallsInv, Later, TypeOK
  <1>5. Twins'
    BY <1>1 DEF CallsInv, Twins
  <1> QED BY <1>3, <1>4, <1>5 DEF CallsInv

LEMMA ClearedSound == CookieSound(Cleared) /\ CookieSound(Cleared)'
  BY NoFlowIsNone DEF CookieSound, Cleared

LEMMA IdleSound == Idle.stage = "idle" /\ CallSound(Idle) /\ CallSound(Idle)'
  BY ClearedSound DEF CallSound, CookieSound, Idle

LEMMA CallsStart ==
  ASSUME TypeOK, CallsInv, NEW w \in Workers, NEW f \in Flows, NEW kind \in {"link", "sso"},
         NEW tenant \in Home, Start(w, f, kind, tenant)
  PROVE  CallsInv'
  <1> DEFINE flow == [Unused EXCEPT !.kind = kind, !.tenant = tenant, !.stage = "starting"]
  <1>1. PICK k \in Cookie : k = With(kind, f, tenant)
    BY WithType
  <1>2. PICK c \in Call : c = [Idle EXCEPT !.stage = "reply", !.flow = f, !.cookie = k]
    <2>1. [Idle EXCEPT !.stage = "reply", !.flow = f, !.cookie = k] \in Call
      BY StartTypes DEF Call
    <2> QED BY <2>1
  <1>3. c.stage = "reply" /\ c.cookie = k
    BY <1>2 DEF Idle
  <1>4. flow.kind = kind /\ flow.tenant = tenant /\ flow.stage = "starting"
    BY DEF Unused
  <1>5. flows' = [flows EXCEPT ![f] = flow] /\ flows[f].stage = "unused"
        /\ call' = [call EXCEPT ![w] = c]
    BY <1>1, <1>2 DEF Start, Becomes, Unused
  <1>6. /\ crossed \subseteq crossed' /\ UNCHANGED <<cookie, spent, unhelped>>
        /\ inherits' = IF kind = "sso" /\ tenant = NoHome /\ cookie.tenant # NoHome
                       THEN inherits \union {f} ELSE inherits
    BY DEF Start
  <1> HIDE DEF flow
  <1>7. \A g \in Flows : Later(g)
    BY <1>5 DEF TypeOK, Later, Back
  <1>8. CookieSound(cookie)'
    BY <1>6, <1>7 DEF CallsInv, CookieSound, Later
  <1>9. CookieSound(k)'
    <2>1. CASE kind = "link"
      <3>1. k.sso = cookie.sso /\ k.tenant = cookie.tenant
        BY <1>1, <2>1 DEF With, TypeOK, Cookie
      <3> QED BY <1>6, <1>8, <3>1 DEF CookieSound
    <2>2. CASE kind = "sso"
      <3>1. k.sso = f /\ k.tenant = IF tenant = NoHome THEN cookie.tenant ELSE tenant
        BY <1>1, <2>2 DEF With, TypeOK, Cookie
      <3>2. flows'[f] = flow
        BY <1>5 DEF TypeOK
      <3> QED BY <1>4, <1>6, <2>2, <3>1, <3>2 DEF CookieSound
    <2> QED BY <2>1, <2>2
  <1>10. CallSound(c)'
    BY <1>3, <1>9 DEF CallSound
  <1> QED BY <1>3, <1>5, <1>6, <1>7, <1>8, <1>10, CallsKept DEF TypeOK

LEMMA CallsBrowse ==
  ASSUME TypeOK, CallsInv, NEW w \in Workers, Browse(w)
  PROVE  CallsInv'
  <1>1. PICK k \in Cookie : k = cookie
    BY DEF TypeOK
  <1>2. PICK c \in Call : c = [Idle EXCEPT !.stage = "reply", !.cookie = k]
    <2>1. [Idle EXCEPT !.stage = "reply", !.cookie = k] \in Call
      BY StartTypes DEF Call
    <2> QED BY <2>1
  <1>3. c.stage = "reply" /\ c.cookie = k
    BY <1>2 DEF Idle
  <1>4. call' = [call EXCEPT ![w] = c] /\ crossed \subseteq crossed'
        /\ UNCHANGED <<flows, cookie, spent, unhelped, inherits>>
    BY <1>1, <1>2 DEF Browse, Becomes
  <1>5. CookieSound(k)' /\ CookieSound(cookie)'
    BY <1>1, <1>4 DEF CallsInv, CookieSound
  <1>6. CallSound(c)'
    BY <1>3, <1>5 DEF CallSound
  <1>7. \A f \in Flows : Later(f)
    BY <1>4 DEF Later, Back
  <1> QED BY <1>3, <1>4, <1>5, <1>6, <1>7, CallsKept DEF TypeOK

LEMMA CallsReply ==
  ASSUME TypeOK, CallsInv, NEW w \in Workers, Reply(w)
  PROVE  CallsInv'
  <1>1. call[w] \in Call /\ CallSound(call[w])
    BY DEF TypeOK, CallsInv
  <1>2. PICK k \in Cookie : k = call[w].cookie
    BY <1>1, CallFields
  <1>3. cookie' = k /\ call' = [call EXCEPT ![w] = Idle]
        /\ UNCHANGED <<spent, crossed, unhelped, inherits>>
    BY <1>2 DEF Reply, Becomes, history
  <1>4. \A f \in Flows : Later(f)
    <2>1. \/ flows' = flows
          \/ /\ call[w].flow # NoFlow /\ flows[call[w].flow].stage = "starting"
             /\ flows' = [flows EXCEPT ![call[w].flow].stage = "away"]
      BY DEF Reply
    <2>2. call[w].flow \in Flows \union {NoFlow}
      BY <1>1, CallFields
    <2> QED BY <2>1, <2>2 DEF Later, Back, TypeOK, Flow
  <1>5. CookieSound(k)'
    BY <1>1, <1>2, <1>3, <1>4, CookieStays DEF CallSound
  <1>6. CookieSound(cookie)'
    BY <1>3, <1>5 DEF CookieSound
  <1> QED BY <1>3, <1>4, <1>6, IdleSound, StartTypes, CallsKept DEF TypeOK

LEMMA OverFacts ==
  ASSUME NEW flow \in Flow, NEW stage \in {"entered", "refused"}, NEW home \in Home
  PROVE  /\ Over(flow, stage, home).kind = flow.kind
         /\ Over(flow, stage, home).tenant = flow.tenant
         /\ Over(flow, stage, home).at = home
         /\ Over(flow, stage, home).stage
              = (IF flow.stage = "entered" THEN "entered" ELSE stage)
  BY DEF Over, Flow

(* An answer that clears the session is as sound as no call.               *)
LEMMA AnswerSound ==
  ASSUME NEW f \in Flows
  PROVE  LET c == [Idle EXCEPT !.stage = "reply", !.flow = f] IN
         c \in Call /\ c.stage = "reply" /\ c.flow = f /\ c.cookie = Cleared /\ CallSound(c)'
  <1> DEFINE c == [Idle EXCEPT !.stage = "reply", !.flow = f]
  <1>1. c \in Call
    BY StartTypes DEF Call
  <1>2. c.stage = "reply" /\ c.flow = f /\ c.cookie = Cleared
    BY DEF Idle
  <1> HIDE DEF c
  <1>3. CallSound(c)'
    BY <1>2, ClearedSound DEF CallSound, CookieSound
  <1> QED BY <1>1, <1>2, <1>3 DEF c

LEMMA CallsEnds ==
  ASSUME TypeOK, CallsInv, NEW w \in Workers, NEW f \in Flows, NEW stage \in {"entered", "refused"},
         NEW home \in Home, Ends(w, f, stage, home),
         crossed \subseteq crossed', unhelped \subseteq unhelped', UNCHANGED <<cookie, spent, inherits>>
  PROVE  CallsInv'
  <1>1. PICK c \in Call : c = [Idle EXCEPT !.stage = "reply", !.flow = f]
    BY AnswerSound
  <1>2. c.stage = "reply" /\ CallSound(c)'
    <2>1. c.stage = "reply" /\ c.cookie = Cleared
      BY <1>1 DEF Idle
    <2> QED BY <2>1, ClearedSound DEF CallSound, CookieSound
  <1>3. flows' = [flows EXCEPT ![f] = Over(flows[f], stage, home)]
        /\ call' = [call EXCEPT ![w] = c]
    <2>1. flows' = [flows EXCEPT ![f] = Over(flows[f], stage, home)]
      BY EndsType
    <2>2. call' = [call EXCEPT ![w] = c]
      BY <1>1 DEF Ends, Becomes
    <2> QED BY <2>1, <2>2
  <1>4. /\ flows[f] \in Flow
        /\ Over(flows[f], stage, home).kind = flows[f].kind
        /\ Over(flows[f], stage, home).tenant = flows[f].tenant
        /\ Over(flows[f], stage, home).stage \in {"entered", "refused"}
    BY OverFacts DEF TypeOK
  <1>5. \A g \in Flows : Later(g)
    BY <1>3, <1>4 DEF TypeOK, Later, Back
  <1>6. CookieSound(cookie)'
    <2>1. PICK k \in Cookie : k = cookie
      BY DEF TypeOK
    <2>2. CookieSound(k)'
      BY <1>5, <2>1, CookieStays DEF CallsInv
    <2> QED BY <2>1, <2>2 DEF CookieSound
  <1> QED BY <1>2, <1>3, <1>5, <1>6, CallsKept DEF TypeOK

LEMMA CallsCallback ==
  ASSUME TypeOK, CallsInv, NEW w \in Workers, NEW f \in Flows, NEW declined \in BOOLEAN,
         Callback(w, f, declined), crossed \subseteq crossed',
         \/ flows[f].stage = "away"
         \/ flows[f].stage \in {"back", "entered", "refused"} /\ f \in crossed'
  PROVE  CallsInv'
  <1>1. CASE ~(Expected(f) /\ ~declined)
    <2>1. Ends(w, f, "refused", flows[f].at) /\ flows[f].at \in Home
          /\ unhelped \subseteq unhelped' /\ UNCHANGED <<cookie, spent, inherits>>
      BY <1>1 DEF Callback, TypeOK, Flow
    <2> QED BY <2>1, CallsEnds
  <1>2. CASE Expected(f) /\ ~declined
    <2>1. PICK k \in Cookie : k = cookie
      BY DEF TypeOK
    <2>2. PICK c \in Call : c = [Idle EXCEPT !.stage = "exchange", !.flow = f, !.cookie = k]
      <3>1. [Idle EXCEPT !.stage = "exchange", !.flow = f, !.cookie = k] \in Call
        BY StartTypes DEF Call
      <3> QED BY <3>1
    <2>3. c.stage = "exchange" /\ c.flow = f /\ c.cookie = k
      BY <2>2 DEF Idle
    <2>4. /\ flows' = [flows EXCEPT ![f].stage = IF @ = "away" THEN "back" ELSE @]
          /\ call' = [call EXCEPT ![w] = c]
          /\ UNCHANGED <<cookie, spent, inherits>> /\ unhelped \subseteq unhelped'
      BY <1>2, <2>1, <2>2 DEF Callback, Becomes
    <2>5. /\ \A g \in Flows : Later(g)
          /\ Back(f)' /\ flows'[f].kind = flows[f].kind
      BY <2>4 DEF TypeOK, Flow, Later, Back
    <2>6. CookieSound(k)' /\ CookieSound(cookie)'
      <3>1. CookieSound(k)'
        BY <2>1, <2>4, <2>5, CookieStays DEF CallsInv
      <3> QED BY <2>1, <2>4, <3>1 DEF CookieSound
    <2>7. Has(k, f)'
      BY <1>2, <2>1, <2>5 DEF Expected, Has
    <2>8. ~Back(f) \/ f \in crossed'
      BY DEF Back
    <2>9. f \in spent' => f \in crossed'
      BY <2>4, <2>8 DEF CallsInv
    <2>10. CallSound(c)'
      BY <2>3, <2>5, <2>6, <2>7, <2>9 DEF CallSound
    <2>11. \A v \in Workers \ {w} : call[v].stage = "exchange" /\ call[v].flow = f => f \in crossed'
      BY <2>8 DEF CallsInv, CallSound
    <2> QED BY <2>3, <2>4, <2>5, <2>6, <2>10, <2>11, CallsKept DEF TypeOK
  <1> QED BY <1>1, <1>2

(* What a callback goes on to do after the exchange                        *)
LEMMA NextCall ==
  ASSUME TypeOK, NEW w \in Workers, Redeem(w) \/ Replayed(w)
  PROVE  /\ call'[w].flow = call[w].flow /\ call'[w].cookie = call[w].cookie
         /\ call'[w].stage \in {"save", "login", "fail"}
         /\ call'[w].stage = "save" => flows[call[w].flow].kind = "link"
         /\ call'[w].stage = "login" => flows[call[w].flow].kind # "link"
         /\ call'[w].stage = "fail" => call[w].flow \in spent \union unhelped'
  <1>1. call[w] \in Call /\ call \in [Workers -> Call]
    BY DEF TypeOK
  <1>2. CASE Replayed(w)
    <2>1. call'[w] = [call[w] EXCEPT !.stage = "fail", !.copy = doc]
      BY <1>1, <1>2 DEF Replayed, Becomes
    <2>2. call'[w].flow = call[w].flow /\ call'[w].cookie = call[w].cookie /\ call'[w].stage = "fail"
      BY <1>1, <2>1 DEF Call
    <2> QED BY <1>2, <2>2 DEF Replayed
  <1>3. CASE Redeem(w) /\ flows[call[w].flow].kind = "link"
    <2>1. \/ call'[w] = [call[w] EXCEPT !.stage = "save", !.copy = doc, !.token = issued']
          \/ /\ call'[w] = [call[w] EXCEPT !.stage = "fail", !.copy = doc]
             /\ call[w].flow \in unhelped'
      BY <1>1, <1>3 DEF Redeem, Becomes
    <2>2. call'[w].flow = call[w].flow /\ call'[w].cookie = call[w].cookie
          /\ (call'[w].stage = "save" \/ (call'[w].stage = "fail" /\ call[w].flow \in unhelped'))
      BY <1>1, <2>1 DEF Call
    <2> QED BY <1>3, <2>2
  <1>4. CASE Redeem(w) /\ flows[call[w].flow].kind # "link"
    <2>1. \/ call'[w] = [call[w] EXCEPT !.stage = "login"]
          \/ /\ call'[w] = [call[w] EXCEPT !.stage = "fail"]
             /\ call[w].flow \in unhelped'
      BY <1>1, <1>4 DEF Redeem, Becomes
    <2>2. call'[w].flow = call[w].flow /\ call'[w].cookie = call[w].cookie
          /\ (call'[w].stage = "login" \/ (call'[w].stage = "fail" /\ call[w].flow \in unhelped'))
      BY <1>1, <2>1 DEF Call
    <2> QED BY <1>4, <2>2
  <1> QED BY <1>2, <1>3, <1>4

LEMMA CallsRedeem ==
  ASSUME TypeInv, CallsInv, NEW w \in Workers, Redeem(w) \/ Replayed(w)
  PROVE  CallsInv'
  <1>1. call[w] \in Call /\ CallSound(call[w]) /\ call[w].stage = "exchange"
        /\ call[w].flow \in Flows
    BY DEF Redeem, Replayed, At, TypeInv, TypeOK, CallsInv, CallbacksHaveFlow, AtCallback
  <1>2. PICK f \in Flows, k \in Cookie : f = call[w].flow /\ k = call[w].cookie
    BY <1>1, CallFields
  <1>3. call'[w] \in Call /\ call' = [call EXCEPT ![w] = call'[w]]
    <2>1. call' \in [Workers -> Call]
      BY TypeRedeem, TypeReplayed DEF TypeOK
    <2> QED BY <2>1 DEF Redeem, Replayed, Becomes, TypeInv, TypeOK
  <1>4. PICK c \in Call : c = call'[w]
    BY <1>3
  <1>5. /\ c.flow = f /\ c.cookie = k /\ c.stage \in {"save", "login", "fail"}
        /\ c.stage = "save" => flows[f].kind = "link"
        /\ c.stage = "login" => flows[f].kind # "link"
    BY <1>1, <1>2, <1>4, NextCall DEF TypeInv
  <1>6. c.stage = "fail" => f \in crossed \union unhelped'
    BY <1>1, <1>2, <1>4, NextCall DEF TypeInv, CallSound
  <1>7. /\ UNCHANGED <<flows, cookie, crossed, inherits>> /\ unhelped \subseteq unhelped'
        /\ spent' \in {spent, spent \union {f}}
    BY <1>2 DEF Redeem, Replayed
  <1>8. \A g \in Flows : Later(g)
    BY <1>7 DEF Later, Back
  <1>9. CookieSound(k) /\ Has(k, f) /\ Back(f)
    BY <1>1, <1>2 DEF CallSound
  <1>10. CookieSound(k)' /\ CookieSound(cookie)'
    BY <1>7, <1>9 DEF CookieSound, CallsInv
  <1>11. CallSound(c)'
    <2>1. Back(f)'
      BY <1>7, <1>9 DEF Back
    <2>2. c.stage = "login" => flows'[f].kind = "sso" /\ k.sso = f
      BY <1>5, <1>7, <1>9 DEF Has, TypeInv, TypeOK, Flow
    <2> QED BY <1>5, <1>6, <1>7, <1>10, <2>1, <2>2 DEF CallSound
  <1>12. \A v \in Workers \ {w} : call[v].stage = "exchange" /\ call[v].flow = f => f \in crossed'
    BY <1>1, <1>2, <1>7 DEF CallsInv, Twins
  <1>13. call' = [call EXCEPT ![w] = c]
    BY <1>3, <1>4
  <1>14. \A g \in spent' : g \in spent \/
             (Back(g)' /\ \A v \in Workers \ {w} :
                 call[v].stage = "exchange" /\ call[v].flow = g => g \in crossed')
    BY <1>7, <1>9, <1>12 DEF Back
  <1> QED BY <1>5, <1>7, <1>8, <1>10, <1>11, <1>13, <1>14, CallsKept DEF TypeInv, TypeOK

(* Steps that touch neither flows nor cookies                              *)
LEMMA CallsQuiet ==
  ASSUME TypeOK, CallsInv, NEW w \in Workers, NEW c \in Call, call' = [call EXCEPT ![w] = c],
         c.cookie \in {Cleared, call[w].cookie}, c.stage \in {"idle", "keep", "graph", "write"},
         UNCHANGED <<flows, cookie, spent, crossed, inherits>>, unhelped \subseteq unhelped'
  PROVE  CallsInv'
  <1>1. \A f \in Flows : Later(f)
    BY DEF Later, Back
  <1>2. CookieSound(cookie)'
    BY DEF CallsInv, CookieSound
  <1>3. CookieSound(c.cookie)
    BY ClearedSound DEF CallsInv, CallSound
  <1>4. CallSound(c)'
    BY <1>3 DEF CallSound, CookieSound
  <1> QED BY <1>1, <1>2, <1>4, CallsKept DEF TypeOK

LEMMA CallsCut ==
  ASSUME TypeOK, CallsInv, NEW w \in Workers, Cut(w)
  PROVE  CallsInv'
  <1>1. /\ call' = [call EXCEPT ![w] = Idle] /\ UNCHANGED <<cookie, spent, crossed, inherits>>
        /\ unhelped \subseteq unhelped'
        /\ \/ flows' = flows
           \/ flows[call[w].flow].stage # "unused" /\ call[w].flow \in Flows
              /\ flows' = [flows EXCEPT ![call[w].flow].stage = "refused"]
    BY DEF Cut, Becomes, Live
  <1>2. \A f \in Flows : Later(f)
    BY <1>1 DEF Later, Back, TypeOK, Flow
  <1>3. CookieSound(cookie)'
    BY <1>1, <1>2 DEF CallsInv, CookieSound, Later
  <1> QED BY <1>1, <1>2, <1>3, IdleSound, StartTypes, CallsKept DEF TypeOK

(* The requests about the document                                         *)
LEMMA DocumentCalls ==
  ASSUME TypeOK, NEW w \in Workers, Document(w)
  PROVE  /\ call[w].stage \in {"idle", "keep", "graph", "write"}
         /\ call'[w].cookie \in {Cleared, call[w].cookie}
         /\ call'[w].stage \in {"idle", "keep", "graph", "write"}
         /\ call' = [call EXCEPT ![w] = call'[w]]
         /\ UNCHANGED <<flows, cookie, spent, accounts, crossed, unhelped, inherits>>
  <1>1. call[w] \in Call /\ call \in [Workers -> Call]
    BY DEF TypeOK
  <1>2. /\ call[w].stage \in {"idle", "keep", "graph", "write"}
        /\ UNCHANGED <<flows, cookie, spent, accounts, crossed, unhelped, inherits>>
    BY DEF Document, WriteRead, WriteCommit, GraphRead, GraphServed, GraphRefresh, GraphWrite, At,
           Idle, history
  <1>3. \/ call' = [call EXCEPT ![w] = [Idle EXCEPT !.stage = "keep", !.copy = doc]]
        \/ call' = [call EXCEPT ![w] = [Idle EXCEPT !.stage = "graph", !.copy = doc]]
        \/ call' = [call EXCEPT ![w] = [call[w] EXCEPT !.stage = "write", !.token = issued']]
        \/ call' = [call EXCEPT ![w] = Idle]
    BY DEF Document, WriteRead, WriteCommit, GraphRead, GraphServed, GraphRefresh, GraphWrite, Becomes
  <1>4. \/ call'[w] = [Idle EXCEPT !.stage = "keep", !.copy = doc]
        \/ call'[w] = [Idle EXCEPT !.stage = "graph", !.copy = doc]
        \/ call'[w] = [call[w] EXCEPT !.stage = "write", !.token = issued']
        \/ call'[w] = Idle
    BY <1>1, <1>3
  <1>5. call' = [call EXCEPT ![w] = call'[w]]
    BY <1>1, <1>3
  <1>6. call'[w].cookie \in {Cleared, call[w].cookie}
        /\ call'[w].stage \in {"idle", "keep", "graph", "write"}
    <2>1. CASE call'[w] = [call[w] EXCEPT !.stage = "write", !.token = issued']
      BY <1>1, <2>1 DEF Call
    <2>2. CASE call'[w] = [Idle EXCEPT !.stage = "keep", !.copy = doc]
      BY <2>2 DEF Idle
    <2>3. CASE call'[w] = [Idle EXCEPT !.stage = "graph", !.copy = doc]
      BY <2>3 DEF Idle
    <2>4. CASE call'[w] = Idle
      BY <2>4 DEF Idle
    <2> QED BY <1>4, <2>1, <2>2, <2>3, <2>4
  <1> QED BY <1>2, <1>5, <1>6

LEMMA CallsStep == TypeInv /\ TypeOK' /\ CallsInv /\ [Next]_vars => CallsInv'
  <1> SUFFICES ASSUME TypeInv, TypeOK', CallsInv, [Next]_vars PROVE CallsInv'
    OBVIOUS
  <1>1. TypeOK /\ CallbacksHaveFlow
    BY DEF TypeInv
  <1>2. CASE UNCHANGED <<flows, cookie, spent, call, crossed, unhelped, inherits>>
    BY <1>2 DEF CallsInv, CallSound, CookieSound, Has, Back, Twins
  <1>3. CASE UNCHANGED vars \/ OpenSettings \/ SaveSettings
    BY <1>2, <1>3 DEF vars, OpenSettings, SaveSettings, history
  <1>4. ASSUME NEW w \in Workers, Document(w) PROVE CallsInv'
    <2>1. PICK c \in Call : c = call'[w]
      BY <1>4 DEF TypeOK
    <2> QED BY <1>1, <1>4, <2>1, DocumentCalls, CallsQuiet
  <1>5. ASSUME NEW w \in Workers, Cut(w) PROVE CallsInv'
    BY <1>1, <1>5, CallsCut
  <1>6. ASSUME NEW w \in Workers, Journey(w) PROVE CallsInv'
    <2>1. ASSUME NEW f \in Flows, NEW kind \in {"link", "sso"}, NEW tenant \in Home,
                 Start(w, f, kind, tenant)
          PROVE  CallsInv'
      BY <1>1, <2>1, CallsStart
    <2>2. ASSUME NEW f \in Flows, NEW declined \in BOOLEAN, Return(w, f, declined) PROVE CallsInv'
      <3>1. Callback(w, f, declined) /\ crossed \subseteq crossed' /\ flows[f].stage = "away"
        BY <2>2 DEF Return
      <3> QED BY <1>1, <3>1, CallsCallback
    <2>3. ASSUME NEW f \in Flows, Repeat(w, f) PROVE CallsInv'
      <3>1. Callback(w, f, FALSE) /\ crossed \subseteq crossed' /\ f \in crossed'
            /\ flows[f].stage \in {"back", "entered", "refused"}
        BY <2>3 DEF Repeat
      <3> QED BY <1>1, <3>1, CallsCallback
    <2>4. CASE Browse(w) \/ Reply(w)
      BY <1>1, <2>4, CallsBrowse, CallsReply
    <2>5. CASE Redeem(w) \/ Replayed(w)
      BY <2>5, CallsRedeem
    <2>6. CASE LinkSave(w) \/ Fail(w) \/ SsoLogin(w)
      <3>1. PICK f \in Flows : f = call[w].flow
        BY <1>1, <2>6 DEF LinkSave, Fail, SsoLogin, CallbacksHaveFlow, AtCallback, At
      <3>2. UNCHANGED <<cookie, spent, crossed, unhelped, inherits>>
        BY <2>6 DEF LinkSave, Fail, SsoLogin, history
      <3>3. \E stage \in {"entered", "refused"}, home \in Home : Ends(w, f, stage, home)
        BY <1>1, <2>6, <3>1, EndingKinds DEF TypeInv
      <3> QED BY <1>1, <3>2, <3>3, CallsEnds
    <2> QED BY <1>6, <2>1, <2>2, <2>3, <2>4, <2>5, <2>6 DEF Journey
  <1> QED BY <1>3, <1>4, <1>5, <1>6 DEF Next

LEMMA TypeStep == TypeInv /\ CallsInv /\ [Next]_vars => TypeInv' /\ CallsInv'
  <1> SUFFICES ASSUME TypeInv, CallsInv, [Next]_vars PROVE TypeInv' /\ CallsInv'
    OBVIOUS
  <1>1. TypeOK'
    <2>1. TypeOK
      BY DEF TypeInv
    <2>2. CASE UNCHANGED vars
      BY <2>1, <2>2 DEF vars, TypeOK
    <2>3. ASSUME NEW w \in Workers, Journey(w) PROVE TypeOK'
      BY <2>1, <2>3, TypeStart, TypeReturn, TypeRepeat, TypeBrowse, TypeReply, TypeRedeem,
         TypeReplayed, TypeEnds DEF Journey
    <2>4. ASSUME NEW w \in Workers, Document(w) \/ Cut(w) PROVE TypeOK'
      BY <2>4, TypeDocument, TypeCut
    <2> QED BY <2>2, <2>3, <2>4, TypeSettings DEF Next
  <1>2. CallsInv'
    BY <1>1, CallsStep
  <1>3. CallbacksHaveFlow'
    BY <1>2 DEF CallsInv, CallSound, CallbacksHaveFlow, AtCallback
  <1> QED BY <1>1, <1>2, <1>3 DEF TypeInv

LEMMA TypeInit == Init => TypeInv /\ CallsInv
  <1> SUFFICES ASSUME Init PROVE TypeInv /\ CallsInv
    OBVIOUS
  <1>1. issued \in Token /\ asked \in 0 .. MaxRequests /\ faults \in 0 .. MaxFaults
    BY ConnectionsAssumption DEF Init, Token
  <1>2. accounts \in [Homes -> Account]
    BY DEF Init
  <1>3. TypeOK
    BY <1>1, <1>2, StartTypes DEF Init, TypeOK
  <1>4. \A w \in Workers : CallSound(call[w])
    BY IdleSound DEF Init, CallSound, CookieSound
  <1>5. CookieSound(cookie)
    BY ClearedSound DEF Init, CookieSound
  <1>6. Twins
    BY IdleSound DEF Init, Twins
  <1>7. CallbacksHaveFlow
    BY IdleSound DEF Init, CallbacksHaveFlow, AtCallback
  <1> QED BY <1>3, <1>4, <1>5, <1>6, <1>7 DEF TypeInv, CallsInv, Init

(* Every variable keeps values of its kind; a callback that is served has  *)
(* a flow (integration_callback, sso_callback).                            *)
THEOREM TypeCorrect == Spec => []TypeOK
  <1>1. TypeInv => TypeOK
    BY DEF TypeInv
  <1> QED BY <1>1, TypeInit, TypeStep, PTL DEF Spec

-----------------------------------------------------------------------------
(* The connection.  Whoever writes what was read earlier writes the        *)
(* document there is, or a race is noted.                                  *)

LEMMA DecisionStep == TypeInv /\ DecisionHolds /\ [Next]_vars => DecisionHolds'
  <1> SUFFICES ASSUME TypeInv, DecisionHolds, [Next]_vars PROVE DecisionHolds'
    OBVIOUS
  <1>1. ASSUME UNCHANGED <<doc, decided, raced>> PROVE DecisionHolds'
    BY <1>1 DEF DecisionHolds
  <1>2. CASE UNCHANGED vars \/ OpenSettings
    BY <1>1, <1>2 DEF vars, OpenSettings
  <1>3. CASE SaveSettings
    <2>1. (doc' = page /\ decided' = decided) \/ (doc'.status = "off" /\ decided' = "off")
      BY <1>3 DEF SaveSettings, TypeInv, TypeOK, Connection
    <2> QED BY <1>3, <2>1 DEF SaveSettings, OutOfDate, DecisionHolds
  <1>4. ASSUME NEW w \in Workers, Journey(w) PROVE DecisionHolds'
    <2>1. CASE LinkSave(w)
      BY <2>1 DEF LinkSave, DecisionHolds
    <2>2. CASE Fail(w)
      <3>1. call[w].copy \in Connection
        BY CallFields DEF TypeInv, TypeOK
      <3>2. (doc'.status = "error" /\ decided' = "error") \/ UNCHANGED <<doc, decided, raced>>
        BY <2>2, <3>1 DEF Fail, Connection
      <3> QED BY <1>1, <3>2 DEF DecisionHolds
    <2>3. CASE Redeem(w) \/ Replayed(w) \/ SsoLogin(w) \/ Browse(w) \/ Reply(w)
      BY <1>1, <2>3 DEF Redeem, Replayed, SsoLogin, Browse, Reply
    <2>4. ASSUME NEW f \in Flows, NEW kind \in {"link", "sso"}, NEW tenant \in Home,
                 Start(w, f, kind, tenant)
          PROVE  DecisionHolds'
      BY <1>1, <2>4 DEF Start
    <2>5. ASSUME NEW f \in Flows, NEW declined \in BOOLEAN,
                 Return(w, f, declined) \/ Repeat(w, f)
          PROVE  DecisionHolds'
      BY <1>1, <2>5 DEF Return, Repeat, Callback
    <2> QED BY <1>4, <2>1, <2>2, <2>3, <2>4, <2>5 DEF Journey
  <1>5. ASSUME NEW w \in Workers, Document(w) PROVE DecisionHolds'
    <2>1. call[w].copy \in Connection
      BY CallFields DEF TypeInv, TypeOK
    <2>2. CASE WriteCommit(w)
      BY <2>2 DEF WriteCommit, OutOfDate, DecisionHolds
    <2>3. CASE GraphWrite(w)
      <3>1. doc'.status = call[w].copy.status
        BY <2>1, <2>3 DEF GraphWrite, Connection
      <3> QED BY <2>3, <3>1 DEF GraphWrite, OutOfDate, DecisionHolds
    <2>4. CASE WriteRead(w) \/ GraphRead(w) \/ GraphServed(w) \/ GraphRefresh(w)
      BY <1>1, <2>4 DEF WriteRead, GraphRead, GraphServed, GraphRefresh
    <2> QED BY <1>5, <2>2, <2>3, <2>4 DEF Document
  <1>6. ASSUME NEW w \in Workers, Cut(w) PROVE DecisionHolds'
    BY <1>1, <1>6 DEF Cut
  <1> QED BY <1>2, <1>3, <1>4, <1>5, <1>6 DEF Next

(* The connection is what was last decided about it, unless somebody wrote *)
(* a document they had read before it changed (update_company_settings,    *)
(* integration_callback, list_meetings, upsert_meeting).                   *)
THEOREM DecisionStands == Spec => []DecisionHolds
  <1>1. Init => TypeInv /\ CallsInv /\ DecisionHolds
    BY TypeInit DEF Init, DecisionHolds, Nothing
  <1>2. TypeInv /\ CallsInv /\ DecisionHolds /\ [Next]_vars
            => (TypeInv /\ CallsInv /\ DecisionHolds)'
    BY TypeStep, DecisionStep
  <1> QED BY <1>1, <1>2, PTL DEF Spec

(* Tokens.  What a request read is older than the token it then got.       *)
TokenCall(c) ==
    /\ c.copy.token <= issued /\ c.token <= issued
    /\ c.stage \in {"save", "write"} => c.copy.token < c.token

TokensInv ==
    /\ doc.token <= issued /\ page.token <= issued
    /\ \A w \in Workers : TokenCall(call[w])

Holds == doc.token = issued \/ issued \in wasted \/ raced
Comes == \E w \in Workers : call[w].stage \in {"save", "write"} /\ call[w].token = issued

LEMMA TokenTypes ==
  ASSUME TypeOK
  PROVE  /\ issued \in Nat /\ doc.token \in Nat /\ page.token \in Nat
         /\ \A w \in Workers : call[w].copy.token \in Nat /\ call[w].token \in Nat
  <1>1. Token \subseteq Nat
    BY ConnectionsAssumption DEF Token
  <1>2. doc.token \in Token /\ page.token \in Token /\ issued \in Token
    BY DEF TypeOK, Connection
  <1>3. \A w \in Workers : call[w].copy.token \in Token /\ call[w].token \in Token
    BY CallFields DEF TypeOK, Connection
  <1> QED BY <1>1, <1>2, <1>3

LEMMA KeptIs == LatestTokenKept <=> Holds \/ Comes
  BY DEF LatestTokenKept, Holds, Comes, At

(* Nothing gets a token or writes one.                                     *)
LEMMA TokensQuiet ==
  ASSUME TypeOK, TokensInv, LatestTokenKept, UNCHANGED <<doc, issued, wasted, raced>>,
         page' \in {page, doc},
         \A w \in Workers : \/ call'[w] = call[w]
                            \/ /\ call'[w].stage \notin {"save", "write"}
                               /\ call[w].stage \notin {"save", "write"}
                               /\ call'[w].copy \in {Nothing, doc}
                               /\ call'[w].token \in {0, call[w].token}
  PROVE  TokensInv' /\ LatestTokenKept'
  <1>1. TokensInv'
    BY TokenTypes DEF TokensInv, TokenCall, Nothing
  <1>2. LatestTokenKept'
    BY DEF LatestTokenKept, At
  <1> QED BY <1>1, <1>2

(* A worker is done, having written the document or not.                   *)
LEMMA TokensDone ==
  ASSUME TypeOK, TokensInv, LatestTokenKept, NEW w \in Workers, NEW c \in Call,
         call' = [call EXCEPT ![w] = c], c.stage \notin {"save", "write"},
         c.copy = Nothing, c.token = 0,
         UNCHANGED <<issued, page>>, wasted \subseteq wasted', raced => raced',
         doc'.token \in {doc.token, call[w].copy.token, call[w].token},
         \/ call[w].stage \in {"save", "write"} /\ doc'.token = call[w].token
            /\ (raced' \/ doc = call[w].copy)
         \/ call[w].stage \in {"save", "write"} /\ call[w].token \in wasted' /\ doc' = doc
         \/ call[w].stage \notin {"save", "write"} /\ (raced' \/ doc'.token = doc.token)
  PROVE  TokensInv' /\ LatestTokenKept'
  <1>1. \A v \in Workers : call'[v] = IF v = w THEN c ELSE call[v]
    BY DEF TypeOK
  <1>2. TokensInv'
    <2>1. doc'.token <= issued'
      BY TokenTypes DEF TokensInv, TokenCall
    <2>2. TokenCall(c)'
      BY TokenTypes DEF TokenCall, Nothing
    <2>3. \A v \in Workers : TokenCall(call[v])'
      BY <1>1, <2>2 DEF TokensInv, TokenCall
    <2> QED BY <2>1, <2>3 DEF TokensInv
  <1>3. Holds \/ Comes
    BY KeptIs
  <1>4. CASE \E v \in Workers \ {w} : call[v].stage \in {"save", "write"} /\ call[v].token = issued
    BY <1>1, <1>2, <1>4 DEF LatestTokenKept, At
  <1>5. CASE call[w].stage \in {"save", "write"} /\ call[w].token = issued
    BY <1>2, <1>5 DEF LatestTokenKept
  <1>6. CASE Holds
    <2>1. CASE call[w].stage \in {"save", "write"} /\ doc'.token = call[w].token /\ doc = call[w].copy
      <3>1. doc.token < call[w].token /\ call[w].token <= issued
        BY <2>1 DEF TokensInv, TokenCall
      <3>2. doc.token # issued
        BY <3>1, TokenTypes
      <3> QED BY <1>2, <1>6, <3>2 DEF Holds, LatestTokenKept
    <2>2. CASE raced' \/ doc'.token = doc.token
      BY <1>2, <1>6, <2>2 DEF Holds, LatestTokenKept
    <2> QED BY <2>1, <2>2
  <1> QED BY <1>2, <1>3, <1>4, <1>5, <1>6 DEF Comes

(* Microsoft issues a token.                                               *)
LEMMA TokensIssued ==
  ASSUME TypeOK, TokensInv, LatestTokenKept, NEW w \in Workers, NEW c \in Call,
         call' = [call EXCEPT ![w] = c], UNCHANGED <<doc, page, raced>>,
         issued' = issued + 1, issued' \in Nat,
         c.copy.token <= issued,
         \/ c.stage \in {"save", "write"} /\ c.token = issued'
         \/ c.stage \notin {"save", "write"} /\ issued' \in wasted' /\ c.token <= issued,
         c.token \in Nat, c.copy.token \in Nat
  PROVE  TokensInv' /\ LatestTokenKept'
  <1>1. \A v \in Workers : call'[v] = IF v = w THEN c ELSE call[v]
    BY DEF TypeOK
  <1>2. TokenCall(c)'
    BY TokenTypes DEF TokenCall
  <1>3. \A v \in Workers : TokenCall(call[v])'
    BY <1>1, <1>2, TokenTypes DEF TokensInv, TokenCall
  <1>4. TokensInv'
    BY <1>3, TokenTypes DEF TokensInv
  <1>5. LatestTokenKept'
    BY <1>1 DEF LatestTokenKept, At
  <1> QED BY <1>4, <1>5

LEMMA CopyFacts ==
  ASSUME NEW c \in Call, NEW stage, NEW copy, NEW token
  PROVE  /\ [c EXCEPT !.stage = stage, !.copy = copy].stage = stage
         /\ [c EXCEPT !.stage = stage, !.copy = copy].copy = copy
         /\ [c EXCEPT !.stage = stage, !.copy = copy].token = c.token
         /\ [c EXCEPT !.stage = stage, !.token = token].stage = stage
         /\ [c EXCEPT !.stage = stage, !.token = token].copy = c.copy
         /\ [c EXCEPT !.stage = stage, !.token = token].token = token
         /\ [c EXCEPT !.stage = stage, !.copy = copy, !.token = token].stage = stage
         /\ [c EXCEPT !.stage = stage, !.copy = copy, !.token = token].copy = copy
         /\ [c EXCEPT !.stage = stage, !.copy = copy, !.token = token].token = token
         /\ [c EXCEPT !.stage = stage].stage = stage
         /\ [c EXCEPT !.stage = stage].copy = c.copy
         /\ [c EXCEPT !.stage = stage].token = c.token
  BY DEF Call

LEMMA TokensRedeem ==
  ASSUME TypeInv, TokensInv, LatestTokenKept, NEW w \in Workers, Redeem(w)
  PROVE  TokensInv' /\ LatestTokenKept'
  <1>1. call[w] \in Call /\ call \in [Workers -> Call] /\ call[w].stage = "exchange"
    BY DEF Redeem, At, TypeInv, TypeOK
  <1>2. TypeOK /\ doc.token <= issued /\ call[w].token <= issued /\ call[w].copy.token <= issued
    BY DEF TypeInv, TokensInv, TokenCall
  <1>3. PICK c \in Call : c = call'[w]
    BY TypeRedeem DEF TypeOK
  <1>4. call' = [call EXCEPT ![w] = c] /\ UNCHANGED <<doc, page, raced>>
    BY <1>1, <1>3 DEF Redeem, Becomes
  <1>5. CASE flows[call[w].flow].kind = "link"
    <2>1. issued' = issued + 1 /\ issued' \in Nat
      BY <1>2, <1>5, TokenTypes DEF Redeem
    <2>2. \/ /\ c.stage = "save" /\ c.copy = doc /\ c.token = issued'
          \/ /\ c.stage = "fail" /\ c.copy = doc /\ c.token = call[w].token /\ issued' \in wasted'
      <3>1. \/ c = [call[w] EXCEPT !.stage = "save", !.copy = doc, !.token = issued']
            \/ c = [call[w] EXCEPT !.stage = "fail", !.copy = doc] /\ issued' \in wasted'
        BY <1>1, <1>3, <1>5 DEF Redeem, Becomes
      <3> QED BY <1>1, <3>1 DEF Call
    <2>3. c.token \in Nat /\ c.copy.token \in Nat
      BY <1>2, <2>1, <2>2, TokenTypes
    <2> QED BY <1>2, <1>4, <2>1, <2>2, <2>3, TokensIssued
  <1>6. CASE flows[call[w].flow].kind # "link"
    <2>1. UNCHANGED <<issued, wasted>>
      BY <1>6 DEF Redeem
    <2>2. c.stage \in {"login", "fail"} /\ c.copy = call[w].copy /\ c.token = call[w].token
      <3>1. \/ c = [call[w] EXCEPT !.stage = "login"]
            \/ c = [call[w] EXCEPT !.stage = "fail"]
        BY <1>1, <1>3, <1>6 DEF Redeem, Becomes
      <3> QED BY <1>1, <3>1 DEF Call
    <2>3. \A v \in Workers : call'[v] = IF v = w THEN c ELSE call[v]
      BY <1>1, <1>4
    <2>4. TokensInv'
      BY <1>2, <1>4, <2>1, <2>2, <2>3 DEF TokensInv, TokenCall
    <2>5. LatestTokenKept'
      BY <1>1, <1>4, <2>1, <2>2, <2>3 DEF LatestTokenKept, At
    <2> QED BY <2>4, <2>5
  <1> QED BY <1>5, <1>6

LEMMA TokensReplayed ==
  ASSUME TypeInv, TokensInv, LatestTokenKept, NEW w \in Workers, Replayed(w)
  PROVE  TokensInv' /\ LatestTokenKept'
  <1>1. call[w] \in Call /\ call \in [Workers -> Call] /\ call[w].stage = "exchange"
    BY DEF Replayed, At, TypeInv, TypeOK
  <1>2. call' = [call EXCEPT ![w] = [call[w] EXCEPT !.stage = "fail", !.copy = doc]]
        /\ UNCHANGED <<doc, page, issued, wasted, raced>>
    BY DEF Replayed, Becomes
  <1>3. PICK c : c = [call[w] EXCEPT !.stage = "fail", !.copy = doc]
    OBVIOUS
  <1>4. c.stage = "fail" /\ c.copy = doc /\ c.token = call[w].token
    BY <1>1, <1>3, CopyFacts
  <1>5. \A v \in Workers : call'[v] = IF v = w THEN c ELSE call[v]
    BY <1>1, <1>2, <1>3
  <1> QED BY <1>1, <1>2, <1>4, <1>5, TokensQuiet DEF TypeInv

LEMMA TokensEnds ==
  ASSUME TypeInv, TokensInv, LatestTokenKept, NEW w \in Workers, LinkSave(w) \/ Fail(w) \/ SsoLogin(w)
  PROVE  TokensInv' /\ LatestTokenKept'
  <1>1. call[w] \in Call /\ call[w].copy \in Connection /\ TypeOK
    BY CallFields DEF TypeInv, TypeOK
  <1>2. PICK c \in Call : c = [Idle EXCEPT !.stage = "reply", !.flow = call[w].flow]
    <2>1. call[w].flow \in Flows
      BY DEF LinkSave, Fail, SsoLogin, TypeInv, CallbacksHaveFlow, AtCallback, At
    <2> QED BY <2>1, AnswerSound
  <1>3. c.stage = "reply" /\ c.copy = Nothing /\ c.token = 0
    BY <1>2 DEF Idle
  <1>4. call' = [call EXCEPT ![w] = c]
    BY <1>2 DEF LinkSave, Fail, SsoLogin, Ends, Becomes
  <1>5. UNCHANGED <<issued, page, wasted>>
    BY DEF LinkSave, Fail, SsoLogin
  <1>6. CASE LinkSave(w)
    <2>1. call[w].stage = "save" /\ doc'.token = call[w].token /\ (raced => raced')
          /\ (raced' \/ doc = call[w].copy)
      BY <1>6 DEF LinkSave, At, OutOfDate
    <2> QED BY <1>1, <1>3, <1>4, <1>5, <2>1, TokensDone
  <1>7. CASE Fail(w)
    <2>1. call[w].stage = "fail" /\ (raced => raced')
      BY <1>7 DEF Fail, At
    <2>2. doc' = doc \/ (doc'.token = call[w].copy.token /\ (raced' \/ doc = call[w].copy))
      BY <1>1, <1>7 DEF Fail, OutOfDate, Connection
    <2>3. doc'.token \in {doc.token, call[w].copy.token} /\ (raced' \/ doc'.token = doc.token)
      BY <2>2
    <2> QED BY <1>1, <1>3, <1>4, <1>5, <2>1, <2>3, TokensDone
  <1>8. CASE SsoLogin(w)
    <2>1. call[w].stage = "login" /\ UNCHANGED <<doc, raced>>
      BY <1>8 DEF SsoLogin, At
    <2> QED BY <1>1, <1>3, <1>4, <1>5, <2>1, TokensDone
  <1> QED BY <1>6, <1>7, <1>8

LEMMA TokensCut ==
  ASSUME TypeInv, TokensInv, LatestTokenKept, NEW w \in Workers, Cut(w)
  PROVE  TokensInv' /\ LatestTokenKept'
  <1>1. TypeOK /\ call' = [call EXCEPT ![w] = Idle] /\ UNCHANGED <<doc, page, issued, raced>>
    BY DEF Cut, Becomes, TypeInv
  <1>2. Idle.stage = "idle" /\ Idle.copy = Nothing /\ Idle.token = 0
    BY DEF Idle
  <1>3. wasted \subseteq wasted'
        /\ (call[w].stage \in {"save", "write"} => call[w].token \in wasted')
    BY DEF Cut, At
  <1> QED BY <1>1, <1>2, <1>3, StartTypes, TokensDone

LEMMA TokensDocument ==
  ASSUME TypeInv, TokensInv, LatestTokenKept, NEW w \in Workers, Document(w)
  PROVE  TokensInv' /\ LatestTokenKept'
  <1>1. call[w] \in Call /\ call \in [Workers -> Call] /\ call[w].copy \in Connection /\ TypeOK
    BY CallFields DEF TypeInv, TypeOK
  <1>2. Idle.stage = "idle" /\ Idle.copy = Nothing /\ Idle.token = 0 /\ Idle \in Call
    BY StartTypes DEF Idle
  <1>3. CASE WriteRead(w) \/ GraphRead(w)
    <2>1. PICK stage \in {"keep", "graph"} :
              call' = [call EXCEPT ![w] = [Idle EXCEPT !.stage = stage, !.copy = doc]]
      BY <1>3 DEF WriteRead, GraphRead, Becomes
    <2>2. PICK c : c = [Idle EXCEPT !.stage = stage, !.copy = doc]
      OBVIOUS
    <2>3. c.stage = stage /\ c.copy = doc /\ c.token = 0
      BY <1>2, <2>2, CopyFacts
    <2>4. \A v \in Workers : call'[v] = IF v = w THEN c ELSE call[v]
      BY <1>1, <2>1, <2>2
    <2>5. call[w].stage = "idle" /\ UNCHANGED <<doc, issued, wasted, raced, page>>
      BY <1>3 DEF WriteRead, GraphRead, At
    <2> QED BY <1>1, <2>3, <2>4, <2>5, TokensQuiet
  <1>4. CASE WriteCommit(w)
    <2>1. call' = [call EXCEPT ![w] = Idle] /\ UNCHANGED <<issued, page, wasted>>
          /\ call[w].stage = "keep" /\ doc' = call[w].copy /\ (raced => raced')
          /\ (raced' \/ doc = call[w].copy)
      BY <1>4 DEF WriteCommit, Becomes, At, OutOfDate
    <2> QED BY <1>1, <1>2, <2>1, TokensDone
  <1>5. CASE GraphServed(w)
    <2>1. call' = [call EXCEPT ![w] = Idle] /\ UNCHANGED <<doc, issued, page, wasted, raced>>
          /\ call[w].stage = "graph"
      BY <1>5 DEF GraphServed, Becomes, At
    <2> QED BY <1>1, <1>2, <2>1, TokensDone
  <1>6. CASE GraphWrite(w)
    <2>1. call' = [call EXCEPT ![w] = Idle] /\ UNCHANGED <<issued, page, wasted>>
          /\ call[w].stage = "write" /\ (raced => raced') /\ (raced' \/ doc = call[w].copy)
      BY <1>6 DEF GraphWrite, Becomes, At, OutOfDate
    <2>2. doc'.token = call[w].token
      BY <1>1, <1>6 DEF GraphWrite, Connection
    <2> QED BY <1>1, <1>2, <2>1, <2>2, TokensDone
  <1>7. CASE GraphRefresh(w)
    <2>1. issued' = issued + 1 /\ issued' \in Nat /\ UNCHANGED <<doc, page, raced>>
          /\ call[w].copy.token <= issued /\ call[w].copy.token \in Nat /\ issued \in Nat
      BY <1>1, <1>7, TokenTypes DEF GraphRefresh, TokensInv, TokenCall
    <2>2. CASE Becomes(w, [call[w] EXCEPT !.stage = "write", !.token = issued'])
      <3>1. PICK c \in Call : c = call'[w]
        BY <1>7, TypeDocument DEF Document, TypeOK
      <3>2. c = [call[w] EXCEPT !.stage = "write", !.token = issued']
            /\ call' = [call EXCEPT ![w] = c]
        BY <1>1, <2>2, <3>1 DEF Becomes
      <3>3. c.stage = "write" /\ c.copy = call[w].copy /\ c.token = issued'
        BY <1>1, <3>2, CopyFacts
      <3> QED BY <1>1, <2>1, <3>2, <3>3, TokensIssued
    <2>3. CASE Becomes(w, Idle) /\ issued' \in wasted'
      <3>1. Idle.copy.token = 0 /\ Idle.copy.token <= issued /\ Idle.token <= issued
        BY <1>2, <2>1 DEF Nothing
      <3>2. call' = [call EXCEPT ![w] = Idle]
        BY <2>3 DEF Becomes
      <3>3. Idle.stage \notin {"save", "write"} /\ Idle.token \in Nat /\ Idle.copy.token \in Nat
        BY <1>2, <3>1
      <3> QED BY <1>1, <1>2, <2>1, <2>3, <3>1, <3>2, <3>3, TokensIssued
    <2> QED BY <1>7, <2>2, <2>3 DEF GraphRefresh
  <1> QED BY <1>3, <1>4, <1>5, <1>6, <1>7 DEF Document

LEMMA TokensBrowser ==
  ASSUME TypeInv, TokensInv, LatestTokenKept, NEW w \in Workers,
         \/ \E f \in Flows, kind \in {"link", "sso"}, tenant \in Home : Start(w, f, kind, tenant)
         \/ \E f \in Flows, declined \in BOOLEAN : Return(w, f, declined)
         \/ \E f \in Flows : Repeat(w, f)
         \/ Browse(w) \/ Reply(w)
  PROVE  TokensInv' /\ LatestTokenKept'
  <1>1. call[w].stage \in {"idle", "reply"} /\ UNCHANGED <<doc, issued, wasted, raced, page>>
    BY DEF Start, Return, Repeat, Callback, Browse, Reply, At, Idle
  <1> DEFINE Clean(c) == /\ call' = [call EXCEPT ![w] = c]
                         /\ c.stage \in {"idle", "reply", "exchange"}
                         /\ c.copy = Nothing /\ c.token = 0
  <1>2. /\ \A stage \in {"reply", "exchange"} : \A f, k :
              LET c == [Idle EXCEPT !.stage = stage, !.flow = f, !.cookie = k] IN
              call' = [call EXCEPT ![w] = c] => Clean(c)
        /\ \A f : LET c == [Idle EXCEPT !.stage = "reply", !.flow = f] IN
                  call' = [call EXCEPT ![w] = c] => Clean(c)
        /\ \A k : LET c == [Idle EXCEPT !.stage = "reply", !.cookie = k] IN
                  call' = [call EXCEPT ![w] = c] => Clean(c)
        /\ call' = [call EXCEPT ![w] = Idle] => Clean(Idle)
    BY DEF Idle
  <1>3. \E c : Clean(c)
    <2>1. ASSUME NEW f \in Flows, NEW declined \in BOOLEAN, Callback(w, f, declined)
          PROVE  \E c : Clean(c)
      <3>1. \/ call' = [call EXCEPT ![w] = [Idle EXCEPT !.stage = "exchange", !.flow = f, !.cookie = cookie]]
            \/ call' = [call EXCEPT ![w] = [Idle EXCEPT !.stage = "reply", !.flow = f]]
        BY <2>1 DEF Callback, Ends, Becomes
      <3> HIDE DEF Clean
      <3> QED BY <1>2, <3>1
    <2>2. ASSUME NEW f \in Flows, NEW kind \in {"link", "sso"}, NEW tenant \in Home,
                 Start(w, f, kind, tenant)
          PROVE  \E c : Clean(c)
      <3>1. call' = [call EXCEPT ![w] = [Idle EXCEPT !.stage = "reply", !.flow = f,
                                                     !.cookie = With(kind, f, tenant)]]
        BY <2>2 DEF Start, Becomes
      <3> HIDE DEF Clean
      <3> QED BY <1>2, <3>1
    <2>3. CASE Browse(w)
      <3>1. call' = [call EXCEPT ![w] = [Idle EXCEPT !.stage = "reply", !.cookie = cookie]]
        BY <2>3 DEF Browse, Becomes
      <3> HIDE DEF Clean
      <3> QED BY <1>2, <3>1
    <2>4. CASE Reply(w)
      <3>1. call' = [call EXCEPT ![w] = Idle]
        BY <2>4 DEF Reply, Becomes
      <3> HIDE DEF Clean
      <3> QED BY <1>2, <3>1
    <2>5. ASSUME NEW f \in Flows, NEW declined \in BOOLEAN, Return(w, f, declined)
          PROVE  \E c : Clean(c)
      BY <2>1, <2>5 DEF Return
    <2>6. ASSUME NEW f \in Flows, Repeat(w, f) PROVE \E c : Clean(c)
      BY <2>1, <2>6 DEF Repeat
    <2> HIDE DEF Clean
    <2> QED BY <2>2, <2>3, <2>4, <2>5, <2>6
  <1>4. PICK c : Clean(c)
    BY <1>3
  <1>5. \A v \in Workers : call'[v] = IF v = w THEN c ELSE call[v]
    BY <1>4 DEF TypeInv, TypeOK
  <1> QED BY <1>1, <1>4, <1>5, TokensQuiet DEF TypeInv

LEMMA TokensSettings ==
  ASSUME TypeInv, TokensInv, LatestTokenKept, OpenSettings \/ SaveSettings
  PROVE  TokensInv' /\ LatestTokenKept'
  <1>1. TypeOK /\ page \in Connection /\ UNCHANGED <<call, issued, wasted>>
    BY DEF OpenSettings, SaveSettings, TypeInv, TypeOK
  <1>2. CASE OpenSettings
    <2>1. page' = doc /\ UNCHANGED <<doc, raced>>
      BY <1>2 DEF OpenSettings
    <2> QED BY <1>1, <2>1, TokensQuiet
  <1>3. CASE SaveSettings
    <2>1. doc'.token = page.token /\ page' = page /\ (raced => raced') /\ (raced' \/ doc = page)
      BY <1>1, <1>3 DEF SaveSettings, OutOfDate, Connection
    <2>2. TokensInv'
      BY <1>1, <2>1 DEF TokensInv, TokenCall
    <2>3. LatestTokenKept'
      BY <1>1, <2>1 DEF LatestTokenKept, At
    <2> QED BY <2>2, <2>3
  <1> QED BY <1>2, <1>3

LEMMA TokensStep ==
  TypeInv /\ TokensInv /\ LatestTokenKept /\ [Next]_vars => TokensInv' /\ LatestTokenKept'
  <1> SUFFICES ASSUME TypeInv, TokensInv, LatestTokenKept, [Next]_vars
               PROVE  TokensInv' /\ LatestTokenKept'
    OBVIOUS
  <1>1. CASE UNCHANGED vars
    BY <1>1 DEF vars, TokensInv, TokenCall, LatestTokenKept, At
  <1>2. ASSUME NEW w \in Workers, Journey(w) PROVE TokensInv' /\ LatestTokenKept'
    BY <1>2, TokensBrowser, TokensRedeem, TokensReplayed, TokensEnds DEF Journey
  <1> QED BY <1>1, <1>2, TokensDocument, TokensCut, TokensSettings DEF Next

(* The company has the newest token Microsoft issued, or is about to,      *)
(* unless a request that got one did not come to its end, or an older      *)
(* document was written back (refresh_microsoft_token,                     *)
(* save_microsoft_integration).                                            *)
THEOREM TokensAreKept == Spec => []LatestTokenKept
  <1>1. Init => TokensInv /\ LatestTokenKept
    BY DEF Init, TokensInv, TokenCall, LatestTokenKept, Idle, Nothing
  <1>2. Init => TypeInv /\ CallsInv /\ TokensInv /\ LatestTokenKept
    BY <1>1, TypeInit
  <1>3. TypeInv /\ CallsInv /\ TokensInv /\ LatestTokenKept /\ [Next]_vars
            => (TypeInv /\ CallsInv /\ TokensInv /\ LatestTokenKept)'
    BY TypeStep, TokensStep
  <1> QED BY <1>2, <1>3, PTL DEF Spec

-----------------------------------------------------------------------------
(* The browser.  A flow that nothing got in the way of is expected by the  *)
(* session, and by every session that an answer under way brings.          *)

Waits(g) == flows[g].stage \in {"starting", "away"} /\ g \notin crossed

BrowserInv ==
    /\ \A g \in Flows, w \in Workers :
        Waits(g) /\ call[w].stage \in {"reply", "exchange", "login", "save", "fail"}
        => call[w].stage = "reply" /\ Has(call[w].cookie, g)
    /\ \A g \in Flows : Waits(g) /\ flows[g].stage = "away" => Has(cookie, g)
    /\ \A g \in Flows : flows[g].stage = "starting" =>
        \E w \in Workers : call[w].stage = "reply" /\ call[w].flow = g

LEMMA BrowserKept ==
  ASSUME TypeOK, BrowserInv, NEW w \in Workers, NEW c \in Call, call' = [call EXCEPT ![w] = c],
         cookie' = cookie, crossed \subseteq crossed',
         \A g \in Flows : flows'[g].stage \in {"starting", "away"} =>
             /\ flows[g].stage = flows'[g].stage /\ flows[g].kind = flows'[g].kind
             /\ ~(flows[g].stage = "starting" /\ call[w].stage = "reply" /\ call[w].flow = g),
         \/ c.stage \in {"idle", "keep", "graph", "write"}
         \/ call[w].stage \in {"exchange", "login", "save", "fail"}
  PROVE  BrowserInv'
  <1>1. \A v \in Workers : call'[v] = IF v = w THEN c ELSE call[v]
    BY DEF TypeOK
  <1>2. \A g \in Flows : Waits(g)' => Waits(g)
    BY DEF Waits
  <1>3. ASSUME NEW g \in Flows, NEW v \in Workers, Waits(g)',
               call'[v].stage \in {"reply", "exchange", "login", "save", "fail"}
        PROVE  call'[v].stage = "reply" /\ Has(call[v].cookie, g)'
    <2>1. Waits(g) /\ flows'[g].kind = flows[g].kind
      BY <1>2, <1>3 DEF Waits
    <2>2. v # w
      BY <1>1, <1>3, <2>1 DEF BrowserInv
    <2>3. call'[v] = call[v] /\ call[v].stage = "reply" /\ Has(call[v].cookie, g)
      BY <1>1, <1>3, <2>1, <2>2 DEF BrowserInv
    <2> QED BY <2>1, <2>3 DEF Has
  <1>4. ASSUME NEW g \in Flows, Waits(g)', flows'[g].stage = "away" PROVE Has(cookie, g)'
    <2>1. Waits(g) /\ flows[g].stage = "away" /\ flows'[g].kind = flows[g].kind
      BY <1>2, <1>4 DEF Waits
    <2>2. Has(cookie, g)
      BY <2>1 DEF BrowserInv
    <2> QED BY <2>1, <2>2 DEF Has
  <1>5. ASSUME NEW g \in Flows, flows'[g].stage = "starting"
        PROVE  \E v \in Workers : call'[v].stage = "reply" /\ call'[v].flow = g
    <2>1. flows[g].stage = "starting" /\ ~(call[w].stage = "reply" /\ call[w].flow = g)
      BY <1>5
    <2>2. PICK v \in Workers : call[v].stage = "reply" /\ call[v].flow = g
      BY <2>1 DEF BrowserInv
    <2> QED BY <1>1, <2>1, <2>2
  <1> QED BY <1>3, <1>4, <1>5 DEF BrowserInv

(* A session a request begins with: what is live and not in its way is     *)
(* still expected.                                                         *)
LEMMA NobodyInFlight ==
  ASSUME BrowserInv, InFlight = {}, NEW g \in Flows, Waits(g)
  PROVE  flows[g].stage = "away" /\ Has(cookie, g)
  BY DEF BrowserInv, InFlight, Waits

LEMMA BrowserStart ==
  ASSUME TypeOK, BrowserInv, NEW w \in Workers, NEW f \in Flows, NEW kind \in {"link", "sso"},
         NEW tenant \in Home, Start(w, f, kind, tenant)
  PROVE  BrowserInv'
  <1> DEFINE flow == [Unused EXCEPT !.kind = kind, !.tenant = tenant, !.stage = "starting"]
  <1>1. PICK k \in Cookie : k = With(kind, f, tenant)
    BY WithType
  <1>2. PICK c \in Call : c = [Idle EXCEPT !.stage = "reply", !.flow = f, !.cookie = k]
    <2>1. [Idle EXCEPT !.stage = "reply", !.flow = f, !.cookie = k] \in Call
      BY StartTypes DEF Call
    <2> QED BY <2>1
  <1>3. c.stage = "reply" /\ c.cookie = k /\ c.flow = f
    BY <1>2 DEF Idle
  <1>4. flow.kind = kind /\ flow.stage = "starting"
    BY DEF Unused
  <1>5. flows' = [flows EXCEPT ![f] = flow] /\ flows[f].stage = "unused" /\ flows[f].kind = "link"
        /\ call' = [call EXCEPT ![w] = c] /\ call[w].stage = "idle" /\ cookie' = cookie
    BY <1>1, <1>2 DEF Start, Becomes, Unused, At
  <1> HIDE DEF flow
  <1>6. /\ \A v \in Workers : call'[v] = IF v = w THEN c ELSE call[v]
        /\ \A g \in Flows : flows'[g] = IF g = f THEN flow ELSE flows[g]
    BY <1>5 DEF TypeOK
  <1>7. crossed' = crossed \union (IF InFlight = {} THEN {g \in Live : flows[g].kind = kind}
                                   ELSE Live \union {f})
    BY DEF Start
  <1>8. kind = "link" => k.link = f /\ k.sso = cookie.sso
    BY <1>1 DEF With, TypeOK, Cookie
  <1>9. kind = "sso" => k.sso = f /\ k.link = cookie.link
    BY <1>1 DEF With, TypeOK, Cookie
  <1>10. Has(k, f)'
    BY <1>4, <1>6, <1>8, <1>9 DEF Has
  <1>11. ASSUME NEW g \in Flows, g # f, Waits(g)'
         PROVE  Waits(g) /\ InFlight = {} /\ flows[g].kind # kind /\ flows'[g] = flows[g]
    <2>1. flows'[g] = flows[g] /\ g \in Live /\ g \notin crossed'
      BY <1>6, <1>11 DEF Waits, Live
    <2> QED BY <1>7, <1>11, <2>1 DEF Waits
  <1>12. ASSUME NEW g \in Flows, g # f, Waits(g)'
         PROVE  flows[g].stage = "away" /\ Has(cookie, g) /\ Has(k, g)'
    <2>1. flows[g].stage = "away" /\ Has(cookie, g)
      BY <1>11, <1>12, NobodyInFlight
    <2>2. flows[g].kind \in {"link", "sso"}
      BY DEF TypeOK, Flow
    <2>3. Has(k, g)'
      BY <1>8, <1>9, <1>11, <1>12, <2>1, <2>2 DEF Has
    <2> QED BY <2>1, <2>3
  <1>13. ASSUME NEW g \in Flows, NEW v \in Workers, Waits(g)',
                call'[v].stage \in {"reply", "exchange", "login", "save", "fail"}
         PROVE  call'[v].stage = "reply" /\ Has(call[v].cookie, g)'
    <2>1. v = w
      <3>1. CASE g = f
        <4>1. InFlight = {}
          BY <1>7, <1>13, <3>1 DEF Waits
        <4> QED BY <1>6, <1>13, <4>1 DEF InFlight
      <3>2. CASE g # f
        BY <1>6, <1>11, <1>13, <3>2 DEF InFlight
      <3> QED BY <3>1, <3>2
    <2>2. Has(k, g)'
      BY <1>10, <1>12, <1>13
    <2> QED BY <1>3, <1>6, <2>1, <2>2 DEF Has
  <1>14. ASSUME NEW g \in Flows, Waits(g)', flows'[g].stage = "away" PROVE Has(cookie, g)'
    <2>1. g # f
      BY <1>4, <1>6, <1>14
    <2> QED BY <1>5, <1>11, <1>12, <1>14, <2>1 DEF Has
  <1>15. ASSUME NEW g \in Flows, flows'[g].stage = "starting"
         PROVE  \E v \in Workers : call'[v].stage = "reply" /\ call'[v].flow = g
    <2>1. CASE g = f
      BY <1>3, <1>6, <2>1
    <2>2. CASE g # f
      <3>1. PICK v \in Workers : call[v].stage = "reply" /\ call[v].flow = g
        BY <1>6, <1>15, <2>2 DEF BrowserInv
      <3> QED BY <1>5, <1>6, <3>1
    <2> QED BY <2>1, <2>2
  <1> QED BY <1>13, <1>14, <1>15 DEF BrowserInv

LEMMA BrowserBrowse ==
  ASSUME TypeOK, BrowserInv, NEW w \in Workers, Browse(w)
  PROVE  BrowserInv'
  <1>1. PICK c : c = [Idle EXCEPT !.stage = "reply", !.cookie = cookie]
    OBVIOUS
  <1>2. c.stage = "reply" /\ c.cookie = cookie
    BY <1>1 DEF Idle
  <1>3. call' = [call EXCEPT ![w] = c] /\ UNCHANGED <<flows, cookie>> /\ call[w].stage = "idle"
        /\ crossed' = crossed \union (IF InFlight = {} THEN {} ELSE Live)
    BY <1>1 DEF Browse, Becomes, At
  <1>4. \A v \in Workers : call'[v] = IF v = w THEN c ELSE call[v]
    BY <1>3 DEF TypeOK
  <1>5. ASSUME NEW g \in Flows, Waits(g)' PROVE Waits(g) /\ InFlight = {}
    <2>1. g \in Live
      BY <1>3, <1>5 DEF Waits, Live
    <2> QED BY <1>3, <1>5, <2>1 DEF Waits
  <1>6. ASSUME NEW g \in Flows, NEW v \in Workers, Waits(g)',
               call'[v].stage \in {"reply", "exchange", "login", "save", "fail"}
        PROVE  call'[v].stage = "reply" /\ Has(call[v].cookie, g)'
    <2>1. v = w
      BY <1>4, <1>5, <1>6 DEF InFlight
    <2>2. Has(cookie, g)
      BY <1>5, <1>6, NobodyInFlight
    <2> QED BY <1>2, <1>3, <1>4, <2>1, <2>2 DEF Has
  <1>7. \A g \in Flows : Waits(g)' /\ flows'[g].stage = "away" => Has(cookie, g)'
    BY <1>3, <1>5 DEF BrowserInv, Has
  <1>8. ASSUME NEW g \in Flows, flows'[g].stage = "starting"
        PROVE  \E v \in Workers : call'[v].stage = "reply" /\ call'[v].flow = g
    <2>1. PICK v \in Workers : call[v].stage = "reply" /\ call[v].flow = g
      BY <1>3, <1>8 DEF BrowserInv
    <2> QED BY <1>3, <1>4, <2>1
  <1> QED BY <1>6, <1>7, <1>8 DEF BrowserInv

LEMMA BrowserReply ==
  ASSUME TypeOK, BrowserInv, NEW w \in Workers, Reply(w)
  PROVE  BrowserInv'
  <1>1. /\ call' = [call EXCEPT ![w] = Idle] /\ cookie' = call[w].cookie
        /\ crossed' = crossed /\ call[w].stage = "reply"
    BY DEF Reply, Becomes, history, At
  <1>2. \A v \in Workers : call'[v] = IF v = w THEN Idle ELSE call[v]
    BY <1>1 DEF TypeOK
  <1>3. Idle.stage = "idle"
    BY DEF Idle
  <1>4. \A g \in Flows : /\ flows'[g].kind = flows[g].kind
                         /\ flows'[g].stage \in {"starting", "away"}
                            => flows[g].stage \in {"starting", "away"}
                         /\ flows'[g].stage = "starting"
                            => flows[g].stage = "starting" /\ g # call[w].flow
    <2>1. \A g \in Flows : flows[g] \in Flow
      BY DEF TypeOK
    <2>2. CASE call[w].flow # NoFlow /\ flows[call[w].flow].stage = "starting"
      <3>1. flows' = [flows EXCEPT ![call[w].flow].stage = "away"]
        BY <2>2 DEF Reply
      <3> QED BY <2>1, <2>2, <3>1 DEF TypeOK, Flow
    <2>3. CASE ~(call[w].flow # NoFlow /\ flows[call[w].flow].stage = "starting")
      BY <2>3, NoFlowIsNone DEF Reply
    <2> QED BY <2>2, <2>3
  <1>5. \A g \in Flows : Waits(g)' => Waits(g)
    BY <1>1, <1>4 DEF Waits
  <1>6. ASSUME NEW g \in Flows, NEW v \in Workers, Waits(g)',
               call'[v].stage \in {"reply", "exchange", "login", "save", "fail"}
        PROVE  call'[v].stage = "reply" /\ Has(call[v].cookie, g)'
    <2>1. v # w /\ call'[v] = call[v]
      BY <1>2, <1>3, <1>6
    <2>2. call[v].stage = "reply" /\ Has(call[v].cookie, g)
      BY <1>5, <1>6, <2>1 DEF BrowserInv
    <2> QED BY <1>4, <2>1, <2>2 DEF Has
  <1>7. ASSUME NEW g \in Flows, Waits(g)' PROVE Has(cookie, g)'
    <2>1. Has(call[w].cookie, g)
      BY <1>1, <1>5, <1>7 DEF BrowserInv
    <2> QED BY <1>1, <1>4, <2>1 DEF Has
  <1>8. ASSUME NEW g \in Flows, flows'[g].stage = "starting"
        PROVE  \E v \in Workers : call'[v].stage = "reply" /\ call'[v].flow = g
    <2>1. flows[g].stage = "starting" /\ g # call[w].flow
      BY <1>4, <1>8
    <2>2. PICK v \in Workers : call[v].stage = "reply" /\ call[v].flow = g
      BY <2>1 DEF BrowserInv
    <2> QED BY <1>2, <2>1, <2>2
  <1> QED BY <1>6, <1>7, <1>8 DEF BrowserInv

(* Whoever comes back crosses what else is live.                           *)
LEMMA BrowserCallback ==
  ASSUME TypeOK, BrowserInv, NEW w \in Workers, NEW f \in Flows, NEW declined \in BOOLEAN,
         Callback(w, f, declined), Live \ {f} \subseteq crossed', flows[f].stage \notin {"unused", "starting"}
  PROVE  BrowserInv'
  <1>1. call[w].stage = "idle" /\ \A v \in Workers : v # w => call'[v] = call[v]
    BY DEF Callback, Ends, Becomes, At, TypeOK
  <1>2. /\ \A g \in Flows : g # f => flows'[g] = flows[g]
        /\ flows'[f].stage \notin {"starting", "away"}
    <2>1. flows[f] \in Flow /\ flows \in [Flows -> Flow]
      BY DEF TypeOK
    <2>2. CASE Expected(f) /\ ~declined
      <3>1. flows' = [flows EXCEPT ![f].stage = IF @ = "away" THEN "back" ELSE @]
        BY <2>2 DEF Callback
      <3> QED BY <2>1, <3>1 DEF Flow
    <2>3. CASE ~(Expected(f) /\ ~declined)
      <3>1. Ends(w, f, "refused", flows[f].at) /\ flows[f].at \in Home
        BY <2>1, <2>3 DEF Callback, Flow
      <3>2. flows' = [flows EXCEPT ![f] = Over(flows[f], "refused", flows[f].at)]
        BY <3>1, EndsType
      <3>3. Over(flows[f], "refused", flows[f].at).stage \notin {"starting", "away"}
        BY <2>1, <3>1, OverFacts
      <3> QED BY <2>1, <3>2, <3>3
    <2> QED BY <2>2, <2>3
  <1>3. \A g \in Flows : ~Waits(g)'
    BY <1>2 DEF Waits, Live
  <1>4. ASSUME NEW g \in Flows, flows'[g].stage = "starting"
        PROVE  \E v \in Workers : call'[v].stage = "reply" /\ call'[v].flow = g
    <2>1. flows[g].stage = "starting"
      BY <1>2, <1>4
    <2>2. PICK v \in Workers : call[v].stage = "reply" /\ call[v].flow = g
      BY <2>1 DEF BrowserInv
    <2> QED BY <1>1, <2>2
  <1> QED BY <1>3, <1>4 DEF BrowserInv

LEMMA BrowserEnds ==
  ASSUME TypeInv, BrowserInv, NEW w \in Workers, LinkSave(w) \/ Fail(w) \/ SsoLogin(w)
  PROVE  BrowserInv'
  <1>1. PICK f \in Flows : f = call[w].flow
    BY DEF LinkSave, Fail, SsoLogin, TypeInv, CallbacksHaveFlow, AtCallback, At
  <1>2. PICK stage \in {"entered", "refused"}, home \in Home : Ends(w, f, stage, home)
    BY <1>1, EndingKinds
  <1>3. call[w].stage \in {"login", "save", "fail"} /\ UNCHANGED <<cookie, crossed>>
    BY DEF LinkSave, Fail, SsoLogin, At, history
  <1>4. TypeOK /\ flows[f] \in Flow
    BY DEF TypeInv, TypeOK
  <1>5. flows' = [flows EXCEPT ![f] = Over(flows[f], stage, home)]
    BY <1>2, <1>4, EndsType
  <1>6. Over(flows[f], stage, home).stage \notin {"starting", "away"}
    BY <1>4, OverFacts
  <1>7. \A g \in Flows : flows'[g].stage \in {"starting", "away"} => flows'[g] = flows[g]
    BY <1>4, <1>5, <1>6 DEF TypeOK
  <1>8. PICK c \in Call : c = [Idle EXCEPT !.stage = "reply", !.flow = f]
    BY AnswerSound
  <1>9. call' = [call EXCEPT ![w] = c]
    BY <1>2, <1>8 DEF Ends, Becomes
  <1> QED BY <1>3, <1>4, <1>7, <1>9, BrowserKept

LEMMA BrowserRedeem ==
  ASSUME TypeInv, BrowserInv, NEW w \in Workers, Redeem(w) \/ Replayed(w)
  PROVE  BrowserInv'
  <1>1. call[w].stage = "exchange" /\ UNCHANGED <<flows, cookie, crossed>>
    BY DEF Redeem, Replayed, At
  <1>2. PICK c \in Call : c = call'[w]
    BY TypeRedeem, TypeReplayed DEF TypeOK
  <1>3. call' = [call EXCEPT ![w] = c]
    BY <1>2 DEF Redeem, Replayed, Becomes, TypeInv, TypeOK
  <1> QED BY <1>1, <1>3, BrowserKept DEF TypeInv

LEMMA BrowserCut ==
  ASSUME TypeOK, BrowserInv, NEW w \in Workers, Cut(w)
  PROVE  BrowserInv'
  <1>1. call' = [call EXCEPT ![w] = Idle] /\ UNCHANGED <<cookie, crossed>>
    BY DEF Cut, Becomes
  <1>2. ASSUME NEW g \in Flows, flows'[g].stage \in {"starting", "away"}
        PROVE  /\ flows'[g] = flows[g]
               /\ ~(flows[g].stage = "starting" /\ call[w].stage = "reply" /\ call[w].flow = g)
    <2>1. CASE call[w].flow \in Live
      <3>1. flows' = [flows EXCEPT ![call[w].flow].stage = "refused"]
        BY <2>1 DEF Cut
      <3> QED BY <1>2, <2>1, <3>1 DEF TypeOK, Flow, Live
    <2>2. CASE call[w].flow \notin Live
      BY <1>2, <2>2 DEF Cut, Live
    <2> QED BY <2>1, <2>2
  <1>3. Idle.stage = "idle" /\ Idle \in Call
    BY IdleSound, StartTypes
  <1> QED BY <1>1, <1>2, <1>3, BrowserKept

LEMMA BrowserStep == TypeInv /\ BrowserInv /\ [Next]_vars => BrowserInv'
  <1> SUFFICES ASSUME TypeInv, BrowserInv, [Next]_vars PROVE BrowserInv'
    OBVIOUS
  <1>1. TypeOK
    BY DEF TypeInv
  <1>2. CASE UNCHANGED <<flows, cookie, call, crossed>>
    BY <1>2 DEF BrowserInv, Waits, Has
  <1>3. CASE UNCHANGED vars \/ OpenSettings \/ SaveSettings
    BY <1>2, <1>3 DEF vars, OpenSettings, SaveSettings, history
  <1>4. ASSUME NEW w \in Workers, Document(w) PROVE BrowserInv'
    <2>1. /\ call[w].stage \in {"idle", "keep", "graph", "write"}
          /\ call'[w].stage \in {"idle", "keep", "graph", "write"}
          /\ call' = [call EXCEPT ![w] = call'[w]]
          /\ UNCHANGED <<flows, cookie, crossed>>
      BY <1>1, <1>4, DocumentCalls
    <2>2. PICK c \in Call : c = call'[w]
      BY <1>4, TypeDocument DEF TypeOK
    <2> QED BY <1>1, <2>1, <2>2, BrowserKept
  <1>5. ASSUME NEW w \in Workers, Journey(w) PROVE BrowserInv'
    <2>1. ASSUME NEW f \in Flows, NEW declined \in BOOLEAN, Return(w, f, declined) PROVE BrowserInv'
      <3>1. Callback(w, f, declined) /\ Live \ {f} \subseteq crossed' /\ flows[f].stage = "away"
        BY <2>1 DEF Return
      <3> QED BY <1>1, <3>1, BrowserCallback
    <2>2. ASSUME NEW f \in Flows, Repeat(w, f) PROVE BrowserInv'
      <3>1. Callback(w, f, FALSE) /\ Live \ {f} \subseteq crossed'
            /\ flows[f].stage \in {"back", "entered", "refused"}
        BY <2>2 DEF Repeat
      <3> QED BY <1>1, <3>1, BrowserCallback
    <2> QED BY <1>1, <1>5, <2>1, <2>2, BrowserStart, BrowserBrowse, BrowserReply, BrowserRedeem,
            BrowserEnds DEF Journey
  <1>6. ASSUME NEW w \in Workers, Cut(w) PROVE BrowserInv'
    BY <1>1, <1>6, BrowserCut
  <1> QED BY <1>3, <1>4, <1>5, <1>6 DEF Next

-----------------------------------------------------------------------------
(* Where a flow ends.  Beside the two promises: who names the company of a *)
(* sign-up has signed up, and who is in has an account there.              *)

OutcomeInv ==
    /\ RefusalExplained
    /\ SignedInWhereAsked
    /\ \A f \in Flows : flows[f].tenant = Own => accounts[Own] # "none"
    /\ \A f \in Flows : flows[f].kind = "sso" /\ flows[f].stage = "entered" /\ flows[f].tenant # NoHome
                        => accounts[flows[f].tenant] # "none"

(* A step that leaves the accounts alone                                   *)
LEMMA OutcomeKept ==
  ASSUME TypeOK, OutcomeInv, accounts' = accounts,
         crossed \subseteq crossed', unhelped \subseteq unhelped', inherits \subseteq inherits',
         \A f \in Flows :
             \/ flows'[f].kind = flows[f].kind /\ flows'[f].tenant = flows[f].tenant
             \/ flows'[f].stage = "starting" /\ (flows'[f].tenant = Own => accounts[Own] # "none"),
         \A f \in Flows : flows'[f].stage = "refused" =>
             flows[f].stage = "refused" \/ f \in crossed' \union unhelped',
         \A f \in Flows : flows'[f].stage = "entered" /\ flows'[f].kind = "sso" =>
             flows[f].stage = "entered" /\ flows'[f].at = flows[f].at
  PROVE  OutcomeInv'
  <1>1. RefusalExplained'
    BY DEF OutcomeInv, RefusalExplained
  <1>2. SignedInWhereAsked'
    BY DEF OutcomeInv, SignedInWhereAsked
  <1>3. \A f \in Flows : flows'[f].tenant = Own => accounts'[Own] # "none"
    BY DEF OutcomeInv
  <1>4. \A f \in Flows : flows'[f].kind = "sso" /\ flows'[f].stage = "entered" /\ flows'[f].tenant # NoHome
                         => accounts'[flows'[f].tenant] # "none"
    BY DEF OutcomeInv
  <1> QED BY <1>1, <1>2, <1>3, <1>4 DEF OutcomeInv

(* ... and ends a flow for a reason, or one that was to connect            *)
LEMMA OutcomeEnds ==
  ASSUME TypeOK, OutcomeInv, NEW w \in Workers, NEW f \in Flows, NEW stage \in {"entered", "refused"},
         NEW home \in Home, Ends(w, f, stage, home), UNCHANGED <<accounts, crossed, inherits>>,
         unhelped \subseteq unhelped',
         \/ stage = "refused" /\ home = flows[f].at /\ f \in crossed \union unhelped'
         \/ stage = "entered" /\ flows[f].kind = "link"
  PROVE  OutcomeInv'
  <1>1. flows' = [flows EXCEPT ![f] = Over(flows[f], stage, home)]
    BY EndsType
  <1>2. /\ Over(flows[f], stage, home).kind = flows[f].kind
        /\ Over(flows[f], stage, home).tenant = flows[f].tenant
        /\ Over(flows[f], stage, home).at = home
        /\ Over(flows[f], stage, home).stage = (IF flows[f].stage = "entered" THEN "entered" ELSE stage)
    BY OverFacts DEF TypeOK
  <1>3. \A g \in Flows : flows'[g] = IF g = f THEN Over(flows[f], stage, home) ELSE flows[g]
    BY <1>1 DEF TypeOK
  <1> QED BY <1>2, <1>3, OutcomeKept

LEMMA OutcomeStart ==
  ASSUME TypeOK, OutcomeInv, NEW w \in Workers, NEW f \in Flows, NEW kind \in {"link", "sso"},
         NEW tenant \in Home, Start(w, f, kind, tenant)
  PROVE  OutcomeInv'
  <1> DEFINE flow == [Unused EXCEPT !.kind = kind, !.tenant = tenant, !.stage = "starting"]
  <1>1. flow.tenant = tenant /\ flow.stage = "starting"
    BY DEF Unused
  <1>2. flows' = [flows EXCEPT ![f] = flow] /\ (tenant = Own => accounts[Own] # "none")
        /\ UNCHANGED <<accounts, unhelped>> /\ crossed \subseteq crossed' /\ inherits \subseteq inherits'
    BY DEF Start
  <1> HIDE DEF flow
  <1>3. \A g \in Flows : flows'[g] = IF g = f THEN flow ELSE flows[g]
    BY <1>2 DEF TypeOK
  <1> QED BY <1>1, <1>2, <1>3, OutcomeKept

LEMMA OutcomeReply ==
  ASSUME TypeOK, OutcomeInv, NEW w \in Workers, Reply(w) \/ Cut(w)
  PROVE  OutcomeInv'
  <1>1. /\ UNCHANGED <<accounts, crossed, inherits>> /\ unhelped \subseteq unhelped'
        /\ \/ flows' = flows
           \/ /\ call[w].flow \in Flows
              /\ flows' = [flows EXCEPT ![call[w].flow].stage = "away"]
           \/ /\ call[w].flow \in Flows /\ call[w].flow \in unhelped'
              /\ flows' = [flows EXCEPT ![call[w].flow].stage = "refused"]
    <2>1. call[w].flow \in Flows \union {NoFlow}
      BY CallFields DEF TypeOK
    <2>2. CASE Reply(w)
      BY <2>1, <2>2 DEF Reply, history
    <2>3. CASE Cut(w)
      BY <2>3, NoFlowIsNone DEF Cut, Live
    <2> QED BY <2>2, <2>3
  <1>2. CASE flows' = flows
    BY <1>1, <1>2, OutcomeKept
  <1>3. ASSUME NEW f \in Flows, NEW stage \in {"away", "refused"},
               flows' = [flows EXCEPT ![f].stage = stage], stage = "refused" => f \in unhelped'
        PROVE  OutcomeInv'
    <2>1. \A g \in Flows : flows[g] \in Flow
      BY DEF TypeOK
    <2>2. \A g \in Flows : flows'[g].kind = flows[g].kind /\ flows'[g].tenant = flows[g].tenant
                           /\ flows'[g].at = flows[g].at
                           /\ flows'[g].stage = IF g = f THEN stage ELSE flows[g].stage
      BY <1>3, <2>1 DEF TypeOK, Flow
    <2> QED BY <1>1, <1>3, <2>2, OutcomeKept
  <1>4. PICK f : f = call[w].flow
    OBVIOUS
  <1> QED BY <1>1, <1>2, <1>3, <1>4

(* Who comes back unexpected was crossed.                                  *)
LEMMA OutcomeCallback ==
  ASSUME TypeOK, OutcomeInv, NEW w \in Workers, NEW f \in Flows, NEW declined \in BOOLEAN,
         Callback(w, f, declined), crossed \subseteq crossed',
         Expected(f) \/ f \in crossed'
  PROVE  OutcomeInv'
  <1>1. \A g \in Flows : flows[g] \in Flow
    BY DEF TypeOK
  <1>2. UNCHANGED <<accounts, inherits>> /\ unhelped \subseteq unhelped'
    BY DEF Callback
  <1>3. CASE Expected(f) /\ ~declined
    <2>1. flows' = [flows EXCEPT ![f].stage = IF @ = "away" THEN "back" ELSE @]
      BY <1>3 DEF Callback
    <2>2. \A g \in Flows : flows'[g].kind = flows[g].kind /\ flows'[g].tenant = flows[g].tenant
                           /\ flows'[g].at = flows[g].at
                           /\ flows'[g].stage \in {"back", flows[g].stage}
      BY <1>1, <2>1 DEF TypeOK, Flow
    <2> QED BY <1>2, <2>2, OutcomeKept
  <1>4. CASE ~(Expected(f) /\ ~declined)
    <2>1. Ends(w, f, "refused", flows[f].at) /\ flows[f].at \in Home
      BY <1>1, <1>4 DEF Callback, Flow
    <2>2. f \in crossed' \union unhelped'
      BY <1>4 DEF Callback
    <2>3. flows' = [flows EXCEPT ![f] = Over(flows[f], "refused", flows[f].at)]
      BY <2>1, EndsType
    <2>4. /\ Over(flows[f], "refused", flows[f].at).kind = flows[f].kind
          /\ Over(flows[f], "refused", flows[f].at).tenant = flows[f].tenant
          /\ Over(flows[f], "refused", flows[f].at).at = flows[f].at
          /\ Over(flows[f], "refused", flows[f].at).stage
               = (IF flows[f].stage = "entered" THEN "entered" ELSE "refused")
      BY <1>1, <2>1, OverFacts
    <2>5. \A g \in Flows : flows'[g] = IF g = f THEN Over(flows[f], "refused", flows[f].at) ELSE flows[g]
      BY <2>3 DEF TypeOK
    <2> QED BY <1>2, <2>2, <2>4, <2>5, OutcomeKept
  <1> QED BY <1>3, <1>4

(* The company a sign-in ends in: the one its session names, which may be  *)
(* none only if the person has no account there.                           *)
LEMMA SignInFacts ==
  ASSUME TypeOK, NEW tenant \in Home
  PROVE  /\ SignInTo(tenant) \subseteq Homes
         /\ tenant # NoHome => SignInTo(tenant) \subseteq {tenant}
         /\ SignInTo(tenant) = {} => tenant # NoHome /\ accounts[tenant] = "none" /\ ~AutoProvision
         /\ \A h \in SignInTo(tenant) : accounts[h] # "none" \/ AutoProvision \/ h = Own
  <1>1. CASE tenant # NoHome
    BY <1>1 DEF SignInTo, Home
  <1>2. CASE tenant = NoHome
    <2>1. Having("local") = {} => Cardinality(Having("local")) = 0
      BY FS_EmptySet
    <2>2. \/ SignInTo(tenant) = Having("linked") /\ Having("linked") # {}
          \/ SignInTo(tenant) = Having("local") /\ Having("local") # {}
          \/ SignInTo(tenant) = {Own}
      BY <1>2, <2>1 DEF SignInTo
    <2>3. \A account \in {"linked", "local"} : Having(account) \subseteq Homes
              /\ \A h \in Having(account) : accounts[h] # "none"
      BY DEF Having
    <2> QED BY <1>2, <2>2, <2>3 DEF Homes
  <1> QED BY <1>1, <1>2

LEMMA OutcomeSsoLogin ==
  ASSUME TypeInv, CallsInv, OutcomeInv, NEW w \in Workers, SsoLogin(w)
  PROVE  OutcomeInv'
  <1>1. PICK f \in Flows : f = call[w].flow
    BY DEF SsoLogin, TypeInv, CallbacksHaveFlow, AtCallback, At
  <1>2. call[w] \in Call /\ CallSound(call[w]) /\ call[w].stage = "login" /\ TypeOK
    BY DEF SsoLogin, At, TypeInv, TypeOK, CallsInv
  <1>3. PICK tenant \in Home : tenant = call[w].cookie.tenant
    BY <1>2, CallFields DEF Cookie
  <1>4. /\ flows[f].kind = "sso"
        /\ flows[f].tenant # NoHome => tenant = flows[f].tenant
        /\ flows[f].tenant = NoHome /\ tenant # NoHome => f \in inherits
    BY <1>1, <1>2, <1>3 DEF CallSound, CookieSound
  <1>5. UNCHANGED <<crossed, unhelped, inherits>>
    BY DEF SsoLogin, history
  <1>6. flows[f] \in Flow /\ \A g \in Flows : flows[g].tenant \in Home
    BY <1>2 DEF TypeOK, Flow
  <1>7. ASSUME NEW stage \in {"entered", "refused"}, NEW home \in Home, Ends(w, f, stage, home)
        PROVE  /\ \A g \in Flows : g # f => flows'[g] = flows[g]
               /\ flows'[f].kind = "sso" /\ flows'[f].tenant = flows[f].tenant /\ flows'[f].at = home
               /\ flows'[f].stage = (IF flows[f].stage = "entered" THEN "entered" ELSE stage)
    <2>1. flows' = [flows EXCEPT ![f] = Over(flows[f], stage, home)]
      BY <1>2, <1>7, EndsType
    <2>2. flows'[f] = Over(flows[f], stage, home) /\ \A g \in Flows : g # f => flows'[g] = flows[g]
      BY <1>2, <2>1 DEF TypeOK
    <2> QED BY <1>4, <1>6, <2>2, OverFacts
  <1>8. ASSUME NEW h \in SignInTo(tenant), Ends(w, f, "entered", h),
               accounts' = [accounts EXCEPT ![h] = "linked"]
        PROVE  OutcomeInv'
    <2>1. h \in Homes /\ h \in Home /\ (tenant # NoHome => h = tenant)
          /\ (accounts[h] # "none" \/ AutoProvision \/ h = Own)
      BY <1>2, SignInFacts DEF Home
    <2>2. /\ \A g \in Flows : g # f => flows'[g] = flows[g]
          /\ flows'[f].kind = "sso" /\ flows'[f].tenant = flows[f].tenant /\ flows'[f].at = h
          /\ flows'[f].stage = "entered"
      BY <1>7, <1>8, <2>1
    <2>3. \A k \in Homes : accounts'[k] = IF k = h THEN "linked" ELSE accounts[k]
      BY <1>2, <1>8 DEF TypeOK
    <2>4. Own \in Homes /\ \A g \in Flows : flows[g].tenant # NoHome => flows[g].tenant \in Homes
      BY <1>6 DEF Home, Homes
    <2>5. RefusalExplained'
      <3> SUFFICES ASSUME NEW g \in Flows, flows'[g].stage = "refused",
                          g \notin crossed \union unhelped \union inherits
                   PROVE  flows'[g].tenant # NoHome /\ accounts'[flows'[g].tenant] = "none"
                          /\ ~AutoProvision
        BY <1>5 DEF RefusalExplained
      <3>1. g # f /\ flows'[g] = flows[g]
        BY <2>2
      <3>2. flows[g].tenant # NoHome /\ accounts[flows[g].tenant] = "none" /\ ~AutoProvision
        BY <3>1 DEF OutcomeInv, RefusalExplained
      <3>3. flows[g].tenant # h
        BY <2>1, <3>2 DEF OutcomeInv
      <3> QED BY <2>3, <2>4, <3>1, <3>2, <3>3
    <2>6. SignedInWhereAsked'
      BY <1>4, <2>1, <2>2 DEF OutcomeInv, SignedInWhereAsked
    <2>7. \A g \in Flows : flows'[g].tenant = Own => accounts'[Own] # "none"
      BY <2>2, <2>3, <2>4 DEF OutcomeInv
    <2>8. \A g \in Flows : flows'[g].kind = "sso" /\ flows'[g].stage = "entered" /\ flows'[g].tenant # NoHome
                           => accounts'[flows'[g].tenant] # "none"
      BY <1>4, <2>1, <2>2, <2>3, <2>4 DEF OutcomeInv
    <2> QED BY <2>5, <2>6, <2>7, <2>8 DEF OutcomeInv
  <1>9. ASSUME SignInTo(tenant) = {}, Ends(w, f, "refused", NoHome), accounts' = accounts
        PROVE  OutcomeInv'
    <2>1. tenant # NoHome /\ accounts[tenant] = "none" /\ ~AutoProvision /\ NoHome \in Home
      BY <1>2, <1>9, SignInFacts DEF Home
    <2>2. /\ \A g \in Flows : g # f => flows'[g] = flows[g]
          /\ flows'[f].kind = "sso" /\ flows'[f].tenant = flows[f].tenant
          /\ flows'[f].stage = (IF flows[f].stage = "entered" THEN "entered" ELSE "refused")
      BY <1>7, <1>9, <2>1
    <2>3. flows[f].tenant # NoHome => flows[f].stage # "entered"
      BY <1>4, <2>1 DEF OutcomeInv
    <2>4. RefusalExplained'
      <3>1. f \in inherits \/ (flows'[f].tenant # NoHome /\ accounts'[flows'[f].tenant] = "none")
        BY <1>4, <1>9, <2>1, <2>2
      <3> QED BY <1>5, <1>9, <2>1, <2>2, <3>1 DEF OutcomeInv, RefusalExplained
    <2>5. SignedInWhereAsked'
      BY <2>2, <2>3 DEF OutcomeInv, SignedInWhereAsked
    <2>6. \A g \in Flows : flows'[g].tenant = Own => accounts'[Own] # "none"
      BY <1>9, <2>2 DEF OutcomeInv
    <2>7. \A g \in Flows : flows'[g].kind = "sso" /\ flows'[g].stage = "entered" /\ flows'[g].tenant # NoHome
                           => accounts'[flows'[g].tenant] # "none"
      BY <1>9, <2>2, <2>3 DEF OutcomeInv
    <2> QED BY <2>4, <2>5, <2>6, <2>7 DEF OutcomeInv
  <1> QED BY <1>1, <1>3, <1>8, <1>9 DEF SsoLogin

LEMMA OutcomeLinkSave ==
  ASSUME TypeInv, CallsInv, OutcomeInv, NEW w \in Workers, LinkSave(w) \/ Fail(w)
  PROVE  OutcomeInv'
  <1>1. PICK f \in Flows : f = call[w].flow
    BY DEF LinkSave, Fail, TypeInv, CallbacksHaveFlow, AtCallback, At
  <1>2. CallSound(call[w]) /\ TypeOK /\ flows[f].at \in Home /\ NoHome \in Home
        /\ UNCHANGED <<accounts, crossed, inherits, unhelped>>
    BY DEF LinkSave, Fail, TypeInv, TypeOK, CallsInv, Flow, Home, history
  <1>3. CASE LinkSave(w)
    <2>1. Ends(w, f, "entered", NoHome) /\ flows[f].kind = "link"
      BY <1>1, <1>2, <1>3 DEF LinkSave, At, CallSound
    <2> QED BY <1>2, <2>1, OutcomeEnds
  <1>4. CASE Fail(w)
    <2>1. Ends(w, f, "refused", flows[f].at) /\ f \in crossed \union unhelped
      BY <1>1, <1>2, <1>4 DEF Fail, At, CallSound
    <2> QED BY <1>2, <2>1, OutcomeEnds
  <1> QED BY <1>3, <1>4

LEMMA OutcomeStep == TypeInv /\ CallsInv /\ BrowserInv /\ OutcomeInv /\ [Next]_vars => OutcomeInv'
  <1> SUFFICES ASSUME TypeInv, CallsInv, BrowserInv, OutcomeInv, [Next]_vars PROVE OutcomeInv'
    OBVIOUS
  <1>1. TypeOK
    BY DEF TypeInv
  <1>2. CASE /\ UNCHANGED <<flows, accounts, inherits>>
             /\ crossed \subseteq crossed' /\ unhelped \subseteq unhelped'
    BY <1>1, <1>2, OutcomeKept
  <1>3. CASE UNCHANGED vars \/ OpenSettings \/ SaveSettings
    BY <1>2, <1>3 DEF vars, OpenSettings, SaveSettings, history
  <1>4. ASSUME NEW w \in Workers, Document(w) PROVE OutcomeInv'
    BY <1>1, <1>2, <1>4, DocumentCalls
  <1>5. ASSUME NEW w \in Workers, Journey(w) PROVE OutcomeInv'
    <2>1. ASSUME NEW f \in Flows, NEW declined \in BOOLEAN, Return(w, f, declined) PROVE OutcomeInv'
      <3>1. Callback(w, f, declined) /\ crossed \subseteq crossed' /\ flows[f].stage = "away"
        BY <2>1 DEF Return
      <3>2. f \notin crossed => Expected(f)
        BY <3>1 DEF BrowserInv, Waits, Has, Expected
      <3> QED BY <1>1, <3>1, <3>2, OutcomeCallback
    <2>2. ASSUME NEW f \in Flows, Repeat(w, f) PROVE OutcomeInv'
      <3>1. Callback(w, f, FALSE) /\ crossed \subseteq crossed' /\ f \in crossed'
        BY <2>2 DEF Repeat
      <3> QED BY <1>1, <3>1, OutcomeCallback
    <2>3. CASE Browse(w) \/ Redeem(w) \/ Replayed(w)
      BY <1>2, <2>3 DEF Browse, Redeem, Replayed
    <2> QED BY <1>1, <1>5, <2>1, <2>2, <2>3, OutcomeStart, OutcomeReply, OutcomeLinkSave,
            OutcomeSsoLogin DEF Journey
  <1>6. ASSUME NEW w \in Workers, Cut(w) PROVE OutcomeInv'
    BY <1>1, <1>6, OutcomeReply
  <1> QED BY <1>3, <1>4, <1>5, <1>6 DEF Next

LEMMA FlowsHold == Spec => []OutcomeInv
  <1>1. Init => BrowserInv /\ OutcomeInv
    <2> SUFFICES ASSUME Init PROVE BrowserInv /\ OutcomeInv
      OBVIOUS
    <2>1. \A f \in Flows : flows[f].stage = "unused" /\ flows[f].tenant = NoHome
      BY DEF Init, Unused
    <2>2. BrowserInv
      BY <2>1 DEF BrowserInv, Waits
    <2>3. OutcomeInv
      BY <2>1, ConnectionsAssumption DEF OutcomeInv, RefusalExplained, SignedInWhereAsked
    <2> QED BY <2>2, <2>3
  <1>2. Init => TypeInv /\ CallsInv /\ BrowserInv /\ OutcomeInv
    BY <1>1, TypeInit
  <1>3. TypeInv /\ CallsInv /\ BrowserInv /\ OutcomeInv /\ [Next]_vars
            => (TypeInv /\ CallsInv /\ BrowserInv /\ OutcomeInv)'
    BY TypeStep, BrowserStep, OutcomeStep
  <1> QED BY <1>2, <1>3, PTL DEF Spec

(* Who is sent back from Microsoft and refused has crossed a journey of    *)
(* the same browser, was not helped by Microsoft, or has no account where  *)
(* the sign-in led (integration_callback, sso_callback, sso_login).        *)
THEOREM RefusalsHaveReasons == Spec => []RefusalExplained
  <1>1. OutcomeInv => RefusalExplained
    BY DEF OutcomeInv
  <1> QED BY <1>1, FlowsHold, PTL

(* A sign-in that names a company ends in it, however the journeys of the  *)
(* browser and its requests interleave (start_sso, sso_callback).          *)
THEOREM SignInsLandRight == Spec => []SignedInWhereAsked
  <1>1. OutcomeInv => SignedInWhereAsked
    BY DEF OutcomeInv
  <1> QED BY <1>1, FlowsHold, PTL
=============================================================================
