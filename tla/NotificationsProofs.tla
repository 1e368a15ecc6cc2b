------------------------- MODULE NotificationsProofs -------------------------
(* Type correctness of Notifications, and what it promises of deliveries,  *)
(* for any number of requests, handlers, notifications and failures.       *)
EXTENDS Notifications, FiniteSetTheorems, TLAPS

-----------------------------------------------------------------------------
(* Type correctness.  What a pass holds had attempts left, and a thread    *)
(* that makes a notification makes it for a request.                       *)

CallFits(c) ==
    /\ c.stage = "create" => c.req \in Requests
    /\ c.stage # "send" => c.read = NoRows
    /\ \A d \in Deliveries : c.read[d].status # "absent" =>
        /\ c.read[d].status \in {"pending", "failed"} /\ c.read[d].tries < MaxTries
        /\ c.new[d] = c.read[d] \/ c.new[d].tries = c.read[d].tries + 1

TypeInv == TypeOK /\ \A t \in Threads : CallFits(call[t])

LEMMA RowTypes == NoRow \in Row /\ NoRows \in [Deliveries -> Row] /\ Idle \in Call /\ CallFits(Idle)
  <1>1. NoRow \in Row
    BY NotificationsAssumption DEF NoRow, Row
  <1>2. NoRows \in [Deliveries -> Row]
    BY <1>1 DEF NoRows
  <1>3. Idle \in Call
    BY <1>2 DEF Idle, Call
  <1>4. \A d \in Deliveries : NoRows[d].status = "absent"
    BY DEF NoRows, NoRow
  <1>5. CallFits(Idle)
    BY <1>4 DEF CallFits, Idle
  <1> QED BY <1>1, <1>2, <1>3, <1>5

LEMMA PubTypes ==
  ASSUME NEW p \in Publisher
  PROVE  Done \in Publisher /\ NextAttempt(p) \in Publisher
         /\ NextAttempt(p).stage \in {"post", "done"}
  BY DEF Done, Publisher, NextAttempt

LEMMA Faulted == ASSUME TypeOK, Fault PROVE faults' \in 0 .. MaxFaults
  BY NotificationsAssumption DEF TypeOK, Fault

LEMMA CallTyped ==
  ASSUME TypeInv, NEW t \in Threads, NEW c \in Call, CallFits(c), call' = [call EXCEPT ![t] = c]
  PROVE  /\ call' \in [Threads -> Call] /\ \A u \in Threads : CallFits(call[u])'
         /\ \A u \in Threads : call'[u] = IF u = t THEN c ELSE call[u]
  <1>1. call \in [Threads -> Call]
    BY DEF TypeInv, TypeOK
  <1>2. \A u \in Threads : call'[u] = IF u = t THEN c ELSE call[u]
    BY <1>1
  <1>3. \A u \in Threads : CallFits(call'[u])
    BY <1>2 DEF TypeInv
  <1>4. \A u \in Threads : CallFits(call[u])'
    BY <1>3 DEF CallFits
  <1> QED BY <1>1, <1>2, <1>4

(* How calls end: the publishers that waited are told.                     *)
LEMMA EndTypes ==
  ASSUME TypeOK, NEW t \in Threads, Succeeds(t) \/ Fails(t)
  PROVE  pub' \in [Requests -> Publisher] /\ up' \subseteq Threads
  <1>1. \A r \in Requests : Done \in Publisher /\ NextAttempt(pub[r]) \in Publisher
    BY PubTypes DEF TypeOK
  <1>2. CASE Succeeds(t)
    BY <1>1, <1>2 DEF Succeeds, TypeOK
  <1>3. CASE Fails(t)
    BY <1>1, <1>3 DEF Fails, TypeOK
  <1> QED BY <1>2, <1>3

LEMMA TypePublisher ==
  ASSUME TypeInv, NEW r \in Requests,
         \/ \E wish \in Wishes : Publish(r, wish)
         \/ PostFails(r) \/ TimesOut(r)
  PROVE  TypeInv'
  <1>1. TypeOK /\ pub[r] \in Publisher
    BY DEF TypeInv, TypeOK
  <1>2. UNCHANGED <<call, notes, rows, up, mails, raced, unrecorded>>
    BY DEF Publish, PostFails, TimesOut
  <1>3. pub' \in [Requests -> Publisher]
    <2>1. \/ pub' = [pub EXCEPT ![r] = Done]
          \/ pub' = [pub EXCEPT ![r].stage = "post"]
          \/ pub' = [pub EXCEPT ![r] = NextAttempt(pub[r])]
      BY DEF Publish, PostFails, TimesOut
    <2>2. [pub[r] EXCEPT !.stage = "post"] \in Publisher
      BY <1>1 DEF Publisher
    <2> QED BY <1>1, <2>1, <2>2, PubTypes DEF TypeOK
  <1>4. queue' \subseteq Requests /\ unanswered' \subseteq Requests
    BY <1>1 DEF Publish, PostFails, TimesOut, Arrives, TypeOK
  <1>5. wants' \in [Requests -> SUBSET Channels]
    BY <1>1, NotificationsAssumption DEF Publish, PostFails, TimesOut, TypeOK
  <1>6. faults' \in 0 .. MaxFaults
    BY <1>1, Faulted DEF Publish, PostFails, TimesOut, TypeOK
  <1>7. TypeOK'
    BY <1>1, <1>2, <1>3, <1>4, <1>5, <1>6 DEF TypeOK
  <1>8. \A t \in Threads : CallFits(call[t])'
    BY <1>2 DEF TypeInv, CallFits
  <1> QED BY <1>7, <1>8 DEF TypeInv

LEMMA CreatingType ==
  ASSUME TypeInv, NEW t \in Threads, NEW r \in Requests, call[t] = Idle
  PROVE  /\ [call[t] EXCEPT !.stage = "create", !.req = r] \in Call
         /\ CallFits([call[t] EXCEPT !.stage = "create", !.req = r])
         /\ [Idle EXCEPT !.stage = "select"] \in Call
         /\ CallFits([Idle EXCEPT !.stage = "select"])
  <1>1. \A c : c = [Idle EXCEPT !.stage = "create", !.req = r] =>
               c.stage = "create" /\ c.req = r /\ c.read = NoRows /\ c.new = NoRows /\ c \in Call
    BY RowTypes DEF Idle, Call
  <1>2. \A c : c = [Idle EXCEPT !.stage = "select"] =>
               c.stage = "select" /\ c.read = NoRows /\ c.new = NoRows /\ c \in Call
    BY RowTypes DEF Idle, Call
  <1>3. \A d \in Deliveries : NoRows[d].status = "absent"
    BY DEF NoRows, NoRow
  <1>4. \A c : c.stage \in {"create", "select"} /\ c.read = NoRows /\ (c.stage = "create" => c.req \in Requests)
               => CallFits(c)
    BY <1>3 DEF CallFits
  <1>5. PICK c : c = [Idle EXCEPT !.stage = "create", !.req = r]
    OBVIOUS
  <1>6. PICK e : e = [Idle EXCEPT !.stage = "select"]
    OBVIOUS
  <1>7. c \in Call /\ CallFits(c) /\ e \in Call /\ CallFits(e)
    BY <1>1, <1>2, <1>4, <1>5, <1>6
  <1> QED BY <1>5, <1>6, <1>7

LEMMA TypeBegin ==
  ASSUME TypeInv, NEW r \in Requests, NEW t \in Threads,
         (t \in Handlers /\ Post(r, t)) \/ (t = Consumer /\ Take(r))
  PROVE  TypeInv'
  <1>1. TypeOK /\ call[t] = Idle /\ UNCHANGED <<wants, notes, rows, up, mails, raced, unrecorded, unanswered, faults>>
    BY DEF TypeInv, Post, Take, Ready
  <1>2. PICK c : c = [call[t] EXCEPT !.stage = "create", !.req = r]
    OBVIOUS
  <1>3. c \in Call /\ CallFits(c)
    BY <1>1, <1>2, CreatingType
  <1>4. call' = [call EXCEPT ![t] = c]
    BY <1>2 DEF Post, Take
  <1>5. pub' \in [Requests -> Publisher] /\ queue' \subseteq Requests
    <2>1. CASE t \in Handlers /\ Post(r, t)
      <3>1. PICK p : p = [pub EXCEPT ![r].stage = "wait"]
        OBVIOUS
      <3>2. p \in [Requests -> Publisher]
        BY <1>1, <3>1 DEF TypeOK, Publisher
      <3>3. pub' = [p EXCEPT ![r].by = t] /\ queue' = queue
        BY <1>1, <2>1, <3>1 DEF Post, TypeOK
      <3> QED BY <1>1, <2>1, <3>2, <3>3 DEF TypeOK, Publisher
    <2>2. CASE t = Consumer /\ Take(r)
      BY <1>1, <2>2 DEF Take, TypeOK
    <2> QED BY <2>1, <2>2
  <1>6. call' \in [Threads -> Call] /\ \A u \in Threads : CallFits(call[u])'
    BY <1>3, <1>4, CallTyped
  <1> QED BY <1>1, <1>5, <1>6 DEF TypeInv, TypeOK

(* A call ends, one way or the other.                                      *)
LEMMA TypeOver ==
  ASSUME TypeInv, NEW t \in Threads, call' = [call EXCEPT ![t] = Idle], Succeeds(t) \/ Fails(t),
         UNCHANGED <<wants, queue, mails, raced>>,
         notes' \in [Notes -> Requests \union {Nobody}], rows' \in [Deliveries -> Row],
         unrecorded' \subseteq Deliveries, unanswered' \subseteq Requests,
         faults' \in 0 .. MaxFaults
  PROVE  TypeInv'
  <1>1. TypeOK
    BY DEF TypeInv
  <1>2. pub' \in [Requests -> Publisher] /\ up' \subseteq Threads
    BY <1>1, EndTypes
  <1>3. call' \in [Threads -> Call] /\ \A u \in Threads : CallFits(call[u])'
    BY RowTypes, CallTyped
  <1> QED BY <1>1, <1>2, <1>3 DEF TypeInv, TypeOK

LEMMA TypeEnding ==
  ASSUME TypeInv, NEW t \in Threads,
         Skip(t) \/ CreateFails(t) \/ NothingDue(t) \/ Commit(t) \/ PassFails(t)
  PROVE  TypeInv'
  <1>1. TypeOK
    BY DEF TypeInv
  <1>2. call' = [call EXCEPT ![t] = Idle] /\ (Succeeds(t) \/ Fails(t)) /\ UNCHANGED <<wants, queue, notes, mails, raced>>
    BY DEF Skip, CreateFails, NothingDue, Commit, PassFails
  <1>3. rows' \in [Deliveries -> Row]
    <2>1. CASE Commit(t)
      <3>1. \A d \in Deliveries : rows[d] \in Row /\ call[t].new[d] \in Row
        BY <1>1 DEF TypeOK, Call
      <3>2. \A d \in Deliveries : Written(rows[d], call[t].read[d], call[t].new[d]) \in Row
        BY <3>1 DEF Written, Row
      <3> QED BY <2>1, <3>1, <3>2 DEF Commit
    <2>2. CASE ~Commit(t)
      BY <1>1, <2>2 DEF Skip, CreateFails, NothingDue, PassFails, TypeOK
    <2> QED BY <2>1, <2>2
  <1>4. unrecorded' \subseteq Deliveries /\ unanswered' \subseteq Requests
    BY <1>1 DEF Skip, CreateFails, NothingDue, Commit, PassFails, TypeOK, Taken, Held, Waiting
  <1>5. faults' \in 0 .. MaxFaults
    BY <1>1, Faulted DEF Skip, CreateFails, NothingDue, Commit, PassFails, TypeOK
  <1> QED BY <1>1, <1>2, <1>3, <1>4, <1>5, TypeOver DEF TypeOK

LEMMA TypeCreate ==
  ASSUME TypeInv, NEW t \in Threads, Create(t)
  PROVE  TypeInv'
  <1>1. TypeOK /\ call[t].req \in Requests
        /\ UNCHANGED <<wants, queue, mails, raced, unrecorded, unanswered, faults>>
    BY DEF TypeInv, Create, CallFits
  <1>2. notes' \in [Notes -> Requests \union {Nobody}]
    BY <1>1 DEF Create, TypeOK
  <1>3. rows' \in [Deliveries -> Row]
    <2>1. [status |-> "pending", tries |-> 0] \in Row
      BY NotificationsAssumption DEF Row
    <2> QED BY <1>1, <2>1 DEF Create, TypeOK
  <1>4. CASE call[t].stage = "create" /\ wants[call[t].req] \subseteq {"in_app"}
    <2>1. call' = [call EXCEPT ![t] = Idle] /\ Succeeds(t)
      BY <1>4 DEF Create
    <2> QED BY <1>1, <1>2, <1>3, <2>1, TypeOver DEF TypeOK
  <1>5. CASE ~(wants[call[t].req] \subseteq {"in_app"})
    <2>1. PICK c : c = [Idle EXCEPT !.stage = "select"]
      OBVIOUS
    <2>2. call' = [call EXCEPT ![t] = c] /\ UNCHANGED <<pub, up>>
      BY <1>5, <2>1 DEF Create
    <2>3. c \in Call /\ CallFits(c)
      <3>1. c.stage = "select" /\ c.read = NoRows /\ c \in Call
        BY <2>1, RowTypes DEF Idle, Call
      <3>2. \A d \in Deliveries : NoRows[d].status = "absent"
        BY DEF NoRows, NoRow
      <3> QED BY <3>1, <3>2 DEF CallFits
    <2>4. call' \in [Threads -> Call] /\ \A u \in Threads : CallFits(call[u])'
      BY <2>2, <2>3, CallTyped
    <2> QED BY <1>1, <1>2, <1>3, <2>2, <2>4 DEF TypeInv, TypeOK
  <1> QED BY <1>4, <1>5 DEF Create

(* What a pass begins with                                                 *)
Reading == [d \in Deliveries |-> IF d \in Due THEN rows[d] ELSE NoRow]

LEMMA SelectCall ==
  ASSUME TypeOK, NEW t \in Threads, Select(t)
  PROVE  \E c \in Call : /\ call' = [call EXCEPT ![t] = c] /\ CallFits(c)
                         /\ c.stage = "send" /\ c.read = Reading /\ c.new = Reading
  <1>1. PICK read : read = Reading
    OBVIOUS
  <1>2. read \in [Deliveries -> Row]
    BY <1>1, RowTypes DEF Reading, TypeOK
  <1>3. PICK c : c = [stage |-> "send", req |-> Nobody, read |-> read, new |-> read]
    OBVIOUS
  <1>4. c \in Call /\ c.stage = "send" /\ c.read = read /\ c.new = read
    BY <1>2, <1>3 DEF Call
  <1>5. call' = [call EXCEPT ![t] = c]
    BY <1>1, <1>3 DEF Select, Reading
  <1>6. \A d \in Deliveries : read[d].status # "absent" =>
            read[d].status \in {"pending", "failed"} /\ read[d].tries < MaxTries
    BY <1>1 DEF Reading, Due, NoRow
  <1>7. CallFits(c)
    BY <1>4, <1>6 DEF CallFits
  <1> QED BY <1>1, <1>4, <1>5, <1>7

LEMMA TypeSelect ==
  ASSUME TypeInv, NEW t \in Threads, Select(t)
  PROVE  TypeInv'
  <1>1. TypeOK /\ UNCHANGED <<pub, wants, queue, notes, rows, up, mails, unrecorded, unanswered, faults>>
    BY DEF TypeInv, Select
  <1>2. call' \in [Threads -> Call] /\ \A u \in Threads : CallFits(call[u])'
    BY <1>1, SelectCall, CallTyped
  <1>3. raced' \subseteq Deliveries
    BY <1>1 DEF Select, Due, TypeOK
  <1> QED BY <1>1, <1>2, <1>3 DEF TypeInv, TypeOK

(* What an attempt leaves: one row of the pass                             *)
LEMMA TriedCall ==
  ASSUME TypeInv, NEW t \in Threads, NEW d \in Deliveries, Turn(t, d),
         NEW status \in {"delivered", "failed", "pending"}, call' = Tried(t, d, status)
  PROVE  \E c \in Call : /\ call' = [call EXCEPT ![t] = c] /\ CallFits(c)
                         /\ c.stage = "send" /\ c.read = call[t].read
                         /\ \A e \in Deliveries : e # d => c.new[e] = call[t].new[e]
                         /\ c.new[d].status = status /\ c.new[d].tries = call[t].read[d].tries + 1
  <1>1. call[t] \in Call /\ CallFits(call[t]) /\ call \in [Threads -> Call] /\ call[t].stage = "send"
    BY DEF TypeInv, TypeOK, Turn
  <1>2. d \in Held(t) /\ call[t].read[d].tries < MaxTries /\ call[t].read[d] \in Row
    BY <1>1 DEF Turn, Todo, Held, CallFits, Call
  <1>3. PICK row \in Row : row = [status |-> status, tries |-> call[t].read[d].tries + 1]
    <2>1. call[t].read[d].tries \in 0 .. MaxTries
      BY <1>2 DEF Row
    <2>2. call[t].read[d].tries + 1 \in 0 .. MaxTries
      BY <1>2, <2>1, NotificationsAssumption
    <2>3. [status |-> status, tries |-> call[t].read[d].tries + 1] \in Row
      BY <2>2 DEF Row
    <2> QED BY <2>3
  <1>4. row.status = status /\ row.tries = call[t].read[d].tries + 1
    BY <1>3
  <1>5. PICK new : new = [call[t].new EXCEPT ![d] = row]
    OBVIOUS
  <1>6. /\ new \in [Deliveries -> Row] /\ new[d] = row
        /\ \A e \in Deliveries : e # d => new[e] = call[t].new[e]
    BY <1>1, <1>5 DEF Call
  <1>7. PICK c : c = [call[t] EXCEPT !.new = new]
    OBVIOUS
  <1>8. c \in Call /\ c.stage = "send" /\ c.read = call[t].read /\ c.new = new /\ c.req = call[t].req
    BY <1>1, <1>6, <1>7 DEF Call
  <1>9. call' = [call EXCEPT ![t] = c]
    <2>1. call' = [call EXCEPT ![t].new[d] = row]
      BY <1>3 DEF Tried
    <2> QED BY <1>1, <1>5, <1>7, <2>1 DEF Call
  <1>10. CallFits(c)
    BY <1>1, <1>4, <1>6, <1>8 DEF CallFits
  <1> QED BY <1>4, <1>6, <1>8, <1>9, <1>10

LEMMA TypeTry ==
  ASSUME TypeInv, NEW t \in Threads, NEW d \in Deliveries, Send(t, d) \/ Postpone(t, d)
  PROVE  TypeInv'
  <1>1. TypeOK /\ Turn(t, d) /\ UNCHANGED <<pub, wants, queue, notes, rows, up, raced, unanswered>>
    BY DEF TypeInv, Send, Postpone
  <1>2. \E status \in {"delivered", "failed", "pending"} : call' = Tried(t, d, status)
    BY DEF Send, Postpone
  <1>3. call' \in [Threads -> Call] /\ \A u \in Threads : CallFits(call[u])'
    BY <1>1, <1>2, TriedCall, CallTyped
  <1>4. mails' \in [Deliveries -> 0 .. 2]
    <2>1. mails' \in {mails, Mailed(d)}
      BY DEF Send, Postpone
    <2>2. Mailed(d) \in [Deliveries -> 0 .. 2]
      BY <1>1 DEF Mailed, TypeOK
    <2> QED BY <1>1, <2>1, <2>2 DEF TypeOK
  <1>5. unrecorded' \subseteq Deliveries /\ faults' \in 0 .. MaxFaults
    BY <1>1, Faulted DEF Send, Postpone, TypeOK
  <1> QED BY <1>1, <1>3, <1>4, <1>5 DEF TypeInv, TypeOK

LEMMA TypeProcess ==
  ASSUME TypeInv, Crash \/ Restart \/ BrokerRestart
  PROVE  TypeInv'
  <1>1. TypeOK
    BY DEF TypeInv
  <1>2. CASE Crash
    <2>1. call' \in [Threads -> Call] /\ \A u \in Threads : CallFits(call[u])'
      <3>1. \A u \in Threads : call'[u] = Idle
        BY <1>2 DEF Crash
      <3> QED BY <1>2, <3>1, RowTypes DEF Crash, CallFits
    <2>2. pub' \in [Requests -> Publisher]
      <3>1. \A r \in Requests : NextAttempt(pub[r]) \in Publisher
        BY <1>1, PubTypes DEF TypeOK
      <3> QED BY <1>1, <1>2, <3>1 DEF Crash, TypeOK
    <2>3. queue' \subseteq Requests /\ up' \subseteq Threads
      BY <1>1, <1>2 DEF Crash, TypeOK
    <2>4. unrecorded' \subseteq Deliveries /\ unanswered' \subseteq Requests
      BY <1>1, <1>2 DEF Crash, TypeOK, Taken, Held
    <2>5. faults' \in 0 .. MaxFaults
      BY <1>1, <1>2, Faulted DEF Crash
    <2> QED BY <1>1, <1>2, <2>1, <2>2, <2>3, <2>4, <2>5 DEF Crash, TypeInv, TypeOK
  <1>3. CASE Restart \/ BrokerRestart
    <2>1. UNCHANGED <<pub, wants, notes, rows, call, mails, raced, unrecorded, unanswered>>
      BY <1>3 DEF Restart, BrokerRestart
    <2>2. queue' \subseteq Requests /\ up' \subseteq Threads
      BY <1>1, <1>3 DEF Restart, BrokerRestart, TypeOK
    <2>3. faults' \in 0 .. MaxFaults
      BY <1>1, <1>3, Faulted DEF Restart, BrokerRestart, TypeOK
    <2>4. \A u \in Threads : CallFits(call[u])'
      BY <2>1 DEF TypeInv, CallFits
    <2> QED BY <1>1, <2>1, <2>2, <2>3, <2>4 DEF TypeInv, TypeOK
  <1> QED BY <1>2, <1>3

LEMMA TypeStep == TypeInv /\ [Next]_vars => TypeInv'
  <1> SUFFICES ASSUME TypeInv, [Next]_vars PROVE TypeInv'
    OBVIOUS
  <1>1. CASE UNCHANGED vars
    BY <1>1 DEF vars, TypeInv, TypeOK, CallFits
  <1>2. ASSUME NEW r \in Requests,
               \/ \E wish \in Wishes : Publish(r, wish)
               \/ \E h \in Handlers : Post(r, h)
               \/ PostFails(r) \/ TimesOut(r) \/ Take(r)
        PROVE  TypeInv'
    <2>1. Consumer \in Threads /\ Handlers \subseteq Threads
      BY DEF Threads
    <2> QED BY <1>2, <2>1, TypePublisher, TypeBegin
  <1>3. ASSUME NEW t \in Threads,
               \/ Create(t) \/ Skip(t) \/ CreateFails(t)
               \/ Select(t) \/ NothingDue(t) \/ Commit(t) \/ PassFails(t)
               \/ \E d \in Deliveries : Send(t, d) \/ Postpone(t, d)
        PROVE  TypeInv'
    BY <1>3, TypeCreate, TypeEnding, TypeSelect, TypeTry
  <1> QED BY <1>1, <1>2, <1>3, TypeProcess DEF Next

LEMMA TypeInit == Init => TypeInv
  <1> SUFFICES ASSUME Init PROVE TypeInv
    OBVIOUS
  <1>1. pub \in [Requests -> Publisher]
    BY DEF Init, Publisher
  <1>2. wants \in [Requests -> SUBSET Channels] /\ notes \in [Notes -> Requests \union {Nobody}]
    BY DEF Init
  <1>3. rows \in [Deliveries -> Row] /\ call \in [Threads -> Call]
    BY RowTypes DEF Init
  <1>4. mails \in [Deliveries -> 0 .. 2] /\ faults \in 0 .. MaxFaults
    BY NotificationsAssumption DEF Init
  <1>5. \A t \in Threads : CallFits(call[t])
    BY RowTypes DEF Init
  <1> QED BY <1>1, <1>2, <1>3, <1>4, <1>5 DEF Init, TypeInv, TypeOK

(* Requests, notifications, rows and calls keep their shape, and no row    *)
(* counts more than MaxTries attempts (NotificationService).               *)
THEOREM TypeCorrect == Spec => []TypeOK
  <1>1. TypeInv => TypeOK
    BY DEF TypeInv
  <1> QED BY <1>1, TypeInit, TypeStep, PTL DEF Spec

-----------------------------------------------------------------------------
(* Deliveries.  What a pass holds is as it read it, unless another pass    *)
(* held it too; an e-mail that was taken is on record, or a pass is about  *)
(* to record it.                                                           *)

Holds(t, d) == call[t].read[d].status # "absent"

Took(t, d) == Holds(t, d) /\ d[2] = "email" /\ call[t].new[d].status = "delivered"

Sound(d) ==
    /\ rows[d] # NoRow \/ (\E t \in Threads : Holds(t, d)) => notes[d[1]] # Nobody
    /\ \A t, u \in Threads : Holds(t, d) /\ Holds(u, d) => t = u \/ d \in raced
    /\ \A t \in Threads : Holds(t, d) => rows[d] = call[t].read[d] \/ d \in raced
    /\ mails[d] > 0 => \/ d \in raced \union unrecorded
                       \/ mails[d] = 1 /\ (rows[d].status = "delivered" \/ \E t \in Threads : Took(t, d))

DeliveriesInv == \A d \in Deliveries : Sound(d)

(* A step that leaves this delivery alone, or drops it                     *)
LEMMA SoundKept ==
  ASSUME NEW d \in Deliveries, Sound(d), rows'[d] = rows[d], notes'[d[1]] = notes[d[1]],
         mails'[d] = mails[d], raced \subseteq raced', unrecorded \subseteq unrecorded',
         \A t \in Threads :
             \/ call'[t].read[d] = call[t].read[d] /\ call'[t].new[d] = call[t].new[d]
             \/ call'[t].read[d].status = "absent" /\ (Took(t, d) => d \in unrecorded')
  PROVE  Sound(d)'
  <1>1. \A t \in Threads : Holds(t, d)' => Holds(t, d) /\ call'[t].read[d] = call[t].read[d]
    BY DEF Holds
  <1>2. rows'[d] # NoRow \/ (\E t \in Threads : Holds(t, d)') => notes'[d[1]] # Nobody
    BY <1>1 DEF Sound
  <1>3. \A t, u \in Threads : Holds(t, d)' /\ Holds(u, d)' => t = u \/ d \in raced'
    BY <1>1 DEF Sound
  <1>4. \A t \in Threads : Holds(t, d)' => rows'[d] = call'[t].read[d] \/ d \in raced'
    BY <1>1 DEF Sound
  <1>5. \A t \in Threads : Took(t, d) => Took(t, d)' \/ d \in unrecorded'
    BY DEF Took, Holds
  <1>6. mails'[d] > 0 => \/ d \in raced' \union unrecorded'
                         \/ mails'[d] = 1 /\ (rows'[d].status = "delivered" \/ \E t \in Threads : Took(t, d)')
    BY <1>5 DEF Sound
  <1> QED BY <1>2, <1>3, <1>4, <1>6 DEF Sound

LEMMA NoteOf == ASSUME NEW d \in Deliveries PROVE d[1] \in Notes
  BY DEF Deliveries

LEMMA NothingHeld ==
  ASSUME TypeInv, NEW t \in Threads, call[t].stage # "send", NEW d \in Deliveries
  PROVE  ~Holds(t, d) /\ ~Took(t, d)
  BY DEF TypeInv, CallFits, Holds, Took, NoRows, NoRow

LEMMA HeldFacts ==
  ASSUME TypeInv, NEW t \in Threads, NEW d \in Deliveries, Holds(t, d)
  PROVE  /\ call[t].read[d].status \in {"pending", "failed"}
         /\ call[t].new[d] = call[t].read[d] \/ call[t].new[d].tries = call[t].read[d].tries + 1
         /\ call[t].read[d].tries \in Nat /\ call[t].new[d].tries \in Nat
  <1>1. call[t].read[d] \in Row /\ call[t].new[d] \in Row
    BY DEF TypeInv, TypeOK, Call
  <1>2. \A row \in Row : row.tries \in Nat
    BY NotificationsAssumption DEF Row
  <1> QED BY <1>1, <1>2 DEF TypeInv, CallFits, Holds

(* A thread that begins or ends without a pass to its name                 *)
LEMMA SoundCalls ==
  ASSUME TypeInv, DeliveriesInv, NEW t \in Threads, NEW c, call' = [call EXCEPT ![t] = c],
         c.read = NoRows, UNCHANGED <<rows, notes, mails, raced>>,
         unrecorded \subseteq unrecorded',
         \A d \in Deliveries : Took(t, d) => d \in unrecorded'
  PROVE  DeliveriesInv'
  <1>1. \A u \in Threads : call'[u] = IF u = t THEN c ELSE call[u]
    BY DEF TypeInv, TypeOK
  <1>2. \A d \in Deliveries : NoRows[d].status = "absent"
    BY DEF NoRows, NoRow
  <1>3. ASSUME NEW d \in Deliveries PROVE Sound(d)'
    BY <1>1, <1>2, SoundKept DEF DeliveriesInv
  <1> QED BY <1>3 DEF DeliveriesInv

LEMMA SoundBegin ==
  ASSUME TypeInv, DeliveriesInv, NEW r \in Requests, NEW t \in Threads, Post(r, t) \/ (t = Consumer /\ Take(r))
  PROVE  DeliveriesInv'
  <1>1. call[t] = Idle /\ UNCHANGED <<rows, notes, mails, raced, unrecorded>>
    BY DEF Post, Take, Ready
  <1>2. PICK c : c = [call[t] EXCEPT !.stage = "create", !.req = r]
    OBVIOUS
  <1>3. c.read = NoRows
    BY <1>1, <1>2 DEF Idle
  <1>4. call' = [call EXCEPT ![t] = c]
    BY <1>2 DEF Post, Take
  <1>5. \A d \in Deliveries : ~Took(t, d)
    BY <1>1, NothingHeld DEF Idle
  <1> QED BY <1>1, <1>3, <1>4, <1>5, SoundCalls

LEMMA SoundEnding ==
  ASSUME TypeInv, DeliveriesInv, NEW t \in Threads,
         Skip(t) \/ CreateFails(t) \/ NothingDue(t) \/ PassFails(t)
  PROVE  DeliveriesInv'
  <1>1. call' = [call EXCEPT ![t] = Idle] /\ UNCHANGED <<rows, notes, mails, raced>>
        /\ unrecorded \subseteq unrecorded'
    BY DEF Skip, CreateFails, NothingDue, PassFails
  <1>2. \A d \in Deliveries : Took(t, d) => d \in unrecorded'
    <2>1. CASE call[t].stage # "send"
      BY <2>1, NothingHeld
    <2>2. CASE call[t].stage = "send"
      <3>1. PassFails(t)
        BY <2>2 DEF Skip, CreateFails, NothingDue
      <3> QED BY <3>1 DEF PassFails, Taken, Held, Took, Holds
    <2> QED BY <2>1, <2>2
  <1>3. Idle.read = NoRows
    BY DEF Idle
  <1> QED BY <1>1, <1>2, <1>3, SoundCalls

LEMMA SoundCreate ==
  ASSUME TypeInv, DeliveriesInv, NEW t \in Threads, Create(t)
  PROVE  DeliveriesInv'
  <1>1. call[t].stage = "create" /\ call[t].req \in Requests /\ call[t].req # Nobody
        /\ UNCHANGED <<mails, raced, unrecorded>>
    BY NotificationsAssumption DEF Create, TypeInv, CallFits
  <1>2. PICK n \in Notes :
            /\ notes[n] = Nobody
            /\ notes' = [notes EXCEPT ![n] = call[t].req]
            /\ rows' = [d \in Deliveries |->
                           IF d[1] = n /\ d[2] \in wants[call[t].req]
                           THEN [status |-> "pending", tries |-> 0] ELSE rows[d]]
    BY DEF Create
  <1>3. \A d \in Deliveries, u \in Threads :
            \/ call'[u].read[d] = call[u].read[d] /\ call'[u].new[d] = call[u].new[d]
            \/ call'[u].read[d].status = "absent" /\ ~Took(u, d)
    <2>1. PICK e : e = [Idle EXCEPT !.stage = "select"]
      OBVIOUS
    <2>2. call' = [call EXCEPT ![t] = Idle] \/ call' = [call EXCEPT ![t] = e]
      BY <2>1 DEF Create
    <2>3. Idle.read = NoRows /\ e.read = NoRows
      BY <2>1 DEF Idle
    <2>4. \A d \in Deliveries : NoRows[d].status = "absent" /\ ~Took(t, d)
      BY <1>1, NothingHeld DEF NoRows, NoRow
    <2> QED BY <2>2, <2>3, <2>4 DEF TypeInv, TypeOK
  <1>4. ASSUME NEW d \in Deliveries, d[1] # n PROVE Sound(d)'
    <2>1. rows'[d] = rows[d] /\ notes'[d[1]] = notes[d[1]]
      BY <1>2, <1>4, NoteOf DEF TypeInv, TypeOK
    <2> QED BY <1>1, <1>3, <2>1, SoundKept DEF DeliveriesInv
  <1>5. ASSUME NEW d \in Deliveries, d[1] = n PROVE Sound(d)'
    <2>1. Sound(d) /\ rows[d] = NoRow /\ \A u \in Threads : ~Holds(u, d)
      BY <1>2, <1>5 DEF DeliveriesInv, Sound
    <2>2. \A u \in Threads : ~Holds(u, d)' /\ ~Took(u, d) /\ ~Took(u, d)'
      BY <1>3, <2>1 DEF Holds, Took
    <2>3. notes'[d[1]] # Nobody
      BY <1>1, <1>2, <1>5, NoteOf DEF TypeInv, TypeOK
    <2>4. mails[d] > 0 => d \in raced \union unrecorded
      BY <2>1, <2>2 DEF Sound, NoRow
    <2> QED BY <1>1, <2>2, <2>3, <2>4 DEF Sound
  <1> QED BY <1>4, <1>5 DEF DeliveriesInv

LEMMA SoundSelect ==
  ASSUME TypeInv, DeliveriesInv, NEW t \in Threads, Select(t)
  PROVE  DeliveriesInv'
  <1>1. TypeOK /\ UNCHANGED <<rows, notes, mails, unrecorded>>
        /\ raced' = raced \union {d \in Due : \E u \in Threads \ {t} : d \in Held(u)}
    BY DEF TypeInv, Select
  <1>2. PICK c \in Call : call' = [call EXCEPT ![t] = c] /\ c.read = Reading /\ c.new = Reading
    BY <1>1, SelectCall
  <1>3. \A u \in Threads : call'[u] = IF u = t THEN c ELSE call[u]
    BY <1>1, <1>2 DEF TypeOK
  <1>4. \A d \in Deliveries : ~Holds(t, d) /\ ~Took(t, d)
    <2>1. call[t].stage # "send"
      BY DEF Select, MayBegin, Ready, Idle
    <2> QED BY <2>1, NothingHeld
  <1>5. ASSUME NEW d \in Deliveries, d \notin Due PROVE Sound(d)'
    <2>1. c.read[d].status = "absent"
      BY <1>2, <1>5 DEF Reading, NoRow
    <2> QED BY <1>1, <1>3, <1>4, <1>5, <2>1, SoundKept DEF DeliveriesInv
  <1>6. ASSUME NEW d \in Deliveries, d \in Due PROVE Sound(d)'
    <2>1. Sound(d) /\ c.read[d] = rows[d] /\ rows[d].status \in {"pending", "failed"}
          /\ rows[d] # NoRow
      BY <1>2, <1>6 DEF DeliveriesInv, Reading, Due, NoRow
    <2>2. notes'[d[1]] # Nobody
      BY <1>1, <2>1 DEF Sound
    <2>3. \A u \in Threads \ {t} : Holds(u, d)' => Holds(u, d) /\ d \in raced'
      BY <1>1, <1>3, <1>6 DEF Holds, Held
    <2>4. \A u, v \in Threads : Holds(u, d)' /\ Holds(v, d)' => u = v \/ d \in raced'
      BY <2>3
    <2>5. \A u \in Threads : Holds(u, d)' => rows'[d] = call'[u].read[d] \/ d \in raced'
      BY <1>1, <1>3, <2>1, <2>3
    <2>6. mails'[d] > 0 => \/ d \in raced' \union unrecorded'
                           \/ mails'[d] = 1 /\ \E u \in Threads : Took(u, d)'
      <3>1. \A u \in Threads : Took(u, d) => Took(u, d)'
        BY <1>3, <1>4 DEF Took, Holds
      <3> QED BY <1>1, <2>1, <3>1 DEF Sound
    <2> QED BY <2>2, <2>4, <2>5, <2>6 DEF Sound
  <1> QED BY <1>5, <1>6 DEF DeliveriesInv

LEMMA SoundTry ==
  ASSUME TypeInv, DeliveriesInv, NEW t \in Threads, NEW d \in Deliveries, Send(t, d) \/ Postpone(t, d)
  PROVE  DeliveriesInv'
  <1>1. TypeOK /\ Turn(t, d) /\ UNCHANGED <<rows, notes, raced>> /\ unrecorded \subseteq unrecorded'
    BY DEF TypeInv, Send, Postpone
  <1>2. PICK status \in {"delivered", "failed", "pending"} :
            /\ call' = Tried(t, d, status)
            /\ \/ mails' = mails /\ status # "delivered"
               \/ mails' = Mailed(d) /\ d[2] = "email" /\ (status = "delivered" \/ d \in unrecorded')
    BY DEF Send, Postpone
  <1>3. PICK c \in Call : /\ call' = [call EXCEPT ![t] = c] /\ c.read = call[t].read
                          /\ \A e \in Deliveries : e # d => c.new[e] = call[t].new[e]
                          /\ c.new[d].status = status
    BY <1>1, <1>2, TriedCall
  <1>4. \A u \in Threads : call'[u] = IF u = t THEN c ELSE call[u]
    BY <1>1, <1>3 DEF TypeOK
  <1>5. \A e \in Deliveries : e # d => mails'[e] = mails[e]
    BY <1>1, <1>2 DEF Mailed, TypeOK
  <1>6. ASSUME NEW e \in Deliveries, e # d PROVE Sound(e)'
    <2>1. \A u \in Threads : call'[u].read[e] = call[u].read[e] /\ call'[u].new[e] = call[u].new[e]
      BY <1>3, <1>4, <1>6
    <2> QED BY <1>1, <1>5, <1>6, <2>1, SoundKept DEF DeliveriesInv
  <1>7. Sound(d)'
    <2>1. Sound(d) /\ Holds(t, d) /\ call[t].new[d].tries = call[t].read[d].tries
      BY <1>1 DEF DeliveriesInv, Turn, Todo, Held, Holds
    <2>2. ~Took(t, d) /\ call[t].read[d].status \in {"pending", "failed"}
      BY <2>1, HeldFacts DEF Took
    <2>3. \A u \in Threads : (Holds(u, d)' <=> Holds(u, d)) /\ call'[u].read[d] = call[u].read[d]
      BY <1>3, <1>4 DEF Holds
    <2>4. /\ rows'[d] # NoRow \/ (\E u \in Threads : Holds(u, d)') => notes'[d[1]] # Nobody
          /\ \A u, v \in Threads : Holds(u, d)' /\ Holds(v, d)' => u = v \/ d \in raced'
      BY <1>1, <2>1, <2>3 DEF Sound
    <2>5. \A u \in Threads : Holds(u, d)' => rows'[d] = call'[u].read[d] \/ d \in raced'
      BY <1>1, <2>1, <2>3 DEF Sound
    <2>6. \A u \in Threads : Took(u, d) => u # t /\ Took(u, d)'
      BY <1>4, <2>2 DEF Took, Holds
    <2>7. mails[d] > 0 => d \in raced \union unrecorded
      BY <2>1, <2>2 DEF Sound, Took
    <2>8. mails'[d] > 0 => \/ d \in raced' \union unrecorded'
                           \/ mails'[d] = 1 /\ \E u \in Threads : Took(u, d)'
      <3>1. CASE mails' = mails
        BY <1>1, <2>7, <3>1
      <3>2. CASE mails' = Mailed(d) /\ d \in unrecorded'
        BY <3>2
      <3>3. CASE mails' = Mailed(d) /\ d[2] = "email" /\ status = "delivered"
        <4>1. Took(t, d)'
          BY <1>3, <1>4, <2>1, <3>3 DEF Took, Holds
        <4>2. mails[d] \in 0 .. 2 /\ mails'[d] = IF mails[d] < 2 THEN mails[d] + 1 ELSE mails[d]
          BY <1>1, <3>3 DEF Mailed, TypeOK
        <4>3. mails[d] = 0 => mails'[d] = 1
          BY <4>2
        <4>4. mails[d] = 0 \/ mails[d] > 0
          BY <4>2
        <4> QED BY <1>1, <2>7, <4>1, <4>3, <4>4
      <3> QED BY <1>2, <3>1, <3>2, <3>3
    <2> QED BY <2>4, <2>5, <2>8 DEF Sound
  <1> QED BY <1>6, <1>7 DEF DeliveriesInv

LEMMA SoundCommit ==
  ASSUME TypeInv, DeliveriesInv, NEW t \in Threads, Commit(t)
  PROVE  DeliveriesInv'
  <1>1. UNCHANGED <<notes, mails, raced, unrecorded>> /\ call' = [call EXCEPT ![t] = Idle]
    BY DEF Commit
  <1>2. \A u \in Threads : call'[u] = IF u = t THEN Idle ELSE call[u]
    BY <1>1 DEF TypeInv, TypeOK
  <1>3. \A d \in Deliveries : Idle.read[d].status = "absent"
    BY DEF Idle, NoRows, NoRow
  <1>4. \A d \in Deliveries : rows'[d] = IF Holds(t, d) THEN Written(rows[d], call[t].read[d], call[t].new[d])
                                         ELSE rows[d]
    BY DEF Commit, Held, Holds
  <1>5. ASSUME NEW d \in Deliveries, ~Holds(t, d) PROVE Sound(d)'
    <2>1. rows'[d] = rows[d] /\ Sound(d) /\ ~Took(t, d)
      BY <1>4, <1>5 DEF DeliveriesInv, Took
    <2> QED BY <1>1, <1>2, <1>3, <2>1, SoundKept
  <1>6. ASSUME NEW d \in Deliveries, Holds(t, d) PROVE Sound(d)'
    <2>1. Sound(d) /\ notes'[d[1]] # Nobody
      BY <1>1, <1>6 DEF DeliveriesInv, Sound
    <2>2. \A u \in Threads : Holds(u, d)' => u # t /\ Holds(u, d) /\ d \in raced'
      BY <1>1, <1>2, <1>3, <1>6, <2>1 DEF Holds, Sound
    <2>3. d \notin raced => rows[d] = call[t].read[d] /\ \A u \in Threads : Took(u, d) => u = t
      BY <1>6, <2>1 DEF Sound, Took
    <2>4. call[t].read[d].status \in {"pending", "failed"}
      BY <1>6, HeldFacts
    <2>5. Took(t, d) => rows'[d].status = "delivered"
      <3>1. rows'[d] = Written(rows[d], call[t].read[d], call[t].new[d])
        BY <1>4, <1>6
      <3>2. Took(t, d) => call[t].new[d].status = "delivered"
        BY DEF Took
      <3> QED BY <2>4, <3>1, <3>2 DEF Written
    <2>6. mails'[d] > 0 => \/ d \in raced' \union unrecorded'
                           \/ mails'[d] = 1 /\ rows'[d].status = "delivered"
      BY <1>1, <2>1, <2>3, <2>4, <2>5 DEF Sound
    <2> QED BY <2>1, <2>2, <2>6 DEF Sound
  <1> QED BY <1>5, <1>6 DEF DeliveriesInv

LEMMA SoundStep == TypeInv /\ DeliveriesInv /\ [Next]_vars => DeliveriesInv'
  <1> SUFFICES ASSUME TypeInv, DeliveriesInv, [Next]_vars PROVE DeliveriesInv'
    OBVIOUS
  <1>1. CASE UNCHANGED <<call, rows, notes, mails, raced, unrecorded>>
    <2>1. ASSUME NEW d \in Deliveries PROVE Sound(d)'
      BY <1>1, SoundKept DEF DeliveriesInv
    <2> QED BY <2>1 DEF DeliveriesInv
  <1>2. CASE UNCHANGED vars \/ Restart \/ BrokerRestart
    BY <1>1, <1>2 DEF vars, Restart, BrokerRestart
  <1>3. ASSUME NEW r \in Requests,
               (\E wish \in Wishes : Publish(r, wish)) \/ PostFails(r) \/ TimesOut(r)
        PROVE  DeliveriesInv'
    BY <1>1, <1>3 DEF Publish, PostFails, TimesOut
  <1>4. ASSUME NEW r \in Requests, (\E h \in Handlers : Post(r, h)) \/ Take(r) PROVE DeliveriesInv'
    <2>1. Consumer \in Threads /\ Handlers \subseteq Threads
      BY DEF Threads
    <2> QED BY <1>4, <2>1, SoundBegin
  <1>5. CASE Crash
    <2>1. UNCHANGED <<rows, notes, mails, raced>> /\ unrecorded \subseteq unrecorded'
          /\ \A t \in Threads : call'[t] = Idle /\ Taken(t) \subseteq unrecorded'
      BY <1>5 DEF Crash
    <2>2. ASSUME NEW d \in Deliveries PROVE Sound(d)'
      <3>1. Idle.read[d].status = "absent"
        BY DEF Idle, NoRows, NoRow
      <3>2. \A t \in Threads : Took(t, d) => d \in unrecorded'
        BY <2>1 DEF Took, Holds, Taken, Held
      <3> QED BY <2>1, <3>1, <3>2, SoundKept DEF DeliveriesInv
    <2> QED BY <2>2 DEF DeliveriesInv
  <1>6. ASSUME NEW t \in Threads,
               \/ Create(t) \/ Skip(t) \/ CreateFails(t)
               \/ Select(t) \/ NothingDue(t) \/ Commit(t) \/ PassFails(t)
               \/ \E d \in Deliveries : Send(t, d) \/ Postpone(t, d)
        PROVE  DeliveriesInv'
    BY <1>6, SoundCreate, SoundEnding, SoundSelect, SoundTry, SoundCommit
  <1> QED BY <1>2, <1>3, <1>4, <1>5, <1>6 DEF Next

LEMMA SoundInit == Init => DeliveriesInv
  <1> SUFFICES ASSUME Init PROVE DeliveriesInv
    OBVIOUS
  <1>1. \A d \in Deliveries : rows[d] = NoRow /\ mails[d] = 0 /\ \A t \in Threads : ~Holds(t, d)
    BY DEF Init, NoRows, Holds, Idle, NoRow
  <1> QED BY <1>1 DEF DeliveriesInv, Sound, Took

(* The same e-mail goes out twice only through overlapping passes, or      *)
(* because a crash, a failed commit or a lost answer kept its first        *)
(* delivery off the record (retry_pending).                                *)
THEOREM MailsAreExplained == Spec => []DuplicateMailExplained
  <1>1. TypeInv /\ DeliveriesInv => DuplicateMailExplained
    <2> SUFFICES ASSUME TypeInv, DeliveriesInv, NEW d \in Deliveries, mails[d] > 1
                 PROVE  d \in raced \union unrecorded
      BY DEF DuplicateMailExplained
    <2>1. mails[d] \in 0 .. 2
      BY DEF TypeInv, TypeOK
    <2>2. mails[d] > 0 /\ mails[d] # 1
      BY <2>1
    <2> QED BY <2>2 DEF DeliveriesInv, Sound
  <1> QED BY <1>1, TypeInit, TypeStep, SoundInit, SoundStep, PTL DEF Spec

LEMMA KeptStep ==
  ASSUME TypeInv, DeliveriesInv, [Next]_vars, NEW d \in Deliveries, d \notin raced
  PROVE  /\ rows[d].status = "delivered" => rows'[d].status = "delivered"
         /\ rows[d].tries <= rows'[d].tries
  <1>1. rows[d].tries \in Nat /\ rows[d].tries <= rows[d].tries
    BY NotificationsAssumption DEF TypeInv, TypeOK, Row
  <1>2. CASE rows' = rows
    BY <1>1, <1>2
  <1>3. ASSUME NEW t \in Threads, Create(t)
        PROVE  /\ rows[d].status = "delivered" => rows'[d].status = "delivered"
               /\ rows[d].tries <= rows'[d].tries
    <2>1. \/ rows'[d] = rows[d]
          \/ notes[d[1]] = Nobody /\ rows'[d] = [status |-> "pending", tries |-> 0]
      BY <1>3 DEF Create
    <2>2. notes[d[1]] = Nobody => rows[d] = [status |-> "absent", tries |-> 0]
      BY DEF DeliveriesInv, Sound, NoRow
    <2> QED BY <1>1, <2>1, <2>2
  <1>4. ASSUME NEW t \in Threads, Commit(t)
        PROVE  /\ rows[d].status = "delivered" => rows'[d].status = "delivered"
               /\ rows[d].tries <= rows'[d].tries
    <2>1. CASE ~Holds(t, d)
      BY <1>1, <1>4, <2>1 DEF Commit, Held, Holds
    <2>2. CASE Holds(t, d)
      <3>1. rows[d] = call[t].read[d]
        BY <2>2 DEF DeliveriesInv, Sound
      <3>2. rows'[d].tries = call[t].new[d].tries
        BY <1>4, <2>2 DEF Commit, Held, Holds, Written
      <3>3. call[t].read[d].status # "delivered" /\ call[t].read[d].tries <= call[t].new[d].tries
        BY <2>2, HeldFacts
      <3> QED BY <3>1, <3>2, <3>3
    <2> QED BY <2>1, <2>2
  <1>5. CASE ~(\E t \in Threads : Create(t) \/ Commit(t))
    BY <1>2, <1>5 DEF Next, vars, Publish, Post, PostFails, TimesOut, Take, Skip, CreateFails, Select,
       NothingDue, PassFails, Send, Postpone, Crash, Restart, BrokerRestart
  <1> QED BY <1>3, <1>4, <1>5

(* A delivery that has been made stays made, and no attempt is forgotten,  *)
(* as long as no two passes held it at once (retry_pending).               *)
THEOREM DeliveriesStay == Spec => DeliveryKept
  <1>1. TypeInv /\ DeliveriesInv /\ [Next]_vars =>
            [\A d \in Deliveries \ raced :
                /\ rows[d].status = "delivered" => rows'[d].status = "delivered"
                /\ rows[d].tries <= rows'[d].tries]_vars
    BY KeptStep
  <1> QED BY <1>1, TypeInit, TypeStep, SoundInit, SoundStep, PTL DEF Spec, DeliveryKept

-----------------------------------------------------------------------------
(* Copies.  A request's notifications, the calls about to make one, its    *)
(* message in the queue and the attempts its publisher has left are never  *)
(* more than three together; and as long as the publisher knows of each    *)
(* attempt how it went, not more than one.                                 *)

Creators(r) == {t \in Threads : call[t].stage = "create" /\ call[t].req = r}

Queued(r) == IF r \in queue THEN 1 ELSE 0

Count(r) == Cardinality(Made(r)) + Cardinality(Creators(r)) + Queued(r)

Left(p) == IF p.stage = "idle" THEN 3
           ELSE IF p.stage = "post" THEN 3 - p.attempt
           ELSE IF p.stage = "wait" THEN 2 - p.attempt ELSE 0

Fresh(p) == IF p.stage \in {"idle", "post"} THEN 1 ELSE 0

Budget(r) == /\ Count(r) + Left(pub[r]) <= 3
             /\ r \in unanswered \/ Count(r) + Fresh(pub[r]) <= 1

(* A handler that is waited for has not forgotten what for.                *)
Awaited(r) ==
    pub[r].stage = "wait" => /\ pub[r].by \in Threads /\ call[pub[r].by].stage # "idle"
                             /\ call[pub[r].by].stage = "create" => call[pub[r].by].req = r

CopiesInv == \A r \in Requests : Budget(r) /\ Awaited(r)

LEMMA Weights ==
  ASSUME NEW p \in Publisher
  PROVE  /\ Left(p) \in 0 .. 3 /\ Fresh(p) \in 0 .. 1 /\ Left(Done) = 0 /\ Fresh(Done) = 0
         /\ p.stage \in {"post", "wait"} => Left(NextAttempt(p)) <= Left(p)
         /\ p.stage = "post" => Fresh(NextAttempt(p)) <= Fresh(p)
         /\ Fresh(NextAttempt(p)) \in 0 .. 1
  BY DEF Publisher, Left, Fresh, NextAttempt, Done

LEMMA CountTypes ==
  ASSUME NEW r \in Requests
  PROVE  /\ IsFiniteSet(Made(r)) /\ IsFiniteSet(Creators(r))
         /\ Cardinality(Made(r)) \in Nat /\ Cardinality(Creators(r)) \in Nat
         /\ Queued(r) \in 0 .. 1 /\ Count(r) \in Nat
  <1>1. IsFiniteSet(Notes)
    BY NotificationsAssumption, FS_Interval DEF Notes
  <1>2. IsFiniteSet(Threads)
    <2>1. IsFiniteSet(Handlers \union {Loop})
      BY NotificationsAssumption, FS_AddElement
    <2>2. Threads = (Handlers \union {Loop}) \union {Consumer}
      BY DEF Threads
    <2> QED BY <2>1, <2>2, FS_AddElement
  <1>3. IsFiniteSet(Made(r)) /\ IsFiniteSet(Creators(r))
    BY <1>1, <1>2, FS_Subset DEF Made, Creators
  <1>4. Queued(r) \in 0 .. 1
    BY DEF Queued
  <1> QED BY <1>3, <1>4, FS_CardinalityType DEF Count

(* Nothing is added.                                                       *)
LEMMA CountKept ==
  ASSUME NEW r \in Requests, Made(r)' \subseteq Made(r), Creators(r)' \subseteq Creators(r),
         r \in queue' => r \in queue
  PROVE  Count(r)' \in Nat /\ Count(r)' <= Count(r)
  <1>1. PICK made, creators : made = Made(r)' /\ creators = Creators(r)'
    OBVIOUS
  <1>2. /\ IsFiniteSet(made) /\ Cardinality(made) \in Nat /\ Cardinality(made) <= Cardinality(Made(r))
        /\ IsFiniteSet(creators) /\ Cardinality(creators) \in Nat
        /\ Cardinality(creators) <= Cardinality(Creators(r))
    BY <1>1, CountTypes, FS_Subset, FS_CardinalityType
  <1>3. Count(r)' = Cardinality(made) + Cardinality(creators) + Queued(r)'
    BY <1>1 DEF Count
  <1>4. Queued(r)' \in 0 .. 1 /\ Queued(r)' <= Queued(r)
    BY DEF Queued
  <1> QED BY <1>2, <1>3, <1>4, CountTypes DEF Count

(* One call more                                                           *)
LEMMA CountCall ==
  ASSUME NEW r \in Requests, NEW t \in Threads, Made(r)' = Made(r),
         Creators(r)' \subseteq Creators(r) \union {t}
  PROVE  /\ Count(r)' \in Nat
         /\ queue' = queue => Count(r)' <= Count(r) + 1
         /\ r \in queue /\ r \notin queue' => Count(r)' <= Count(r)
  <1>1. PICK made, creators : made = Made(r)' /\ creators = Creators(r)'
    OBVIOUS
  <1>2. PICK more : more = Creators(r) \union {t}
    OBVIOUS
  <1>3. IsFiniteSet(more) /\ Cardinality(more) \in Nat /\ Cardinality(more) <= Cardinality(Creators(r)) + 1
    <2>1. IsFiniteSet(Creators(r)) /\ Cardinality(Creators(r)) \in Nat
      BY CountTypes
    <2>2. /\ IsFiniteSet(more)
          /\ Cardinality(more) = IF t \in Creators(r) THEN Cardinality(Creators(r))
                                 ELSE Cardinality(Creators(r)) + 1
      BY <1>2, <2>1, FS_AddElement
    <2> QED BY <2>1, <2>2
  <1>4. IsFiniteSet(creators) /\ Cardinality(creators) \in Nat /\ Cardinality(creators) <= Cardinality(more)
    BY <1>1, <1>2, <1>3, FS_Subset, FS_CardinalityType
  <1>5. Count(r)' = Cardinality(made) + Cardinality(creators) + Queued(r)'
    BY <1>1 DEF Count
  <1>6. made = Made(r) /\ Queued(r)' \in 0 .. 1 /\ (queue' = queue => Queued(r)' = Queued(r))
        /\ (r \in queue /\ r \notin queue' => Queued(r) = 1 /\ Queued(r)' = 0)
    BY <1>1 DEF Queued
  <1> QED BY <1>3, <1>4, <1>5, <1>6, CountTypes DEF Count

(* A call's notification is made.                                          *)
LEMMA CountMade ==
  ASSUME NEW r \in Requests, NEW t \in Creators(r), NEW n, Made(r)' \subseteq Made(r) \union {n},
         Creators(r)' = Creators(r) \ {t}, queue' = queue
  PROVE  Count(r)' \in Nat /\ Count(r)' <= Count(r)
  <1>1. PICK made, creators : made = Made(r)' /\ creators = Creators(r)'
    OBVIOUS
  <1>2. PICK more : more = Made(r) \union {n}
    OBVIOUS
  <1>3. IsFiniteSet(more) /\ Cardinality(more) \in Nat /\ Cardinality(more) <= Cardinality(Made(r)) + 1
    BY <1>2, CountTypes, FS_AddElement
  <1>4. Cardinality(made) \in Nat /\ Cardinality(made) <= Cardinality(more)
    BY <1>1, <1>2, <1>3, FS_Subset, FS_CardinalityType
  <1>5. Cardinality(creators) = Cardinality(Creators(r)) - 1 /\ Cardinality(creators) \in Nat
    BY <1>1, CountTypes, FS_RemoveElement, FS_CardinalityType
  <1>6. Count(r)' = Cardinality(made) + Cardinality(creators) + Queued(r)'
    BY <1>1 DEF Count
  <1>7. Queued(r)' = Queued(r)
    BY DEF Queued
  <1> QED BY <1>3, <1>4, <1>5, <1>6, <1>7, CountTypes DEF Count

(* A message more                                                          *)
LEMMA CountQueued ==
  ASSUME NEW r \in Requests, Made(r)' = Made(r), Creators(r)' = Creators(r)
  PROVE  Count(r)' \in Nat /\ Count(r)' <= Count(r) + 1
  <1>1. PICK made, creators : made = Made(r)' /\ creators = Creators(r)'
    OBVIOUS
  <1>2. made = Made(r) /\ creators = Creators(r)
    BY <1>1
  <1>3. Count(r)' = Cardinality(made) + Cardinality(creators) + Queued(r)'
    BY <1>1 DEF Count
  <1>4. Queued(r)' \in 0 .. 1
    BY DEF Queued
  <1> QED BY <1>2, <1>3, <1>4, CountTypes DEF Count

(* A call gives up.                                                        *)
LEMMA CountLost ==
  ASSUME NEW r \in Requests, NEW t \in Creators(r), Made(r)' = Made(r),
         Creators(r)' = Creators(r) \ {t}, queue' = queue
  PROVE  Count(r)' \in Nat /\ Count(r)' + 1 <= Count(r)
  <1>1. PICK made, creators : made = Made(r)' /\ creators = Creators(r)'
    OBVIOUS
  <1>2. made = Made(r) /\ Queued(r)' = Queued(r)
    BY <1>1 DEF Queued
  <1>3. Cardinality(creators) = Cardinality(Creators(r)) - 1 /\ Cardinality(creators) \in Nat
    BY <1>1, CountTypes, FS_RemoveElement, FS_CardinalityType
  <1>4. Count(r)' = Cardinality(made) + Cardinality(creators) + Queued(r)'
    BY <1>1 DEF Count
  <1> QED BY <1>2, <1>3, <1>4, CountTypes DEF Count

LEMMA BudgetKept ==
  ASSUME NEW r \in Requests, Budget(r), pub[r] \in Publisher, pub'[r] \in Publisher,
         unanswered \subseteq unanswered', Count(r)' \in Nat,
         \/ /\ Count(r)' <= Count(r) /\ Left(pub'[r]) <= Left(pub[r])
            /\ r \in unanswered' \/ Fresh(pub'[r]) <= Fresh(pub[r])
         \/ /\ Count(r)' <= Count(r) + 1 /\ Left(pub'[r]) + 1 <= Left(pub[r])
            /\ r \in unanswered' \/ Fresh(pub'[r]) + 1 <= Fresh(pub[r])
         \/ /\ Count(r)' + 1 <= Count(r) /\ Left(pub'[r]) <= Left(pub[r])
            /\ Fresh(pub'[r]) <= Fresh(pub[r]) + 1
  PROVE  Budget(r)'
  <1>1. PICK count \in Nat : count = Count(r)'
    OBVIOUS
  <1>2. PICK was \in Nat : was = Count(r)
    BY CountTypes
  <1>3. /\ Left(pub[r]) \in 0 .. 3 /\ Left(pub'[r]) \in 0 .. 3
        /\ Fresh(pub[r]) \in 0 .. 1 /\ Fresh(pub'[r]) \in 0 .. 1
    BY Weights
  <1>4. was + Left(pub[r]) <= 3 /\ (r \in unanswered \/ was + Fresh(pub[r]) <= 1)
    BY <1>2 DEF Budget
  <1>5. count + Left(pub'[r]) <= 3
    BY <1>1, <1>2, <1>3, <1>4
  <1>6. r \in unanswered' \/ count + Fresh(pub'[r]) <= 1
    BY <1>1, <1>2, <1>3, <1>4
  <1>7. Left(pub[r])' = Left(pub'[r]) /\ Fresh(pub[r])' = Fresh(pub'[r])
    BY DEF Left, Fresh
  <1> QED BY <1>1, <1>5, <1>6, <1>7 DEF Budget

(* A call goes on or ends, and tells who waits for it.                     *)
LEMMA CopiesCall ==
  ASSUME TypeInv, CopiesInv, NEW t \in Threads, NEW c, call' = [call EXCEPT ![t] = c],
         c.stage # "create", unanswered \subseteq unanswered',
         \A r \in Requests : Count(r)' \in Nat /\ Count(r)' <= Count(r),
         \A r \in Requests \ Waiting(t) : pub'[r] = pub[r],
         \A r \in Waiting(t) :
             \/ c.stage # "idle" /\ pub'[r] = pub[r]
             \/ pub'[r] = Done
             \/ pub'[r] = NextAttempt(pub[r]) /\ (r \in unanswered' \/ Count(r)' + 1 <= Count(r))
  PROVE  CopiesInv'
  <1>1. \A u \in Threads : call'[u] = IF u = t THEN c ELSE call[u]
    BY DEF TypeInv, TypeOK
  <1>2. ASSUME NEW r \in Requests PROVE Budget(r)' /\ Awaited(r)'
    <2>1. Budget(r) /\ Awaited(r) /\ pub[r] \in Publisher /\ Count(r)' \in Nat /\ Count(r)' <= Count(r)
      BY DEF CopiesInv, TypeInv, TypeOK
    <2>2. /\ Done \in Publisher /\ NextAttempt(pub[r]) \in Publisher /\ Done.stage = "done"
          /\ NextAttempt(pub[r]).stage \in {"post", "done"}
      BY <2>1, PubTypes DEF Done
    <2>3. /\ Left(pub[r]) \in 0 .. 3 /\ Fresh(pub[r]) \in 0 .. 1 /\ Left(Done) = 0 /\ Fresh(Done) = 0
          /\ pub[r].stage = "wait" => Left(NextAttempt(pub[r])) <= Left(pub[r])
          /\ Fresh(NextAttempt(pub[r])) \in 0 .. 1
      BY <2>1, Weights
    <2>4. CASE pub'[r] = pub[r] /\ (r \in Waiting(t) => c.stage # "idle")
      <3>1. Left(pub'[r]) <= Left(pub[r]) /\ Fresh(pub'[r]) <= Fresh(pub[r])
        BY <2>3, <2>4
      <3>2. Budget(r)'
        BY <2>1, <2>4, <3>1, BudgetKept
      <3>3. Awaited(r)'
        BY <1>1, <2>1, <2>4 DEF Awaited, Waiting
      <3> QED BY <3>2, <3>3
    <2>5. CASE pub'[r] = Done
      <3>1. Left(pub'[r]) <= Left(pub[r]) /\ Fresh(pub'[r]) <= Fresh(pub[r])
        BY <2>3, <2>5
      <3>2. Budget(r)'
        BY <2>1, <2>2, <2>5, <3>1, BudgetKept
      <3> QED BY <2>2, <2>5, <3>2 DEF Awaited
    <2>6. CASE /\ r \in Waiting(t) /\ pub'[r] = NextAttempt(pub[r])
               /\ r \in unanswered' \/ Count(r)' + 1 <= Count(r)
      <3>1. Left(pub'[r]) <= Left(pub[r]) /\ Fresh(pub'[r]) <= Fresh(pub[r]) + 1
        BY <2>3, <2>6 DEF Waiting
      <3>2. Budget(r)'
        BY <2>1, <2>2, <2>6, <3>1, BudgetKept
      <3> QED BY <2>2, <2>6, <3>2 DEF Awaited
    <2>7. r \notin Waiting(t) => pub'[r] = pub[r]
      OBVIOUS
    <2> QED BY <2>4, <2>5, <2>6, <2>7
  <1> QED BY <1>2 DEF CopiesInv

LEMMA CopiesPublisher ==
  ASSUME TypeInv, TypeInv', CopiesInv, NEW q \in Requests,
         \/ \E wish \in Wishes : Publish(q, wish)
         \/ PostFails(q) \/ TimesOut(q)
  PROVE  CopiesInv'
  <1>1. /\ UNCHANGED <<call, notes>> /\ unanswered \subseteq unanswered'
        /\ \A r \in Requests : r # q => pub'[r] = pub[r]
        /\ \A r \in Requests : r # q => (r \in queue' => r \in queue)
    BY DEF Publish, PostFails, TimesOut, Arrives, TypeInv, TypeOK
  <1>2. \A r \in Requests : Made(r)' = Made(r) /\ Creators(r)' = Creators(r)
    BY <1>1 DEF Made, Creators
  <1>3. \A r \in Requests : pub[r] \in Publisher /\ pub'[r] \in Publisher /\ Budget(r) /\ Awaited(r)
    BY DEF CopiesInv, TypeInv, TypeOK
  <1>4. ASSUME NEW r \in Requests, r # q PROVE Budget(r)' /\ Awaited(r)'
    <2>1. Count(r)' \in Nat /\ Count(r)' <= Count(r)
      BY <1>1, <1>2, <1>4, CountKept
    <2>2. Left(pub'[r]) <= Left(pub[r]) /\ Fresh(pub'[r]) <= Fresh(pub[r])
      BY <1>1, <1>3, <1>4, Weights
    <2>3. Budget(r)'
      BY <1>1, <1>3, <2>1, <2>2, BudgetKept
    <2> QED BY <1>1, <1>3, <1>4, <2>3 DEF Awaited
  <1>5. Count(q)' \in Nat /\ Count(q)' <= Count(q) + 1
    BY <1>2, CountQueued
  <1>6. queue' = queue => Count(q)' <= Count(q)
    BY <1>2, CountKept
  <1>7. Awaited(q)'
    <2>1. pub'[q].stage # "wait"
      <3>1. \/ pub' = [pub EXCEPT ![q] = Done]
            \/ pub' = [pub EXCEPT ![q].stage = "post"]
            \/ pub' = [pub EXCEPT ![q] = NextAttempt(pub[q])]
        BY DEF Publish, PostFails, TimesOut
      <3> QED BY <1>3, <3>1, PubTypes DEF Done, TypeInv, TypeOK, Publisher
    <2> QED BY <2>1 DEF Awaited
  <1>8. CASE PostFails(q) \/ TimesOut(q)
    <2>1. pub'[q] = NextAttempt(pub[q]) /\ queue' = queue
      BY <1>8 DEF PostFails, TimesOut, TypeInv, TypeOK
    <2>2. Left(pub'[q]) <= Left(pub[q])
      BY <1>3, <1>8, <2>1, Weights DEF PostFails, TimesOut
    <2>3. q \in unanswered' \/ Fresh(pub'[q]) <= Fresh(pub[q])
      BY <1>3, <1>8, <2>1, Weights DEF PostFails, TimesOut
    <2>4. Budget(q)'
      BY <1>1, <1>3, <1>5, <1>6, <2>1, <2>2, <2>3, BudgetKept
    <2> QED BY <1>4, <1>7, <2>4 DEF CopiesInv
  <1>9. CASE \E wish \in Wishes : Publish(q, wish)
    <2>1. /\ pub[q].stage = "idle"
          /\ \/ pub' = [pub EXCEPT ![q] = Done]
             \/ pub' = [pub EXCEPT ![q].stage = "post"] /\ (queue' = queue \/ q \in unanswered')
      BY <1>9 DEF Publish
    <2>2. Left(pub[q]) = 3 /\ Fresh(pub[q]) = 1
      BY <2>1 DEF Left, Fresh
    <2>3. CASE pub' = [pub EXCEPT ![q] = Done]
      <3>1. pub'[q] = Done
        BY <2>3 DEF TypeInv, TypeOK
      <3>2. Left(pub'[q]) = 0 /\ Fresh(pub'[q]) = 0
        BY <1>3, <3>1, Weights
      <3>3. Budget(q)'
        BY <1>1, <1>3, <1>5, <2>2, <3>2, BudgetKept
      <3> QED BY <1>4, <1>7, <3>3 DEF CopiesInv
    <2>4. CASE pub' = [pub EXCEPT ![q].stage = "post"] /\ (queue' = queue \/ q \in unanswered')
      <3>1. pub'[q].stage = "post" /\ pub'[q].attempt \in {1, 2}
        BY <1>3, <2>4 DEF TypeInv, TypeOK, Publisher
      <3>2. Left(pub'[q]) \in {1, 2} /\ Fresh(pub'[q]) = 1
        BY <3>1 DEF Left, Fresh
      <3>3. CASE queue' = queue
        <4>1. Budget(q)'
          BY <1>1, <1>3, <1>5, <1>6, <2>2, <3>2, <3>3, BudgetKept
        <4> QED BY <1>4, <1>7, <4>1 DEF CopiesInv
      <3>4. CASE q \in unanswered'
        <4>1. Left(pub'[q]) + 1 <= Left(pub[q])
          BY <2>2, <3>2
        <4>2. Budget(q)'
          BY <1>1, <1>3, <1>5, <3>4, <4>1, BudgetKept
        <4> QED BY <1>4, <1>7, <4>2 DEF CopiesInv
      <3> QED BY <2>4, <3>3, <3>4
    <2> QED BY <1>4, <1>7, <2>1, <2>3, <2>4 DEF CopiesInv
  <1> QED BY <1>8, <1>9

(* A thread takes up a request.                                            *)
LEMMA CopiesBegin ==
  ASSUME TypeInv, TypeInv', CopiesInv, NEW q \in Requests, NEW t \in Threads,
         \/ t \in Handlers /\ Post(q, t)
         \/ t = Consumer /\ Take(q)
  PROVE  CopiesInv'
  <1>1. call[t].stage = "idle" /\ unanswered' = unanswered /\ notes' = notes
    BY DEF Post, Take, Ready, Idle
  <1>2. /\ call'[t].stage = "create" /\ call'[t].req = q
        /\ \A u \in Threads : u # t => call'[u] = call[u]
    <2>1. call' = [call EXCEPT ![t].stage = "create", ![t].req = q]
      BY DEF Post, Take
    <2>2. call[t] \in Call
      BY DEF TypeInv, TypeOK
    <2> QED BY <2>1, <2>2 DEF TypeInv, TypeOK, Call
  <1>3. \A r \in Requests : pub[r] \in Publisher /\ pub'[r] \in Publisher /\ Budget(r) /\ Awaited(r)
    BY DEF CopiesInv, TypeInv, TypeOK
  <1>4. \A r \in Requests : pub[r].stage = "wait" => pub[r].by # t
    BY <1>1, <1>3 DEF Awaited
  <1>5. \A r \in Requests : r # q => pub'[r] = pub[r] /\ (r \in queue' => r \in queue)
    BY DEF Post, Take, TypeInv, TypeOK
  <1>6. \A r \in Requests : Made(r)' = Made(r)
    BY <1>1 DEF Made
  <1>7. ASSUME NEW r \in Requests, r # q PROVE Budget(r)' /\ Awaited(r)'
    <2>1. Creators(r)' \subseteq Creators(r)
      BY <1>2, <1>7 DEF Creators
    <2>2. Count(r)' \in Nat /\ Count(r)' <= Count(r)
      BY <1>5, <1>6, <1>7, <2>1, CountKept
    <2>3. Left(pub'[r]) <= Left(pub[r]) /\ Fresh(pub'[r]) <= Fresh(pub[r])
      BY <1>3, <1>5, <1>7, Weights
    <2>4. Budget(r)'
      BY <1>1, <1>3, <2>2, <2>3, BudgetKept
    <2> QED BY <1>2, <1>3, <1>4, <1>5, <1>7, <2>4 DEF Awaited
  <1>8. Creators(q)' \subseteq Creators(q) \union {t}
    BY <1>2 DEF Creators
  <1>9. CASE t \in Handlers /\ Post(q, t)
    <2>1. pub[q].stage = "post" /\ pub' = [pub EXCEPT ![q].stage = "wait", ![q].by = t] /\ queue' = queue
      BY <1>9 DEF Post
    <2>2. pub'[q].stage = "wait" /\ pub'[q].by = t /\ pub'[q].attempt = pub[q].attempt
      BY <1>3, <2>1 DEF TypeInv, TypeOK, Publisher
    <2>3. Count(q)' \in Nat /\ Count(q)' <= Count(q) + 1
      BY <1>6, <1>8, <2>1, CountCall
    <2>4. Left(pub'[q]) + 1 <= Left(pub[q]) /\ Fresh(pub'[q]) + 1 <= Fresh(pub[q])
      <3>1. pub[q].attempt \in {1, 2}
        BY <1>3 DEF Publisher
      <3> QED BY <2>1, <2>2, <3>1 DEF Left, Fresh
    <2>5. Budget(q)'
      BY <1>1, <1>3, <2>3, <2>4, BudgetKept
    <2>6. Awaited(q)'
      BY <1>2, <2>2 DEF Awaited
    <2> QED BY <1>7, <2>5, <2>6 DEF CopiesInv
  <1>10. CASE t = Consumer /\ Take(q)
    <2>1. pub' = pub /\ q \in queue /\ q \notin queue'
      BY <1>10 DEF Take
    <2>2. Count(q)' \in Nat /\ Count(q)' <= Count(q)
      BY <1>6, <1>8, <2>1, CountCall
    <2>3. Left(pub'[q]) <= Left(pub[q]) /\ Fresh(pub'[q]) <= Fresh(pub[q])
      BY <1>3, <2>1, Weights
    <2>4. Budget(q)'
      BY <1>1, <1>3, <2>2, <2>3, BudgetKept
    <2>5. Awaited(q)'
      BY <1>2, <1>3, <1>4, <2>1 DEF Awaited
    <2> QED BY <1>7, <2>4, <2>5 DEF CopiesInv
  <1> QED BY <1>9, <1>10

(* A call that makes nothing, or has made its notification before.         *)
LEMMA CopiesOver ==
  ASSUME TypeInv, TypeInv', CopiesInv, NEW t \in Threads,
         Select(t) \/ NothingDue(t) \/ Skip(t) \/ CreateFails(t) \/ Commit(t) \/ PassFails(t)
  PROVE  CopiesInv'
  <1>1. PICK c : call' = [call EXCEPT ![t] = c] /\ c.stage # "create"
    <2>1. \/ \E c : call' = [call EXCEPT ![t] = [stage |-> "send", req |-> Nobody, read |-> c, new |-> c]]
          \/ call' = [call EXCEPT ![t] = Idle]
      BY DEF Select, NothingDue, Skip, CreateFails, Commit, PassFails
    <2>2. Idle.stage = "idle"
      BY DEF Idle
    <2> QED BY <2>1, <2>2
  <1>2. UNCHANGED <<notes, queue>> /\ unanswered \subseteq unanswered'
    BY DEF Select, NothingDue, Skip, CreateFails, Commit, PassFails
  <1>3. \A u \in Threads : call'[u] = IF u = t THEN c ELSE call[u]
    BY <1>1 DEF TypeInv, TypeOK
  <1>4. \A r \in Requests : Made(r)' = Made(r) /\ Creators(r)' = Creators(r) \ {t}
    BY <1>1, <1>2, <1>3 DEF Made, Creators
  <1>5. \A r \in Requests : Count(r)' \in Nat /\ Count(r)' <= Count(r)
    BY <1>2, <1>4, CountKept
  <1>6. \A r \in Requests \ Waiting(t) : pub'[r] = pub[r]
    BY DEF Select, NothingDue, Skip, CreateFails, Commit, PassFails, Succeeds, Fails, TypeInv, TypeOK
  <1>7. ASSUME NEW r \in Waiting(t)
        PROVE  \/ c.stage # "idle" /\ pub'[r] = pub[r]
               \/ pub'[r] = Done
               \/ pub'[r] = NextAttempt(pub[r]) /\ (r \in unanswered' \/ Count(r)' + 1 <= Count(r))
    <2>1. r \in Requests
      BY DEF Waiting
    <2>2. CASE Select(t)
      <3>1. pub' = pub /\ call'[t].stage = "send"
        BY <2>2 DEF Select, TypeInv, TypeOK
      <3> QED BY <1>3, <3>1
    <2>3. CASE NothingDue(t) \/ Skip(t) \/ Commit(t)
      BY <2>1, <2>3 DEF NothingDue, Skip, Commit, Succeeds
    <2>4. CASE PassFails(t)
      BY <2>1, <2>4 DEF PassFails, Fails
    <2>5. CASE CreateFails(t)
      <3>1. pub'[r] = NextAttempt(pub[r]) /\ call[t].stage = "create"
        BY <2>1, <2>5 DEF CreateFails, Fails
      <3>2. t \in Creators(r)
        BY <2>1, <3>1 DEF CopiesInv, Awaited, Waiting, Creators
      <3>3. Count(r)' + 1 <= Count(r)
        BY <1>2, <1>4, <2>1, <3>2, CountLost
      <3> QED BY <3>1, <3>3
    <2> QED BY <2>2, <2>3, <2>4, <2>5
  <1> QED BY <1>1, <1>2, <1>5, <1>6, <1>7, CopiesCall

(* A notification is made.                                                 *)
LEMMA CopiesCreate ==
  ASSUME TypeInv, TypeInv', CopiesInv, NEW t \in Threads, Create(t)
  PROVE  CopiesInv'
  <1>1. call[t].stage = "create" /\ queue' = queue /\ unanswered' = unanswered
    BY DEF Create
  <1>2. call[t].req \in Requests
    BY <1>1 DEF TypeInv, CallFits
  <1>3. PICK q \in Requests : q = call[t].req
    BY <1>2
  <1>4. PICK c : /\ call' = [call EXCEPT ![t] = c]
                 /\ \/ c = Idle /\ Succeeds(t)
                    \/ c.stage = "select" /\ UNCHANGED pub
    <2>1. [Idle EXCEPT !.stage = "select"].stage = "select"
      BY DEF Idle
    <2> QED BY <2>1 DEF Create
  <1>5. c.stage # "create" /\ (c.stage = "idle" => Succeeds(t)) /\ (c.stage # "idle" => UNCHANGED pub)
    BY <1>4 DEF Idle
  <1>6. PICK n \in Notes : notes' = [notes EXCEPT ![n] = q]
    BY <1>3 DEF Create
  <1>7. \A u \in Threads : call'[u] = IF u = t THEN c ELSE call[u]
    BY <1>4 DEF TypeInv, TypeOK
  <1>8. \A r \in Requests : /\ Made(r)' \subseteq Made(r) \union {n}
                            /\ r # q => Made(r)' \subseteq Made(r)
    BY <1>6 DEF Made, TypeInv, TypeOK
  <1>9. \A r \in Requests : Creators(r)' = Creators(r) \ {t}
    BY <1>5, <1>7 DEF Creators
  <1>10. t \in Creators(q)
    BY <1>1, <1>3 DEF Creators
  <1>11. ASSUME NEW r \in Requests PROVE Count(r)' \in Nat /\ Count(r)' <= Count(r)
    <2>1. CASE r = q
      BY <1>1, <1>8, <1>9, <1>10, <2>1, CountMade
    <2>2. CASE r # q
      BY <1>1, <1>8, <1>9, <2>2, CountKept
    <2> QED BY <2>1, <2>2
  <1>12. \A r \in Requests \ Waiting(t) : pub'[r] = pub[r]
    BY <1>4 DEF Succeeds
  <1>13. ASSUME NEW r \in Waiting(t) PROVE (c.stage # "idle" /\ pub'[r] = pub[r]) \/ pub'[r] = Done
    BY <1>5, Zenon DEF Succeeds, Waiting
  <1> QED BY <1>1, <1>4, <1>5, <1>11, <1>12, <1>13, CopiesCall

(* An attempt makes no notification.                                       *)
LEMMA CopiesTry ==
  ASSUME TypeInv, TypeInv', CopiesInv, NEW t \in Threads, NEW d \in Deliveries, Send(t, d) \/ Postpone(t, d)
  PROVE  CopiesInv'
  <1>1. UNCHANGED <<notes, queue, pub, unanswered>> /\ Turn(t, d)
    BY DEF Send, Postpone
  <1>2. \E status \in {"delivered", "failed", "pending"} : call' = Tried(t, d, status)
    BY DEF Send, Postpone
  <1>3. PICK c \in Call : call' = [call EXCEPT ![t] = c] /\ c.stage = "send"
    BY <1>1, <1>2, TriedCall
  <1>4. \A u \in Threads : call'[u] = IF u = t THEN c ELSE call[u]
    BY <1>3 DEF TypeInv, TypeOK
  <1>5. \A r \in Requests : Made(r)' = Made(r) /\ Creators(r)' \subseteq Creators(r)
    BY <1>1, <1>3, <1>4 DEF Made, Creators
  <1>6. \A r \in Requests : Count(r)' \in Nat /\ Count(r)' <= Count(r)
    BY <1>1, <1>5, CountKept
  <1>7. c.stage # "create" /\ c.stage # "idle" /\ unanswered \subseteq unanswered'
    BY <1>1, <1>3
  <1>8. \A r \in Requests : pub'[r] = pub[r]
    BY <1>1
  <1>9. \A r \in Waiting(t) : r \in Requests
    BY DEF Waiting
  <1> QED BY <1>3, <1>6, <1>7, <1>8, <1>9, CopiesCall

LEMMA CopiesProcess ==
  ASSUME TypeInv, TypeInv', CopiesInv, Crash \/ Restart \/ BrokerRestart
  PROVE  CopiesInv'
  <1>1. UNCHANGED notes /\ unanswered \subseteq unanswered' /\ queue' \subseteq queue
    BY DEF Crash, Restart, BrokerRestart
  <1>2. \A t \in Threads : call'[t] = call[t] \/ call'[t].stage = "idle"
    BY DEF Crash, Restart, BrokerRestart, Idle
  <1>3. \A r \in Requests : Made(r)' = Made(r) /\ Creators(r)' \subseteq Creators(r)
    BY <1>1, <1>2 DEF Made, Creators
  <1>4. ASSUME NEW r \in Requests PROVE Budget(r)' /\ Awaited(r)'
    <2>1. Budget(r) /\ Awaited(r) /\ pub[r] \in Publisher /\ pub'[r] \in Publisher
      BY DEF CopiesInv, TypeInv, TypeOK
    <2>2. Count(r)' \in Nat /\ Count(r)' <= Count(r)
      BY <1>1, <1>3, CountKept
    <2>3. CASE Crash /\ pub[r].stage = "wait"
      <3>1. pub'[r] = NextAttempt(pub[r]) /\ r \in unanswered'
        BY <2>3 DEF Crash
      <3>2. Left(pub'[r]) <= Left(pub[r])
        BY <2>1, <2>3, <3>1, Weights
      <3>3. Budget(r)'
        BY <1>1, <2>1, <2>2, <3>1, <3>2, BudgetKept
      <3>4. pub'[r].stage # "wait"
        BY <2>1, <3>1, PubTypes
      <3> QED BY <3>3, <3>4 DEF Awaited
    <2>4. CASE Restart \/ BrokerRestart \/ pub[r].stage # "wait"
      <3>1. pub'[r] = pub[r]
        BY <2>4 DEF Crash, Restart, BrokerRestart
      <3>2. Left(pub'[r]) <= Left(pub[r]) /\ Fresh(pub'[r]) <= Fresh(pub[r])
        BY <2>1, <3>1, Weights
      <3>3. Budget(r)'
        BY <1>1, <2>1, <2>2, <3>2, BudgetKept
      <3>4. Awaited(r)'
        BY <2>1, <2>4, <3>1 DEF Awaited, Restart, BrokerRestart
      <3> QED BY <3>3, <3>4
    <2> QED BY <2>3, <2>4
  <1> QED BY <1>4 DEF CopiesInv

LEMMA CopiesStep == TypeInv /\ CopiesInv /\ [Next]_vars => CopiesInv'
  <1> SUFFICES ASSUME TypeInv, CopiesInv, [Next]_vars PROVE CopiesInv'
    OBVIOUS
  <1>1. TypeInv'
    BY TypeStep
  <1>2. ASSUME NEW q \in Requests, \/ \E wish \in Wishes : Publish(q, wish)
                                   \/ PostFails(q) \/ TimesOut(q)
        PROVE  CopiesInv'
    BY <1>1, <1>2, CopiesPublisher
  <1>3. ASSUME NEW q \in Requests, NEW h \in Handlers, Post(q, h) PROVE CopiesInv'
    <2>1. h \in Threads
      BY DEF Threads
    <2> QED BY <1>1, <1>3, <2>1, CopiesBegin
  <1>4. ASSUME NEW q \in Requests, Take(q) PROVE CopiesInv'
    <2>1. Consumer \in Threads
      BY DEF Threads
    <2> QED BY <1>1, <1>4, <2>1, CopiesBegin
  <1>5. ASSUME NEW t \in Threads, Create(t) PROVE CopiesInv'
    BY <1>1, <1>5, CopiesCreate
  <1>6. ASSUME NEW t \in Threads,
               Select(t) \/ NothingDue(t) \/ Skip(t) \/ CreateFails(t) \/ Commit(t) \/ PassFails(t)
        PROVE  CopiesInv'
    BY <1>1, <1>6, CopiesOver
  <1>7. ASSUME NEW t \in Threads, NEW d \in Deliveries, Send(t, d) \/ Postpone(t, d) PROVE CopiesInv'
    BY <1>1, <1>7, CopiesTry
  <1>8. CASE Crash \/ Restart \/ BrokerRestart
    BY <1>1, <1>8, CopiesProcess
  <1>9. CASE UNCHANGED vars
    <2>1. \A r \in Requests : Made(r)' = Made(r) /\ Creators(r)' = Creators(r) /\ Queued(r)' = Queued(r)
      BY <1>9 DEF vars, Made, Creators, Queued
    <2>2. \A r \in Requests : Count(r)' = Count(r)
      BY <2>1 DEF Count
    <2>3. \A r \in Requests : Left(pub[r])' = Left(pub[r]) /\ Fresh(pub[r])' = Fresh(pub[r])
      BY <1>9 DEF vars, Left, Fresh
    <2>4. \A r \in Requests : Budget(r) => Budget(r)'
      BY <1>9, <2>2, <2>3 DEF vars, Budget
    <2>5. \A r \in Requests : Awaited(r) => Awaited(r)'
      BY <1>9 DEF vars, Awaited
    <2> QED BY <2>4, <2>5 DEF CopiesInv
  <1> QED BY <1>2, <1>3, <1>4, <1>5, <1>6, <1>7, <1>8, <1>9 DEF Next

LEMMA CopiesInit == Init => CopiesInv
  <1> SUFFICES ASSUME Init, NEW r \in Requests PROVE Budget(r) /\ Awaited(r)
    BY DEF CopiesInv
  <1>1. pub[r].stage = "idle"
    BY DEF Init
  <1>2. Left(pub[r]) = 3 /\ Fresh(pub[r]) = 1
    BY <1>1 DEF Left, Fresh
  <1>3. Made(r) = {} /\ Creators(r) = {} /\ Queued(r) = 0
    BY NotificationsAssumption DEF Init, Made, Creators, Queued, Idle
  <1>4. Count(r) = 0
    BY <1>3, FS_EmptySet DEF Count
  <1> QED BY <1>1, <1>2, <1>4 DEF Budget, Awaited

(* A request becomes more than one notification only if its publisher      *)
(* asked again not knowing what came of the attempt before, and never more *)
(* than three: the event, the fallback of the shared package and that of   *)
(* the auth service (publish_event).                                       *)
THEOREM CopiesAreExplained == Spec => []CopiesExplained
  <1>1. TypeInv /\ CopiesInv => CopiesExplained
    <2> SUFFICES ASSUME TypeInv, CopiesInv, NEW r \in Requests
                 PROVE  /\ Cardinality(Made(r)) > 1 => r \in unanswered
                        /\ Cardinality(Made(r)) <= 3
      BY DEF CopiesExplained
    <2>1. pub[r] \in Publisher /\ Budget(r)
      BY DEF TypeInv, TypeOK, CopiesInv
    <2>2. Left(pub[r]) \in 0 .. 3 /\ Fresh(pub[r]) \in 0 .. 1
      BY <2>1, Weights
    <2>3. /\ Cardinality(Made(r)) \in Nat /\ Cardinality(Creators(r)) \in Nat /\ Queued(r) \in 0 .. 1
          /\ Count(r) = Cardinality(Made(r)) + Cardinality(Creators(r)) + Queued(r)
      BY CountTypes DEF Count
    <2>4. Count(r) + Left(pub[r]) <= 3 /\ (r \in unanswered \/ Count(r) + Fresh(pub[r]) <= 1)
      BY <2>1 DEF Budget
    <2> QED BY <2>2, <2>3, <2>4
  <1> QED BY <1>1, TypeInit, TypeStep, CopiesInit, CopiesStep, PTL DEF Spec
=============================================================================
