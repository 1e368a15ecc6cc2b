---------------------------- MODULE Notifications ----------------------------
(***************************************************************************)
(* A request for a notification, from the auth service that publishes it,  *)
(* over the broker or by HTTP, to the notification service's tables, and   *)
(* from there, by passes over what is still to be delivered, to the mail   *)
(* server (shared/python/attendio_shared/events.py, auth-service/app/      *)
(* integrations/events.py, notification-service/app).                      *)
(*                                                                         *)
(* The service's threads are the handlers of HTTP requests, the consumer   *)
(* of events and the loop that retries every minute.  A pass reads the     *)
(* deliveries due, tries them one by one and commits once at the end;      *)
(* nothing keeps two passes from holding the same delivery.                *)
(*                                                                         *)
(* Templates, texts and the marks users set on what they have read are     *)
(* left out: nothing here reads them.                                      *)
(***************************************************************************)
EXTENDS Integers, FiniteSets

CONSTANTS Requests,      \* notifications asked for
          Wishes,        \* sets of channels a request may come down to
          Handlers,      \* threads that serve HTTP requests
          Loop,          \* the thread of the retry loop
          Consumer,      \* the thread of the event consumer
          Nobody,        \* no thread
          Backend,       \* INTERNAL_EVENT_BACKEND
          MaxTries,      \* attempts a delivery gets, 5 in the code
          MaxNotes,      \* bound on notifications
          MaxFaults      \* bound on failures of the database, the broker, the process

Outside  == {"email", "sms"}                \* 'push' is treated as 'sms'
Channels == {"in_app"} \union Outside
Threads  == Handlers \union {Loop, Consumer}

ASSUME NotificationsAssumption ==
    /\ Wishes \subseteq SUBSET Channels
    /\ IsFiniteSet(Handlers)
    /\ Loop \notin Handlers /\ Consumer \notin Handlers /\ Loop # Consumer
    /\ Nobody \notin Threads \union Requests
    /\ Backend \in {"redis", "rabbitmq"}
    /\ MaxTries \in Nat \ {0} /\ MaxNotes \in Nat /\ MaxFaults \in Nat

(* A delivery in the application is made by its own insertion and never    *)
(* touched again: those of the other channels are followed.                *)
Notes      == 1 .. MaxNotes
Deliveries == Notes \X Outside

VARIABLES
    pub,         \* where each request's publisher stands
    wants,       \* the channels of a request that its preferences leave
    queue,       \* requests published and not yet taken by the consumer
    notes,       \* the request each notification was made for
    rows,        \* NotificationDelivery rows
    call,        \* what each thread of the service is doing
    up,          \* the threads that run: no handler, if the process is down
    mails,       \* history: e-mails the mail server took for a delivery, up to 2
    raced,       \* history: deliveries two passes have held at once
    unrecorded,  \* history: deliveries whose e-mail was taken, which no row says
    unanswered,  \* history: requests made again though nothing was refused
    faults

vars == <<pub, wants, queue, notes, rows, call, up, mails, raced, unrecorded, unanswered, faults>>

-----------------------------------------------------------------------------
(* Rows, publishers and calls *)

Row == [status : {"absent", "pending", "delivered", "failed"}, tries : 0 .. MaxTries]

NoRow  == [status |-> "absent", tries |-> 0]
NoRows == [d \in Deliveries |-> NoRow]

(* Attempt 1 is the fallback of the shared package, 2 that of the auth     *)
(* service.  What publish_event answers in the end changes nothing here.   *)
Publisher == [stage : {"idle", "post", "wait", "done"},
              attempt : {1, 2}, by : Handlers \union {Nobody}]

Done == [stage |-> "done", attempt |-> 1, by |-> Nobody]

(* 'read' holds the rows as a pass read them and 'new' as it will write them. *)
Call == [stage : {"idle", "create", "select", "send"}, req : Requests \union {Nobody},
         read : [Deliveries -> Row], new : [Deliveries -> Row]]

Idle == [stage |-> "idle", req |-> Nobody, read |-> NoRows, new |-> NoRows]

Held(t)   == {d \in Deliveries : call[t].read[d].status # "absent"}
Todo(t)   == {d \in Held(t) : call[t].new[d].tries = call[t].read[d].tries}

(* E-mails a pass has had taken and has not committed yet                  *)
Taken(t)  == {d \in Held(t) : d[2] = "email" /\ call[t].new[d].status = "delivered"}

(* Wrong: what was delivered is tried again, what failed is not            *)
DueAlways  == {d \in Deliveries : rows[d].status # "absent" /\ rows[d].tries < MaxTries}
DueOnce    == {d \in Deliveries : rows[d].status = "pending" /\ rows[d].tries < MaxTries}

(* retry_pending's query                                                   *)
Due == {d \in Deliveries : rows[d].status \in {"pending", "failed"} /\ rows[d].tries < MaxTries}

Made(r) == {n \in Notes : notes[n] = r}

ProcessUp == Handlers \subseteq up

TypeOK ==
    /\ pub \in [Requests -> Publisher]
    /\ wants \in [Requests -> SUBSET Channels]
    /\ queue \subseteq Requests
    /\ notes \in [Notes -> Requests \union {Nobody}]
    /\ rows \in [Deliveries -> Row]
    /\ call \in [Threads -> Call]
    /\ up \subseteq Threads
    /\ mails \in [Deliveries -> 0 .. 2]
    /\ raced \subseteq Deliveries /\ unrecorded \subseteq Deliveries
    /\ unanswered \subseteq Requests
    /\ faults \in 0 .. MaxFaults

Init ==
    /\ pub = [r \in Requests |-> [stage |-> "idle", attempt |-> 1, by |-> Nobody]]
    /\ wants = [r \in Requests |-> {}]
    /\ queue = {}
    /\ notes = [n \in Notes |-> Nobody]
    /\ rows = NoRows
    /\ call = [t \in Threads |-> Idle]
    /\ up = Threads
    /\ mails = [d \in Deliveries |-> 0]
    /\ raced = {} /\ unrecorded = {} /\ unanswered = {}
    /\ faults = 0

Fault == faults < MaxFaults /\ faults' = faults + 1

-----------------------------------------------------------------------------
(* The publisher *)

(* What a publisher does when a POST has failed it: the auth service tries *)
(* once more, and then gives up.                                           *)
NextAttempt(p) ==
    IF p.attempt = 1 THEN [stage |-> "post", attempt |-> 2, by |-> Nobody] ELSE Done

(* Redis hands a message to who listens now; a RabbitMQ queue keeps it.    *)
Arrives(r) ==
    queue' = IF Backend = "rabbitmq" \/ Consumer \in up THEN queue \union {r} ELSE queue

(* publish_event: the broker takes the event, or cannot be reached, or     *)
(* takes it and the connection fails before its answer is read (Redis) or  *)
(* while it is being closed (RabbitMQ).                                    *)
Publish(r, wish) ==
    /\ pub[r].stage = "idle"
    /\ wants' = [wants EXCEPT ![r] = wish]
    /\ \/ /\ Arrives(r)
          /\ pub' = [pub EXCEPT ![r] = Done]
          /\ UNCHANGED <<unanswered, faults>>
       \/ /\ queue' = queue
          /\ pub' = [pub EXCEPT ![r].stage = "post"]
          /\ UNCHANGED <<unanswered, faults>>
       \/ /\ Fault
          /\ Arrives(r)
          /\ pub' = [pub EXCEPT ![r].stage = "post"]
          /\ unanswered' = unanswered \union {r}
    /\ UNCHANGED <<notes, rows, call, up, mails, raced, unrecorded>>

(* The loop runs its passes on the event loop, which starts no handler     *)
(* until it is through; those started go on.                               *)
Ready(h) == h \in up /\ call[h] = Idle /\ call[Loop] = Idle

Post(r, h) ==
    /\ pub[r].stage = "post" /\ Ready(h)
    /\ pub' = [pub EXCEPT ![r].stage = "wait", ![r].by = h]
    /\ call' = [call EXCEPT ![h].stage = "create", ![h].req = r]
    /\ UNCHANGED <<wants, queue, notes, rows, up, mails, raced, unrecorded, unanswered, faults>>

(* The service is not configured, or the connection refused                *)
PostFails(r) ==
    /\ pub[r].stage = "post"
    /\ pub' = [pub EXCEPT ![r] = NextAttempt(pub[r])]
    /\ UNCHANGED <<wants, queue, notes, rows, call, up, mails, raced, unrecorded, unanswered, faults>>

(* No answer within five seconds.  The handler does not notice.            *)
TimesOut(r) ==
    /\ pub[r].stage = "wait"
    /\ pub' = [pub EXCEPT ![r] = NextAttempt(pub[r])]
    /\ unanswered' = unanswered \union {r}
    /\ UNCHANGED <<wants, queue, notes, rows, call, up, mails, raced, unrecorded, faults>>

-----------------------------------------------------------------------------
(* How a thread's call ends *)

Waiting(t) == {r \in Requests : pub[r].stage = "wait" /\ pub[r].by = t}

Succeeds(t) ==
    /\ pub' = [r \in Requests |-> IF r \in Waiting(t) THEN Done ELSE pub[r]]
    /\ UNCHANGED up

(* An exception answers 500, ends the retry loop, and ends a RabbitMQ      *)
(* consumer; the Redis one goes on.                                        *)
Fails(t) ==
    /\ pub' = [r \in Requests |-> IF r \in Waiting(t) THEN NextAttempt(pub[r]) ELSE pub[r]]
    /\ up' = IF t = Loop \/ (t = Consumer /\ Backend = "rabbitmq") THEN up \ {t} ELSE up

-----------------------------------------------------------------------------
(* NotificationService.create *)

(* Wrong: the message is still there when the consumer asks again          *)
TakeAgain(r) ==
    /\ r \in queue /\ Consumer \in up /\ call[Consumer] = Idle
    /\ call' = [call EXCEPT ![Consumer].stage = "create", ![Consumer].req = r]
    /\ UNCHANGED <<pub, wants, queue, notes, rows, up, mails, raced, unrecorded, unanswered, faults>>

(* The message is acknowledged as it is taken.                             *)
Take(r) ==
    /\ r \in queue /\ Consumer \in up /\ call[Consumer] = Idle
    /\ queue' = queue \ {r}
    /\ call' = [call EXCEPT ![Consumer].stage = "create", ![Consumer].req = r]
    /\ UNCHANGED <<pub, wants, notes, rows, up, mails, raced, unrecorded, unanswered, faults>>

(* Notification and deliveries are committed, and if one of them leaves    *)
(* the application, the thread goes on with a pass over everything due.    *)
Create(t) ==
    LET r == call[t].req IN
    /\ call[t].stage = "create"
    /\ wants[r] # {}
    /\ \E n \in Notes :
        /\ notes[n] = Nobody /\ \A k \in 1 .. n - 1 : notes[k] # Nobody
        /\ notes' = [notes EXCEPT ![n] = r]
        /\ rows' = [d \in Deliveries |->
                       IF d[1] = n /\ d[2] \in wants[r]
                       THEN [status |-> "pending", tries |-> 0] ELSE rows[d]]
    /\ IF wants[r] \subseteq {"in_app"}
       THEN call' = [call EXCEPT ![t] = Idle] /\ Succeeds(t)
       ELSE call' = [call EXCEPT ![t] = [Idle EXCEPT !.stage = "select"]] /\ UNCHANGED <<pub, up>>
    /\ UNCHANGED <<wants, queue, mails, raced, unrecorded, unanswered, faults>>

(* The user's preferences leave no channel.                                *)
Skip(t) ==
    /\ call[t].stage = "create" /\ wants[call[t].req] = {}
    /\ call' = [call EXCEPT ![t] = Idle]
    /\ Succeeds(t)
    /\ UNCHANGED <<wants, queue, notes, rows, mails, raced, unrecorded, unanswered, faults>>

CreateFails(t) ==
    /\ call[t].stage = "create" /\ Fault
    /\ call' = [call EXCEPT ![t] = Idle]
    /\ Fails(t)
    /\ UNCHANGED <<wants, queue, notes, rows, mails, raced, unrecorded, unanswered>>

-----------------------------------------------------------------------------
(* NotificationService.retry_pending *)

(* A pass begins with the rows due, after a creation, when the loop wakes, *)
(* or because an operator asks for it.                                     *)
MayBegin(t) ==
    \/ call[t].stage = "select"
    \/ t \in Handlers \union {Loop} /\ Ready(t)

Select(t) ==
    /\ MayBegin(t) /\ Due # {}
    /\ LET read == [d \in Deliveries |-> IF d \in Due THEN rows[d] ELSE NoRow]
       IN  call' = [call EXCEPT ![t] = [stage |-> "send", req |-> Nobody,
                                        read |-> read, new |-> read]]
    /\ raced' = raced \union {d \in Due : \E u \in Threads \ {t} : d \in Held(u)}
    /\ UNCHANGED <<pub, wants, queue, notes, rows, up, mails, unrecorded, unanswered, faults>>

(* Another pass has done them all.                                         *)
NothingDue(t) ==
    /\ call[t].stage = "select" /\ Due = {}
    /\ call' = [call EXCEPT ![t] = Idle]
    /\ Succeeds(t)
    /\ UNCHANGED <<wants, queue, notes, rows, mails, raced, unrecorded, unanswered, faults>>

Tried(t, d, status) ==
    [call EXCEPT ![t].new[d] = [status |-> status, tries |-> call[t].read[d].tries + 1]]

Mailed(d) == [mails EXCEPT ![d] = IF @ < 2 THEN @ + 1 ELSE @]

(* Rows are tried one by one; an attempt touches nothing but its own row,  *)
(* and the order, which the query leaves open, is that of the notes.       *)
Turn(t, d) == call[t].stage = "send" /\ d \in Todo(t) /\ \A e \in Todo(t) : d[1] <= e[1]

(* One e-mail: taken; refused, or no SMTP server configured; or taken, and *)
(* the connection lost before the server's answer.                         *)
Send(t, d) ==
    /\ Turn(t, d) /\ d[2] = "email"
    /\ \/ /\ call' = Tried(t, d, "delivered") /\ mails' = Mailed(d)
          /\ UNCHANGED <<unrecorded, faults>>
       \/ /\ call' = Tried(t, d, "failed")
          /\ UNCHANGED <<mails, unrecorded, faults>>
       \/ /\ Fault
          /\ call' = Tried(t, d, "failed") /\ mails' = Mailed(d)
          /\ unrecorded' = unrecorded \union {d}
    /\ UNCHANGED <<pub, wants, queue, notes, rows, up, raced, unanswered>>

(* No provider sends these: they stay pending and use up their attempts.   *)
Postpone(t, d) ==
    /\ Turn(t, d) /\ d[2] # "email"
    /\ call' = Tried(t, d, "pending")
    /\ UNCHANGED <<pub, wants, queue, notes, rows, up, mails, raced, unrecorded, unanswered, faults>>

(* Wrong: only the count is written                                        *)
CountOnly(row, read, new) == [status |-> row.status, tries |-> new.tries]

(* Columns a pass has not changed are left as they are: a pass that read   *)
(* 'failed' and failed again does not write the status.                    *)
Written(row, read, new) ==
    [status |-> IF new.status # read.status THEN new.status ELSE row.status, tries |-> new.tries]

Commit(t) ==
    /\ call[t].stage = "send" /\ Todo(t) = {}
    /\ rows' = [d \in Deliveries |->
                   IF d \in Held(t) THEN Written(rows[d], call[t].read[d], call[t].new[d])
                   ELSE rows[d]]
    /\ call' = [call EXCEPT ![t] = Idle]
    /\ Succeeds(t)
    /\ UNCHANGED <<wants, queue, notes, mails, raced, unrecorded, unanswered, faults>>

(* The database fails a pass, or refuses its commit (an error text longer  *)
(* than last_error's column is enough).                                    *)
PassFails(t) ==
    /\ call[t].stage \in {"select", "send"} /\ Fault
    /\ call' = [call EXCEPT ![t] = Idle]
    /\ Fails(t)
    /\ unrecorded' = unrecorded \union Taken(t)
    /\ unanswered' = unanswered \union Waiting(t)
    /\ UNCHANGED <<wants, queue, notes, rows, mails, raced>>

-----------------------------------------------------------------------------
(* The process and the broker *)

(* What the consumer had been sent is acknowledged and gone.               *)
Crash ==
    /\ ProcessUp /\ Fault
    /\ up' = {}
    /\ call' = [t \in Threads |-> Idle]
    /\ queue' \in IF Backend = "rabbitmq" THEN SUBSET queue ELSE {{}}
    /\ pub' = [r \in Requests |-> IF pub[r].stage = "wait" THEN NextAttempt(pub[r]) ELSE pub[r]]
    /\ unrecorded' = unrecorded \union UNION {Taken(t) : t \in Threads}
    /\ unanswered' = unanswered \union {r \in Requests : pub[r].stage = "wait"}
    /\ UNCHANGED <<wants, notes, rows, mails, raced>>

(* The container is started again; a thread that ended is not.             *)
Restart ==
    /\ ~ProcessUp
    /\ up' = Threads
    /\ UNCHANGED <<pub, wants, queue, notes, rows, call, mails, raced, unrecorded, unanswered, faults>>

(* Messages are not persistent, and the consumer does not reconnect.       *)
BrokerRestart ==
    /\ Consumer \in up /\ call[Consumer] = Idle /\ Fault
    /\ queue' = {}
    /\ up' = up \ {Consumer}
    /\ UNCHANGED <<pub, wants, notes, rows, call, mails, raced, unrecorded, unanswered>>

-----------------------------------------------------------------------------
PassStep(t) ==
    \/ call[t].stage = "select" /\ (Select(t) \/ NothingDue(t))
    \/ \E d \in Deliveries : Send(t, d) \/ Postpone(t, d)
    \/ Commit(t)

LoopWakes == call[Loop] = Idle /\ Select(Loop)

Next ==
    \/ \E r \in Requests :
        \/ \E wish \in Wishes : Publish(r, wish)
        \/ \E h \in Handlers : Post(r, h)
        \/ PostFails(r) \/ TimesOut(r) \/ Take(r)
    \/ \E t \in Threads :
        \/ Create(t) \/ Skip(t) \/ CreateFails(t)
        \/ Select(t) \/ NothingDue(t) \/ Commit(t) \/ PassFails(t)
        \/ \E d \in Deliveries : Send(t, d) \/ Postpone(t, d)
    \/ Crash \/ Restart \/ BrokerRestart

Spec == Init /\ [][Next]_vars

(* The service goes on while it has something to do: a pass until its      *)
(* commit (the mail server's answer is awaited for twenty seconds at       *)
(* most), the loop every minute, the restart of the container.  Which      *)
(* thread goes on is left open, and publishers, operators and faults are   *)
(* free.                                                                   *)
ServiceStep ==
    \/ \E t \in Threads : PassStep(t)
    \/ LoopWakes
    \/ Restart

FairSpec == Spec /\ WF_vars(ServiceStep)

-----------------------------------------------------------------------------
(* Properties *)

(* A user is sent the same e-mail twice only if two passes held the        *)
(* delivery at once, or if the mail server took it and the row never said  *)
(* so: a crash or a failed commit after it, or an answer that was lost.    *)
DuplicateMailExplained ==
    \A d \in Deliveries : mails[d] > 1 => d \in raced \union unrecorded

(* A request becomes more than one notification only if its publisher      *)
(* asked again without knowing that the first had failed, and never more   *)
(* than three.                                                             *)
CopiesExplained ==
    \A r \in Requests :
        /\ Cardinality(Made(r)) > 1 => r \in unanswered
        /\ Cardinality(Made(r)) <= 3

(* Unless two passes overlap on it, a delivery that has been made stays    *)
(* made and no attempt is forgotten.                                       *)
DeliveryKept ==
    [][\A d \in Deliveries \ raced :
            /\ rows[d].status = "delivered" => rows'[d].status = "delivered"
            /\ rows[d].tries <= rows'[d].tries]_vars

Settled(d) == rows[d].status \in {"absent", "delivered"} \/ rows[d].tries = MaxTries

(* The retry loop has ended on an error the database gave one of its       *)
(* passes, and the process has not.                                        *)
LoopEnded == ProcessUp /\ Loop \notin up

(* Again and again there is nothing left to deliver: every e-mail is sent  *)
(* or given up after MaxTries attempts, through crashes and overlapping    *)
(* passes, unless the retry loop has ended.                                *)
EverythingSettles == []<>((\A d \in Deliveries : Settled(d)) \/ LoopEnded)
=============================================================================
