---------------------------- MODULE Notifications ----------------------------
(***************************************************************************)
(* The way of a notification from its row to the browsers of its user:     *)
(* the transaction that inserts it (notifyUser), the after-commit task     *)
(* that queues a job, the worker that announces the row over Redis, and    *)
(* the hub of server-sent streams of a backend process, which keeps one    *)
(* Redis subscription while somebody listens (modules/notifications,       *)
(* queues, server.js).                                                     *)
(*                                                                         *)
(* One user and one backend process: rows, channels and entries of the hub *)
(* are by user, and other processes share only the queue.  The process may *)
(* be stopped or crash, and then starts again with an empty memory.        *)
(***************************************************************************)
EXTENDS Naturals, Sequences, FiniteSets

CONSTANTS
  Note,         \* notifications of the user
  Suspension,   \* those of type ACCOUNT_SUSPENDED
  Stream,       \* bound: connections to notifications/stream at a time
  MaxAttempts,  \* attempts of a job (8)
  MaxStalls,    \* times a job is taken again after its worker died (BullMQ: 1)
  MaxFaults,    \* bound: crashes, and enqueues and subscribes that fail
  None

ASSUME SuspensionsAreNotes == Suspension \subseteq Note
ASSUME LimitsNat == MaxAttempts \in Nat \ {0} /\ MaxStalls \in Nat /\ MaxFaults \in Nat
ASSUME StreamsFinite == IsFiniteSet(Stream) /\ None \notin Nat

VARIABLES
  note,        \* notifications, and whether their transaction has committed
  suspended,   \* users.account_status = 'SUSPENDED'
  job,         \* after-commit task, then job "notification-<id>", of each note
  entry,       \* clientsByUserId.get(user): the Set it holds, or None
  stream,      \* the connections, as the process knows them
  commands,    \* subscribe and unsubscribe, sent and not yet executed
  subscribed,  \* Redis: the process is subscribed to the user's channel
  wire,        \* announcements on their way from Redis to the process
  faults,      \* bound: faults so far
  spoilt       \* history: a subscribe failed, or a stream was closed twice

vars == <<note, suspended, job, entry, stream, commands, subscribed, wire, faults, spoilt>>
hub  == <<entry, stream, commands, spoilt>>
rows == <<note, suspended>>

\* Names for the Sets that an entry has held and that streams still refer to.
SetId == 1..(Cardinality(Stream) + 1)

Closed == [pc |-> "closed", set |-> None, member |-> FALSE, gone |-> FALSE,
           early |-> FALSE, heard |-> {}]
NoJob  == [state |-> "none", attempts |-> 0, stalls |-> 0]

Init ==
  /\ note = [n \in Note |-> "none"]
  /\ suspended = FALSE
  /\ job = [n \in Note |-> NoJob]
  /\ entry = None
  /\ stream = [s \in Stream |-> Closed]
  /\ commands = <<>>
  /\ subscribed = FALSE
  /\ wire = <<>>
  /\ faults = 0
  /\ spoilt = FALSE

Fault == faults < MaxFaults /\ faults' = faults + 1

----------------------------------------------------------------------------
(* notifyUser inside withTransaction, and the task it leaves.              *)

\* MUTANT: the delivery is queued when the row is written.
InsertAndQueue(n) ==
  /\ note[n] = "none"
  /\ note' = [note EXCEPT ![n] = "written"]
  /\ job' = [job EXCEPT ![n].state = "queued"]
  /\ UNCHANGED <<suspended, hub, subscribed, wire, faults>>

Insert(n) ==
  /\ note[n] = "none"
  /\ note' = [note EXCEPT ![n] = "written"]
  /\ UNCHANGED <<suspended, job, hub, subscribed, wire, faults>>

Commit(n) ==
  /\ note[n] = "written"
  /\ note' = [note EXCEPT ![n] = "committed"]
  /\ suspended' = (suspended \/ n \in Suspension)
  /\ job' = [job EXCEPT ![n].state = IF @ = "none" THEN "task" ELSE @]
  /\ UNCHANGED <<hub, subscribed, wire, faults>>

RollBack(n) ==
  /\ note[n] = "written"
  /\ note' = [note EXCEPT ![n] = "void"]
  /\ UNCHANGED <<suspended, job, hub, subscribed, wire, faults>>

\* enqueueNotificationDelivery; a failed add is logged and the job is lost.
Enqueue(n) ==
  /\ job[n].state = "task"
  /\ \/ job' = [job EXCEPT ![n].state = "queued"] /\ UNCHANGED faults
     \/ job' = [job EXCEPT ![n].state = "lost"] /\ Fault
  /\ UNCHANGED <<rows, hub, subscribed, wire>>

\* unblockUser.
Reinstate ==
  /\ suspended
  /\ suspended' = FALSE
  /\ UNCHANGED <<note, job, hub, subscribed, wire, faults>>

----------------------------------------------------------------------------
(* The worker.  BullMQ keeps the job until it is completed: an attempt     *)
(* that throws is repeated, and so is a job whose worker has died.         *)

WorkerTake(n) ==
  /\ job[n].state = "queued"
  /\ job' = [job EXCEPT ![n].state = "active"]
  /\ UNCHANGED <<rows, hub, subscribed, wire, faults>>

\* MUTANT: the job goes back to the queue and the attempt is not counted.
AttemptForgotten(j) == [j EXCEPT !.state = "queued"]

\* What becomes of a job when an attempt throws.
AttemptFailed(j) ==
  [j EXCEPT !.attempts = @ + 1,
            !.state = IF j.attempts + 1 < MaxAttempts THEN "queued" ELSE "failed"]

\* NOTIFICATION_NOT_COMMITTED, or the publish fails.
WorkerFail(n) ==
  /\ job[n].state = "active"
  /\ job' = [job EXCEPT ![n] = AttemptFailed(@)]
  /\ UNCHANGED <<rows, hub, subscribed, wire, faults>>

\* publishNotificationEvent: whoever is subscribed now will receive it.
WorkerPublish(n) ==
  /\ job[n].state = "active"
  /\ note[n] = "committed"
  /\ job' = [job EXCEPT ![n].state = "published"]
  /\ wire' = IF subscribed THEN Append(wire, n) ELSE wire
  /\ UNCHANGED <<rows, hub, subscribed, faults>>

WorkerComplete(n) ==
  /\ job[n].state = "published"
  /\ job' = [job EXCEPT ![n].state = "done"]
  /\ UNCHANGED <<rows, hub, subscribed, wire, faults>>

----------------------------------------------------------------------------
(* The hub.                                                                *)

Members(set) == {s \in Stream : stream[s].member /\ stream[s].set = set}

FreshSet == CHOOSE i \in SetId : \A s \in Stream : stream[s].set # i

Subscribe(s) == [op |-> "subscribe", by |-> s]
Unsubscribe  == [op |-> "unsubscribe", by |-> None]

\* authenticate lets the request pass.
Arrive(s) ==
  /\ stream[s] = Closed /\ ~suspended
  /\ stream' = [stream EXCEPT ![s].pc = "arriving"]
  /\ UNCHANGED <<rows, job, entry, commands, subscribed, wire, faults, spoilt>>

\* openNotificationStream up to its await: only the first client subscribes,
\* the others find the stream open.
Open(s) ==
  LET set   == IF entry = None THEN FreshSet ELSE entry
      first == Members(set) = {} IN
  /\ stream[s].pc = "arriving"
  /\ entry' = set
  /\ stream' = [stream EXCEPT ![s].set = set, ![s].member = TRUE,
                              ![s].pc = IF first THEN "subscribing" ELSE "open"]
  /\ commands' = IF first THEN Append(commands, Subscribe(s)) ELSE commands
  /\ UNCHANGED <<rows, job, subscribed, wire, faults, spoilt>>

\* MUTANT: the subscription ends with each stream that closes.
CloseUnsubscribing(s, next) ==
  LET last == Members(stream[s].set) \ {s} = {} IN
  /\ stream' = [stream EXCEPT ![s] = next]
  /\ entry' = IF last THEN None ELSE entry
  /\ commands' = Append(commands, Unsubscribe)

\* MUTANT: the last stream that closes leaves the subscription in place.
CloseKeepingSubscription(s, next) ==
  LET last == Members(stream[s].set) \ {s} = {} IN
  /\ stream' = [stream EXCEPT ![s] = next]
  /\ entry' = IF last THEN None ELSE entry
  /\ UNCHANGED commands

\* client.close of s, with the connection in state next afterwards: the Set
\* that s has captured loses it, and when that Set is empty the entry of the
\* user is deleted, whichever Set it holds.
Close(s, next) ==
  LET last == Members(stream[s].set) \ {s} = {} IN
  /\ stream' = [stream EXCEPT ![s] = next]
  /\ entry' = IF last THEN None ELSE entry
  /\ commands' = IF last THEN Append(commands, Unsubscribe) ELSE commands

\* The browser goes away.  The listener for it is attached when the stream is
\* open: before that nobody notices.  A stream that a suspension closed is
\* closed here a second time.
HangUp(s) ==
  /\ stream[s].pc # "closed" /\ ~stream[s].gone
  /\ IF stream[s].pc = "open"
     THEN /\ Close(s, Closed)
          /\ spoilt' = (spoilt \/ ~stream[s].member)
     ELSE /\ stream' = [stream EXCEPT ![s].gone = TRUE]
          /\ UNCHANGED <<entry, commands, spoilt>>
  /\ UNCHANGED <<rows, job, subscribed, wire, faults>>

\* writeHead, "connected", the listener.  When an event was written before,
\* writeHead throws: the error handler ends the connection, and a client that
\* still is in the Set stays there.
Connected(s) ==
  stream' = [stream EXCEPT ![s] =
    IF ~@.early THEN [@ EXCEPT !.pc = "open"]
    ELSE IF @.member THEN [@ EXCEPT !.pc = "open", !.gone = TRUE] ELSE Closed]

\* Redis executes the next command, or refuses it.
Execute ==
  LET c == Head(commands) IN
  /\ commands # <<>>
  /\ IF c.op = "subscribe"
     THEN /\ subscribed' = TRUE
          /\ Connected(c.by)
          /\ commands' = Tail(commands)
     ELSE /\ subscribed' = FALSE
          /\ commands' = Tail(commands)
          /\ UNCHANGED stream
  /\ UNCHANGED <<rows, job, entry, wire, faults, spoilt>>

\* The subscribe is rejected: its own client closes and answers 503.
Refuse ==
  LET s    == Head(commands).by
      last == Members(stream[s].set) \ {s} = {} IN
  /\ commands # <<>> /\ Head(commands).op = "subscribe"
  /\ stream' = [stream EXCEPT ![s] = Closed]
  /\ entry' = IF last THEN None ELSE entry
  /\ commands' = IF last THEN Append(Tail(commands), Unsubscribe) ELSE Tail(commands)
  /\ spoilt' = TRUE
  /\ Fault
  /\ UNCHANGED <<rows, job, subscribed, wire>>

\* MUTANT: a suspension is delivered like any other event.
DeliverWithoutClosing ==
  /\ wire # <<>>
  /\ wire' = Tail(wire)
  /\ stream' = [s \in Stream |->
       IF s \notin Members(entry) THEN stream[s]
       ELSE [stream[s] EXCEPT !.heard = @ \cup {Head(wire)},
                              !.early = (stream[s].pc = "subscribing")]]
  /\ UNCHANGED <<rows, job, entry, commands, subscribed, faults, spoilt>>

\* deliverToLocalUser: each client of the entry's Set gets the event, head sent
\* or not; a suspension closes each of them.
Deliver ==
  LET n       == Head(wire)
      reached == Members(entry)
      cut     == n \in Suspension
      After(c) == [c EXCEPT !.heard = @ \cup {n}, !.early = (c.pc = "subscribing"),
                            !.member = ~cut] IN
  /\ wire # <<>>
  /\ wire' = Tail(wire)
  /\ stream' = [s \in Stream |->
       IF s \notin reached THEN stream[s]
       ELSE IF cut /\ stream[s].gone /\ stream[s].pc = "open" THEN Closed
       ELSE After(stream[s])]
  /\ IF cut /\ reached # {}
     THEN entry' = None /\ commands' = Append(commands, Unsubscribe)
     ELSE UNCHANGED <<entry, commands>>
  /\ UNCHANGED <<rows, job, subscribed, faults, spoilt>>

----------------------------------------------------------------------------
(* The process.                                                            *)

\* BullMQ finds that the worker of an active job is gone.
Stalled(j) ==
  IF j.state \notin {"active", "published"} THEN j
  ELSE IF j.stalls < MaxStalls THEN [j EXCEPT !.stalls = @ + 1, !.state = "queued"]
  ELSE [j EXCEPT !.state = "failed"]

\* The memory of the process goes, and with it open transactions, tasks that
\* have not run, streams, and its connections to Redis.
Restart ==
  /\ note' = [n \in Note |-> IF note[n] = "written" THEN "void" ELSE note[n]]
  /\ job' = [n \in Note |-> IF job[n].state = "task" THEN [job[n] EXCEPT !.state = "lost"]
                            ELSE Stalled(job[n])]
  /\ stream' = [s \in Stream |-> Closed]
  /\ entry' = None
  /\ commands' = <<>>
  /\ subscribed' = FALSE
  /\ wire' = <<>>
  /\ spoilt' = FALSE
  /\ UNCHANGED suspended

Crash == Fault /\ Restart

\* SIGTERM.  server.close waits for the connections that are open, and
\* closeNotificationWorker for the jobs at work; the end of an attempt whose publish
\* finds Redis closed meanwhile is WorkerFail.  Nobody waits for a handler whose
\* client has hung up, which it does not notice: Restart cuts off its
\* transaction or its after-commit task, as it would if the closing queue had refused
\* the job.  (Nobody new is let in from the signal on, which takes away steps
\* only.)
Exit ==
  /\ \A s \in Stream : stream[s].pc = "closed" \/ stream[s].gone
  /\ \A n \in Note : job[n].state \notin {"active", "published"}
  /\ Restart
  /\ UNCHANGED faults

----------------------------------------------------------------------------

Worker(n) == WorkerTake(n) \/ WorkerFail(n) \/ WorkerPublish(n) \/ WorkerComplete(n)

Next ==
  \/ \E n \in Note : Insert(n) \/ Commit(n) \/ RollBack(n) \/ Enqueue(n) \/ Worker(n)
  \/ \E s \in Stream : Arrive(s) \/ Open(s) \/ HangUp(s)
  \/ Execute \/ Refuse \/ Deliver
  \/ Reinstate \/ Crash \/ Exit

Spec == Init /\ [][Next]_vars

\* BullMQ hands out waiting jobs, a worker goes on with the job it has taken, and
\* Redis delivers.  (What follows needs no fairness of handlers and commands.)
FairSpec ==
  /\ Spec
  /\ \A n \in Note : WF_vars(Worker(n))
  /\ WF_vars(Deliver)

----------------------------------------------------------------------------
(* Properties.                                                             *)

Job == [state : {"none", "task", "queued", "active", "published", "done", "failed", "lost"},
        attempts : 0..MaxAttempts, stalls : 0..MaxStalls]
Connection == [pc : {"closed", "arriving", "subscribing", "open"}, set : SetId \cup {None},
               member : BOOLEAN, gone : BOOLEAN, early : BOOLEAN, heard : SUBSET Note]
Command == [op : {"subscribe", "unsubscribe"}, by : Stream \cup {None}]

\* The variables hold their values; a job gives up exactly when its attempts or
\* its stalls are used up.
TypeOK ==
  /\ note \in [Note -> {"none", "written", "committed", "void"}]
  /\ suspended \in BOOLEAN /\ subscribed \in BOOLEAN /\ spoilt \in BOOLEAN
  /\ job \in [Note -> Job]
  /\ \A n \in Note :
       /\ job[n].state \in {"queued", "active", "published"} => job[n].attempts < MaxAttempts
       /\ job[n].state = "failed" => job[n].attempts = MaxAttempts \/ job[n].stalls = MaxStalls
  /\ entry \in SetId \cup {None}
  /\ stream \in [Stream -> Connection]
  /\ commands \in Seq(Command)
  /\ wire \in Seq(Note)
  /\ faults \in 0..MaxFaults

\* What Redis will be told last.
Outcome == IF commands = <<>> THEN subscribed ELSE commands[Len(commands)].op = "subscribe"

\* README.md:118, "Redis pub/sub for authenticated real-time notification
\* streams": however streams open and close while commands are under way, the
\* process ends up subscribed exactly when it has clients - unless a subscribe
\* was rejected while another client had joined, or a stream closed twice.
SubscribedExactly == ~spoilt => (Outcome <=> \E s \in Stream : stream[s].member)

\* README.md:152, "Store notifications before pushing real-time events": a job
\* finds its row committed, whenever it is taken, and where the announcement is
\* lost, by a crash or by the stop of the process, the notification is stored.
JobFollowsCommit ==
  \A n \in Note : job[n].state # "none" => note[n] = "committed"

\* A stream that has told its user of the suspension tells nothing more.
CutOff ==
  [][\A s \in Stream : stream[s].heard \cap Suspension # {}
       => stream'[s].heard \subseteq stream[s].heard]_vars

\* PRODUCTION_CHECKLIST.md:53, "BullMQ notification jobs retry failed delivery":
\* however attempts fail and workers die, stop and start again, every job that was
\* queued ends, completed or given up, and none is tried for ever.
DeliveriesEnd ==
  \A n \in Note : job[n].state = "queued" ~> job[n].state \in {"done", "failed"}

\* A notification whose job waits reaches every stream that listens and goes on
\* listening, unless all attempts of the job fail.  (A suspension closes the
\* streams that hear of it: see CutOff.)
Heard ==
  \A n \in Note \ Suspension, s \in Stream :
    (job[n].state = "queued" /\ stream[s].member /\ subscribed /\ commands = <<>>)
      ~> (n \in stream[s].heard \/ ~stream[s].member \/ job[n].state = "failed" \/ spoilt)
=============================================================================
