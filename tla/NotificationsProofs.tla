-------------------------- MODULE NotificationsProofs --------------------------
(***************************************************************************)
(* Proofs about Notifications, for any notes, connections and faults.      *)
(***************************************************************************)
EXTENDS Notifications, FiniteSetTheorems, TLAPS

-----------------------------------------------------------------------------
(* Deliveries                                                              *)

JobRecord ==
  [state : {"none", "task", "queued", "active", "published", "done", "failed", "lost"},
   attempts : Nat, stalls : Nat]

\* What the deliveries need of the rows and the jobs.
DeliveryInv ==
  /\ note \in [Note -> {"none", "written", "committed", "void"}]
  /\ job \in [Note -> JobRecord]
  /\ JobFollowsCommit

\* A job that there is changes.
LEMMA JobStep ==
  ASSUME DeliveryInv, NEW n \in Note, NEW new \in JobRecord,
         job' = [job EXCEPT ![n] = new], note' = note, job[n].state # "none"
  PROVE  DeliveryInv'
  <1>1. /\ job' \in [Note -> JobRecord] /\ job'[n] = new
        /\ \A m \in Note \ {n} : job'[m] = job[m]
    BY DEF DeliveryInv
  <1>. QED BY <1>1 DEF DeliveryInv, JobFollowsCommit

LEMMA EnqueueStep ==
  ASSUME DeliveryInv, NEW n \in Note, Enqueue(n)
  PROVE  DeliveryInv'
  <1>1. job[n].state = "task" /\ note' = note /\ job[n] \in JobRecord
    BY DEF Enqueue, rows, DeliveryInv
  <1>2. PICK state \in {"queued", "lost"} :
          job' = [job EXCEPT ![n] = [job[n] EXCEPT !.state = state]]
    BY DEF Enqueue
  <1>3. [job[n] EXCEPT !.state = state] \in JobRecord
    BY <1>1, <1>2 DEF JobRecord
  <1>. QED BY <1>1, <1>2, <1>3, JobStep

LEMMA FailedTyped ==
  ASSUME NEW j \in JobRecord
  PROVE  AttemptFailed(j) \in JobRecord
  <1>1. PICK state \in {"queued", "failed"} :
          AttemptFailed(j) = [j EXCEPT !.attempts = j.attempts + 1, !.state = state]
    BY DEF AttemptFailed
  <1>2. j.attempts + 1 \in Nat
    BY DEF JobRecord
  <1>. QED BY <1>1, <1>2 DEF JobRecord

LEMMA WorkerStep ==
  ASSUME DeliveryInv, NEW n \in Note, Worker(n)
  PROVE  DeliveryInv'
  <1>1. /\ job[n].state \in {"queued", "active", "published"} /\ job[n] \in JobRecord
        /\ note' = note
    BY DEF Worker, WorkerTake, WorkerFail, WorkerPublish, WorkerComplete, rows, DeliveryInv
  <1>2. PICK new : /\ job' = [job EXCEPT ![n] = new]
                   /\ \/ new = AttemptFailed(job[n])
                      \/ new = [job[n] EXCEPT !.state = "active"]
                      \/ new = [job[n] EXCEPT !.state = "published"]
                      \/ new = [job[n] EXCEPT !.state = "done"]
    BY DEF Worker, WorkerTake, WorkerFail, WorkerPublish, WorkerComplete
  <1>3. new \in JobRecord
    BY <1>1, <1>2, FailedTyped DEF JobRecord
  <1>. QED BY <1>1, <1>2, <1>3, JobStep

LEMMA CommitStep ==
  ASSUME DeliveryInv, NEW n \in Note, Commit(n)
  PROVE  DeliveryInv'
  <1>1. note' = [note EXCEPT ![n] = "committed"] /\ job[n] \in JobRecord
    BY DEF Commit, DeliveryInv
  <1>2. PICK state : state = IF job[n].state = "none" THEN "task" ELSE job[n].state
    OBVIOUS
  <1>3. PICK new : new = [job[n] EXCEPT !.state = state]
    OBVIOUS
  <1>4. job' = [job EXCEPT ![n] = new]
    BY <1>2, <1>3 DEF Commit
  <1>5. new \in JobRecord
    BY <1>1, <1>2, <1>3 DEF JobRecord
  <1>6. /\ job' \in [Note -> JobRecord] /\ job'[n] = new
        /\ \A m \in Note \ {n} : job'[m] = job[m] /\ note'[m] = note[m]
        /\ note' \in [Note -> {"none", "written", "committed", "void"}] /\ note'[n] = "committed"
    BY <1>1, <1>4, <1>5 DEF DeliveryInv
  <1>. QED BY <1>6 DEF DeliveryInv, JobFollowsCommit

LEMMA StalledTyped ==
  ASSUME NEW j \in JobRecord
  PROVE  Stalled(j) \in JobRecord /\ (j.state = "none" => Stalled(j).state = "none")
  <1>1. CASE j.state \notin {"active", "published"}
    BY <1>1 DEF Stalled
  <1>2. CASE j.state \in {"active", "published"} /\ j.stalls < MaxStalls
    <2>1. Stalled(j) = [j EXCEPT !.stalls = j.stalls + 1, !.state = "queued"]
      BY <1>2 DEF Stalled
    <2>2. j.stalls + 1 \in Nat
      BY DEF JobRecord
    <2>. QED BY <1>2, <2>1, <2>2 DEF JobRecord
  <1>3. CASE j.state \in {"active", "published"} /\ ~(j.stalls < MaxStalls)
    <2>1. Stalled(j) = [j EXCEPT !.state = "failed"]
      BY <1>3 DEF Stalled
    <2>. QED BY <1>3, <2>1 DEF JobRecord
  <1>. QED BY <1>1, <1>2, <1>3

\* Where a task is cut off its row has committed, and stays.
LEMMA RestartStep ==
  ASSUME DeliveryInv, Restart
  PROVE  DeliveryInv'
  <1>1. /\ note' = [n \in Note |-> IF note[n] = "written" THEN "void" ELSE note[n]]
        /\ job' = [n \in Note |-> IF job[n].state = "task" THEN [job[n] EXCEPT !.state = "lost"]
                                  ELSE Stalled(job[n])]
    BY DEF Restart
  <1>2. ASSUME NEW n \in Note
        PROVE  job'[n] \in JobRecord /\ (job'[n].state # "none" => note'[n] = "committed")
    <2>1. job[n] \in JobRecord /\ (job[n].state # "none" => note[n] = "committed")
      BY DEF DeliveryInv, JobFollowsCommit
    <2>2. CASE job[n].state = "task"
      <3>1. job'[n] = [job[n] EXCEPT !.state = "lost"]
        BY <1>1, <2>2
      <3>. QED BY <1>1, <2>1, <2>2, <3>1 DEF JobRecord
    <2>3. CASE job[n].state # "task"
      <3>1. job'[n] = Stalled(job[n])
        BY <1>1, <2>3
      <3>. QED BY <1>1, <2>1, <3>1, StalledTyped
    <2>. QED BY <2>2, <2>3
  <1>3. /\ note' \in [Note -> {"none", "written", "committed", "void"}]
        /\ job' \in [Note -> JobRecord]
    BY <1>1, <1>2 DEF DeliveryInv
  <1>. QED BY <1>2, <1>3 DEF DeliveryInv, JobFollowsCommit

\* The rows and the jobs after any step.
LEMMA DeliveryStep ==
  ASSUME DeliveryInv, [Next]_vars
  PROVE  DeliveryInv'
  <1>1. CASE job' = job /\ note' = note
    BY <1>1 DEF DeliveryInv, JobFollowsCommit
  <1>2. ASSUME NEW n \in Note, Insert(n) \/ RollBack(n)
        PROVE  DeliveryInv'
    <2>1. /\ job' = job /\ note[n] # "committed"
          /\ note' = [note EXCEPT ![n] = "written"] \/ note' = [note EXCEPT ![n] = "void"]
      BY <1>2 DEF Insert, RollBack
    <2>. QED BY <2>1 DEF DeliveryInv, JobFollowsCommit
  <1>3. ASSUME Crash \/ Exit PROVE DeliveryInv'
    BY <1>3, RestartStep DEF Crash, Exit
  <1>4. ASSUME NEW s \in Stream, Arrive(s) \/ Open(s) \/ HangUp(s)
        PROVE  job' = job /\ note' = note
    BY <1>4 DEF Arrive, Open, HangUp, rows
  <1>5. ASSUME Execute \/ Refuse \/ Deliver \/ Reinstate \/ UNCHANGED vars
        PROVE  job' = job /\ note' = note
    BY <1>5 DEF Execute, Refuse, Deliver, Reinstate, rows, hub, vars
  <1>. QED BY <1>1, <1>2, <1>3, <1>4, <1>5, CommitStep, EnqueueStep, WorkerStep DEF Next

LEMMA DeliveryInit == Init => DeliveryInv
  BY DEF Init, DeliveryInv, JobFollowsCommit, NoJob, JobRecord

\* A job is queued only for a row that has committed, so that a worker which
\* takes it, however late or often, finds the notification it announces, and what a
\* crash or a stop of the process loses is the announcement alone.
THEOREM JobsFollowCommits == Spec => []JobFollowsCommit
  <1>1. DeliveryInv => JobFollowsCommit
    BY DEF DeliveryInv
  <1>2. DeliveryInv /\ [Next]_vars => DeliveryInv'
    BY DeliveryStep
  <1>. QED BY <1>1, <1>2, DeliveryInit, PTL DEF Spec
-----------------------------------------------------------------------------
(* The hub                                                                 *)

\* A user has an entry exactly while somebody is in its Set, and Redis will be
\* subscribed exactly then.
Joined ==
  /\ \A s \in Stream : stream[s].member => stream[s].set = entry
  /\ entry # None <=> \E s \in Stream : stream[s].member
  /\ Outcome <=> entry # None

\* Who has heard of a suspension is not in a Set any more, and who arrives not yet.
Told ==
  \A s \in Stream :
    /\ stream[s].heard \cap Suspension # {} => ~stream[s].member
    /\ stream[s].pc = "arriving" => stream[s].heard = {} /\ ~stream[s].member

HubInv ==
  /\ stream \in [Stream -> Connection]
  /\ entry \in SetId \cup {None}
  /\ commands \in Seq(Command)
  /\ \A i \in 1..Len(commands) : commands[i].op = "subscribe" => commands[i].by \in Stream
  /\ wire \in Seq(Note)
  /\ Told
  /\ ~spoilt => Joined

LEMMA NoneIsNoSet == None \notin SetId /\ Closed \in Connection
  <1>1. Cardinality(Stream) \in Nat
    BY StreamsFinite, FS_CardinalityType
  <1>. QED BY <1>1, StreamsFinite DEF SetId, Closed, Connection

\* There is always a name for a new Set: fewer are in use than there are names.
LEMMA FreshSetIs == FreshSet \in SetId
  <1>1. Cardinality(Stream) \in Nat
    BY StreamsFinite, FS_CardinalityType
  <1>2. \E i \in SetId : \A s \in Stream : stream[s].set # i
    <2>1. SUFFICES ASSUME \A i \in SetId : \E s \in Stream : stream[s].set = i PROVE FALSE
      OBVIOUS
    <2>2. PICK user : user = [i \in SetId |-> CHOOSE s \in Stream : stream[s].set = i]
      OBVIOUS
    <2>3. \A i \in SetId : user[i] \in Stream /\ stream[user[i]].set = i
      BY <2>1, <2>2
    <2>4. user \in Injection(SetId, Stream)
      BY <2>2, <2>3 DEF Injection, IsInjective
    <2>5. Cardinality(SetId) <= Cardinality(Stream)
      BY <2>4, StreamsFinite, FS_Injection
    <2>6. Cardinality(SetId) = Cardinality(Stream) + 1
      BY <1>1, FS_Interval DEF SetId
    <2>. QED BY <1>1, <2>5, <2>6
  <1>. QED BY <1>2 DEF FreshSet

\* What is appended to the commands is what Redis will be told last.
LEMMA SaidLast ==
  ASSUME NEW sent \in Seq(Command), NEW c \in Command, commands' = Append(sent, c),
         c.op = "subscribe" => c.by \in Stream,
         \A i \in 1..Len(sent) : sent[i].op = "subscribe" => sent[i].by \in Stream
  PROVE  /\ commands' \in Seq(Command)
         /\ \A i \in 1..Len(commands') : commands'[i].op = "subscribe" => commands'[i].by \in Stream
         /\ Outcome' <=> c.op = "subscribe"
  <1>1. /\ commands' \in Seq(Command) /\ commands' # <<>>
        /\ Len(commands') = Len(sent) + 1 /\ commands'[Len(commands')] = c
        /\ \A i \in 1..Len(sent) : commands'[i] = sent[i]
    OBVIOUS
  <1>2. \A i \in 1..Len(commands') : i \in 1..Len(sent) \/ i = Len(commands')
    BY <1>1
  <1>. QED BY <1>1, <1>2 DEF Outcome

LEMMA CommandsTyped ==
  /\ Unsubscribe \in Command /\ Unsubscribe.op = "unsubscribe"
  /\ \A s \in Stream : Subscribe(s) \in Command /\ Subscribe(s).op = "subscribe"
                       /\ Subscribe(s).by = s
  BY DEF Unsubscribe, Subscribe, Command

\* The command at the head is taken away.
LEMMA SaidNext ==
  ASSUME HubInv, commands # <<>>
  PROVE  /\ Tail(commands) \in Seq(Command) /\ Head(commands) \in Command
         /\ Head(commands).op = "subscribe" => Head(commands).by \in Stream
         /\ \A i \in 1..Len(Tail(commands)) :
              Tail(commands)[i].op = "subscribe" => Tail(commands)[i].by \in Stream
         /\ IF Tail(commands) = <<>>
            THEN commands[Len(commands)] = Head(commands)
            ELSE Tail(commands)[Len(Tail(commands))] = commands[Len(commands)]
  <1>1. /\ commands \in Seq(Command) /\ Len(commands) \in Nat /\ Len(commands) >= 1
        /\ Head(commands) = commands[1] /\ Tail(commands) \in Seq(Command)
        /\ Len(Tail(commands)) = Len(commands) - 1
        /\ \A i \in 1..Len(Tail(commands)) : Tail(commands)[i] = commands[i + 1]
    BY DEF HubInv
  <1>2. \A i \in 1..Len(Tail(commands)) : i + 1 \in 1..Len(commands)
    BY <1>1
  <1>3. \A i \in 1..Len(commands) : commands[i].op = "subscribe" => commands[i].by \in Stream
    BY DEF HubInv
  <1>4. Tail(commands) = <<>> => Len(commands) = 1
    BY <1>1
  <1>5. Tail(commands) # <<>> => Len(Tail(commands)) \in 1..Len(Tail(commands))
    BY <1>1
  <1>. QED BY <1>1, <1>2, <1>3, <1>4, <1>5

\* One connection changes.
LEMMA OneStream ==
  ASSUME HubInv, NEW s \in Stream, NEW new \in Connection,
         stream' = [stream EXCEPT ![s] = new],
         new.heard \cap Suspension # {} => ~new.member,
         new.pc = "arriving" => new.heard = {} /\ ~new.member
  PROVE  /\ stream' \in [Stream -> Connection] /\ stream'[s] = new
         /\ \A q \in Stream \ {s} : stream'[q] = stream[q]
         /\ Told'
  <1>1. /\ stream' \in [Stream -> Connection] /\ stream'[s] = new
        /\ \A q \in Stream \ {s} : stream'[q] = stream[q]
    BY DEF HubInv
  <1>. QED BY <1>1 DEF HubInv, Told

LEMMA ClosedTyped ==
  Closed \in Connection /\ Closed.heard = {} /\ ~Closed.member /\ Closed.pc = "closed"
  BY NoneIsNoSet DEF Closed

\* Nothing that Joined speaks of has changed.
LEMMA JoinedStays ==
  ASSUME HubInv, spoilt' = spoilt, entry' = entry, commands' = commands,
         subscribed' = subscribed, stream' \in [Stream -> Connection],
         \A s \in Stream : stream'[s].member = stream[s].member /\ stream'[s].set = stream[s].set,
         Told', wire' \in Seq(Note)
  PROVE  HubInv'
  BY DEF HubInv, Joined, Outcome

LEMMA ArriveHub == ASSUME HubInv, NEW s \in Stream, Arrive(s) PROVE HubInv'
  <1>1. /\ stream[s] = Closed /\ stream' = [stream EXCEPT ![s] = [stream[s] EXCEPT !.pc = "arriving"]]
        /\ UNCHANGED <<entry, commands, subscribed, wire, spoilt>>
    BY DEF Arrive
  <1>2. PICK new : new = [Closed EXCEPT !.pc = "arriving"]
    OBVIOUS
  <1>3. /\ new \in Connection /\ new.heard = {} /\ ~new.member /\ new.set = Closed.set
        /\ new.member = Closed.member
    BY <1>2, ClosedTyped DEF Connection
  <1>4. stream' = [stream EXCEPT ![s] = new]
    BY <1>1, <1>2
  <1>5. /\ stream' \in [Stream -> Connection] /\ stream'[s] = new /\ Told'
        /\ \A q \in Stream \ {s} : stream'[q] = stream[q]
    BY <1>3, <1>4, OneStream
  <1>6. wire' \in Seq(Note)
    BY <1>1 DEF HubInv
  <1>. QED BY <1>1, <1>3, <1>5, <1>6, JoinedStays

LEMMA OpenHub == ASSUME HubInv, NEW s \in Stream, Open(s) PROVE HubInv'
  <1>1. PICK set : set = IF entry = None THEN FreshSet ELSE entry
    OBVIOUS
  <1>2. set \in SetId /\ set # None
    BY <1>1, FreshSetIs, NoneIsNoSet DEF HubInv
  <1>3. PICK pc \in {"subscribing", "open"} :
          /\ stream' = [stream EXCEPT ![s] =
               [stream[s] EXCEPT !.set = set, !.member = TRUE, !.pc = pc]]
          /\ commands' = IF Members(set) = {} THEN Append(commands, Subscribe(s)) ELSE commands
          /\ entry' = set
    BY <1>1 DEF Open
  <1>4. stream[s].pc = "arriving" /\ UNCHANGED <<subscribed, wire, spoilt>>
    BY DEF Open
  <1>5. PICK new : new = [stream[s] EXCEPT !.set = set, !.member = TRUE, !.pc = pc]
    OBVIOUS
  <1>6. stream[s] \in Connection /\ stream[s].heard = {}
    BY <1>4 DEF HubInv, Told
  <1>7. /\ new \in Connection /\ new.heard = {} /\ new.member /\ new.set = set /\ new.pc = pc
    BY <1>2, <1>5, <1>6 DEF Connection
  <1>8. /\ stream' \in [Stream -> Connection] /\ stream'[s] = new /\ Told'
        /\ \A q \in Stream \ {s} : stream'[q] = stream[q]
    BY <1>3, <1>5, <1>7, OneStream
  <1>9. /\ commands' \in Seq(Command)
        /\ \A i \in 1..Len(commands') : commands'[i].op = "subscribe" => commands'[i].by \in Stream
        /\ Members(set) = {} => Outcome'
        /\ Members(set) # {} => commands' = commands
    BY <1>3, CommandsTyped, SaidLast DEF HubInv
  <1>10. ASSUME ~spoilt PROVE Joined'
    <2>1. Joined
      BY <1>10 DEF HubInv
    <2>2. Outcome'
      <3>1. CASE Members(set) = {}
        BY <1>9, <3>1
      <3>2. CASE Members(set) # {}
        <4>1. \E q \in Stream : stream[q].member
          BY <3>2 DEF Members
        <4>. QED BY <1>4, <1>9, <2>1, <3>2, <4>1 DEF Joined, Outcome
      <3>. QED BY <3>1, <3>2
    <2>3. \A q \in Stream : stream[q].member => stream[q].set = set
      BY <1>1, <2>1 DEF Joined
    <2>. QED BY <1>2, <1>3, <1>7, <1>8, <2>2, <2>3 DEF Joined
  <1>. QED BY <1>2, <1>3, <1>4, <1>8, <1>9, <1>10 DEF HubInv

LEMMA HangUpHub == ASSUME HubInv, NEW s \in Stream, HangUp(s) PROVE HubInv'
  <1>1. UNCHANGED <<subscribed, wire>> /\ stream[s] \in Connection
    BY DEF HangUp, HubInv
  <1>2. CASE stream[s].pc # "open"
    <2>1. PICK new : new = [stream[s] EXCEPT !.gone = TRUE]
      OBVIOUS
    <2>2. stream' = [stream EXCEPT ![s] = new] /\ UNCHANGED <<entry, commands, spoilt>>
      BY <1>2, <2>1 DEF HangUp
    <2>3. /\ new \in Connection /\ new.heard = stream[s].heard /\ new.pc = stream[s].pc
          /\ new.member = stream[s].member /\ new.set = stream[s].set
      BY <1>1, <2>1 DEF Connection
    <2>4. /\ stream' \in [Stream -> Connection] /\ stream'[s] = new /\ Told'
          /\ \A q \in Stream \ {s} : stream'[q] = stream[q]
      BY <2>2, <2>3, OneStream DEF HubInv, Told
    <2>5. wire' \in Seq(Note)
      BY <1>1 DEF HubInv
    <2>. QED BY <1>1, <2>2, <2>3, <2>4, <2>5, JoinedStays
  <1>3. CASE stream[s].pc = "open"
    <2>1. PICK last \in BOOLEAN :
            /\ last <=> Members(stream[s].set) \ {s} = {}
            /\ entry' = IF last THEN None ELSE entry
            /\ commands' = IF last THEN Append(commands, Unsubscribe) ELSE commands
      BY <1>3 DEF HangUp, Close
    <2>2. stream' = [stream EXCEPT ![s] = Closed] /\ (~spoilt' => ~spoilt /\ stream[s].member)
      BY <1>3 DEF HangUp, Close
    <2>3. /\ stream' \in [Stream -> Connection] /\ stream'[s] = Closed /\ Told'
          /\ \A q \in Stream \ {s} : stream'[q] = stream[q]
      BY <2>2, ClosedTyped, OneStream
    <2>4. /\ commands' \in Seq(Command)
          /\ \A i \in 1..Len(commands') : commands'[i].op = "subscribe" => commands'[i].by \in Stream
          /\ last => ~Outcome'
      BY <2>1, CommandsTyped, SaidLast DEF HubInv
    <2>5. ASSUME ~spoilt' PROVE Joined'
      <3>1. Joined /\ stream[s].member
        BY <2>2, <2>5 DEF HubInv
      <3>2. stream[s].set = entry /\ entry # None
        BY <3>1 DEF Joined
      <3>3. CASE last
        <4>1. \A q \in Stream \ {s} : ~stream[q].member
          BY <2>1, <3>1, <3>2, <3>3 DEF Joined, Members
        <4>. QED BY <2>1, <2>3, <2>4, <3>3, <4>1, ClosedTyped DEF Joined
      <3>4. CASE ~last
        <4>1. PICK q \in Stream \ {s} : stream[q].member
          BY <2>1, <3>4 DEF Members
        <4>2. Outcome' <=> Outcome
          BY <1>1, <2>1, <3>4 DEF Outcome
        <4>. QED BY <2>1, <2>3, <3>1, <3>2, <3>4, <4>1, <4>2, ClosedTyped DEF Joined
      <3>. QED BY <3>3, <3>4
    <2>6. entry' \in SetId \cup {None} /\ wire' \in Seq(Note)
      BY <1>1, <2>1 DEF HubInv
    <2>. QED BY <2>3, <2>4, <2>5, <2>6 DEF HubInv
  <1>. QED BY <1>2, <1>3


LEMMA ConnectedIs ==
  ASSUME HubInv, NEW s \in Stream, Connected(s)
  PROVE  /\ stream' \in [Stream -> Connection] /\ Told'
         /\ \A q \in Stream \ {s} : stream'[q] = stream[q]
         /\ stream'[s].member = stream[s].member
         /\ stream[s].member => stream'[s].set = stream[s].set
  <1>1. stream[s] \in Connection
    BY DEF HubInv
  <1>2. PICK new : /\ stream' = [stream EXCEPT ![s] = new]
                   /\ \/ new = [stream[s] EXCEPT !.pc = "open"]
                      \/ new = [stream[s] EXCEPT !.pc = "open", !.gone = TRUE]
                      \/ new = Closed /\ ~stream[s].member
    BY DEF Connected
  <1>3. /\ new \in Connection /\ new.member = stream[s].member
        /\ new.member => new.set = stream[s].set
        /\ new.pc # "arriving" /\ (new.heard = stream[s].heard \/ new.heard = {})
    BY <1>1, <1>2, ClosedTyped DEF Connection
  <1>4. new.heard \cap Suspension # {} => ~new.member
    BY <1>3 DEF HubInv, Told
  <1>. QED BY <1>2, <1>3, <1>4, OneStream

LEMMA ExecuteHub == ASSUME HubInv, Execute PROVE HubInv'
  <1>1. PICK c : c = Head(commands)
    OBVIOUS
  <1>2. /\ commands # <<>> /\ commands' = Tail(commands)
        /\ UNCHANGED <<entry, wire, spoilt>>
        /\ IF c.op = "subscribe" THEN subscribed' = TRUE /\ Connected(c.by)
                                 ELSE subscribed' = FALSE /\ stream' = stream
    BY <1>1 DEF Execute
  <1>3. /\ stream' \in [Stream -> Connection] /\ Told'
        /\ \A q \in Stream : /\ stream'[q].member = stream[q].member
                             /\ stream[q].member => stream'[q].set = stream[q].set
    <2>1. CASE c.op = "subscribe"
      BY <1>1, <1>2, <2>1, SaidNext, ConnectedIs
    <2>2. CASE c.op # "subscribe"
      BY <1>2, <2>2 DEF HubInv, Told
    <2>. QED BY <2>1, <2>2
  <1>4. Outcome' <=> Outcome
    BY <1>1, <1>2, SaidNext DEF Outcome
  <1>5. /\ commands' \in Seq(Command)
        /\ \A i \in 1..Len(commands') : commands'[i].op = "subscribe" => commands'[i].by \in Stream
    BY <1>2, SaidNext
  <1>6. ~spoilt => Joined'
    BY <1>2, <1>3, <1>4 DEF HubInv, Joined
  <1>. QED BY <1>2, <1>3, <1>5, <1>6 DEF HubInv

LEMMA RefuseHub == ASSUME HubInv, Refuse PROVE HubInv'
  <1>1. PICK s : s = Head(commands).by
    OBVIOUS
  <1>2. PICK last \in BOOLEAN :
          /\ entry' = IF last THEN None ELSE entry
          /\ commands' = IF last THEN Append(Tail(commands), Unsubscribe) ELSE Tail(commands)
          /\ stream' = [stream EXCEPT ![s] = Closed]
    BY <1>1 DEF Refuse
  <1>3. spoilt' /\ wire' = wire /\ commands # <<>> /\ s \in Stream
    BY <1>1, SaidNext DEF Refuse
  <1>4. stream' \in [Stream -> Connection] /\ Told'
    BY <1>2, <1>3, ClosedTyped, OneStream
  <1>5. /\ commands' \in Seq(Command)
        /\ \A i \in 1..Len(commands') : commands'[i].op = "subscribe" => commands'[i].by \in Stream
    BY <1>2, <1>3, SaidNext, SaidLast, CommandsTyped
  <1>. QED BY <1>2, <1>3, <1>4, <1>5 DEF HubInv

LEMMA DeliverHub ==
  ASSUME HubInv, Deliver
  PROVE  /\ HubInv'
         /\ \A s \in Stream : stream[s].heard \cap Suspension # {}
              => stream'[s].heard \subseteq stream[s].heard
  <1>1. PICK n : n = Head(wire)
    OBVIOUS
  <1>2. PICK cut \in BOOLEAN : cut <=> n \in Suspension
    OBVIOUS
  <1>3. wire # <<>> /\ wire' = Tail(wire) /\ n \in Note /\ UNCHANGED <<subscribed, spoilt>>
    <2>1. wire # <<>> /\ wire' = Tail(wire) /\ subscribed' = subscribed /\ spoilt' = spoilt
      BY DEF Deliver
    <2>2. wire \in Seq(Note)
      BY DEF HubInv
    <2>. QED BY <1>1, <2>1, <2>2
  <1>4. ASSUME NEW s \in Stream
        PROVE  /\ stream'[s] \in Connection
               /\ s \notin Members(entry) => stream'[s] = stream[s]
               /\ s \in Members(entry) =>
                    /\ stream'[s].member <=> ~cut
                    /\ ~cut => stream'[s].set = stream[s].set
                    /\ stream'[s].pc # "arriving"
                    /\ ~cut => stream'[s].heard = stream[s].heard \cup {n}
    <2>1. stream[s] \in Connection
      BY DEF HubInv
    <2>2. CASE s \notin Members(entry)
      BY <2>1, <2>2 DEF Deliver
    <2>3. CASE s \in Members(entry) /\ stream'[s] = Closed /\ cut
      BY <2>3, ClosedTyped
    <2>4. CASE s \in Members(entry) /\ ~(stream'[s] = Closed /\ cut)
      <3>1. PICK early \in BOOLEAN : early <=> stream[s].pc = "subscribing"
        OBVIOUS
      <3>2. stream'[s] = [stream[s] EXCEPT !.heard = stream[s].heard \cup {n},
                                           !.early = early, !.member = ~cut]
        BY <1>1, <1>2, <2>4, <3>1 DEF Deliver
      <3>3. stream[s].pc # "arriving"
        BY <2>4 DEF Members, HubInv, Told
      <3>4. PICK heard : heard = stream[s].heard \cup {n}
        OBVIOUS
      <3>5. PICK member \in BOOLEAN : member <=> ~cut
        OBVIOUS
      <3>6. stream'[s] = [stream[s] EXCEPT !.heard = heard, !.early = early, !.member = member]
        BY <3>2, <3>4, <3>5
      <3>7. heard \in SUBSET Note
        BY <1>3, <2>1, <3>4 DEF Connection
      <3>8. /\ stream'[s] \in Connection /\ stream'[s].member = member
            /\ stream'[s].set = stream[s].set /\ stream'[s].pc = stream[s].pc
            /\ stream'[s].heard = heard
        BY <2>1, <3>6, <3>7 DEF Connection
      <3>. QED BY <2>4, <3>3, <3>4, <3>5, <3>8
    <2>. QED BY <1>1, <1>2, <2>2, <2>3, <2>4
  <1>5. stream' \in [Stream -> Connection]
    BY <1>4 DEF Deliver
  <1>6. ASSUME NEW s \in Stream
        PROVE  /\ stream'[s].heard \cap Suspension # {} => ~stream'[s].member
               /\ stream'[s].pc = "arriving" => stream'[s].heard = {} /\ ~stream'[s].member
               /\ stream[s].heard \cap Suspension # {} => s \notin Members(entry)
    BY <1>2, <1>4 DEF HubInv, Told, Members
  <1>7. PICK out \in BOOLEAN :
          /\ out <=> cut /\ Members(entry) # {}
          /\ IF out THEN entry' = None /\ commands' = Append(commands, Unsubscribe)
                    ELSE entry' = entry /\ commands' = commands
    BY <1>1, <1>2 DEF Deliver
  <1>8. /\ commands' \in Seq(Command)
        /\ \A i \in 1..Len(commands') : commands'[i].op = "subscribe" => commands'[i].by \in Stream
        /\ out => ~Outcome'
    BY <1>7, SaidLast, CommandsTyped DEF HubInv
  <1>9. ASSUME ~spoilt PROVE Joined'
    <2>1. Joined
      BY <1>9 DEF HubInv
    <2>2. CASE out
      <3>1. \A s \in Stream : ~stream'[s].member
        BY <1>4, <1>7, <2>1, <2>2 DEF Joined, Members
      <3>. QED BY <1>7, <1>8, <2>2, <3>1 DEF Joined
    <2>3. CASE ~out
      <3>1. \A s \in Stream : /\ stream'[s].member <=> stream[s].member
                              /\ stream[s].member => stream'[s].set = stream[s].set
        BY <1>4, <1>7, <2>3 DEF Members
      <3>2. Outcome' <=> Outcome
        BY <1>3, <1>7, <2>3 DEF Outcome
      <3>. QED BY <1>7, <2>1, <2>3, <3>1, <3>2 DEF Joined
    <2>. QED BY <2>2, <2>3
  <1>10. Told'
    BY <1>6 DEF Told
  <1>11. entry' \in SetId \cup {None} /\ wire' \in Seq(Note)
    BY <1>3, <1>7 DEF HubInv
  <1>12. HubInv'
    BY <1>3, <1>5, <1>8, <1>9, <1>10, <1>11 DEF HubInv
  <1>. QED BY <1>4, <1>6, <1>12

LEMMA RestartHub == ASSUME Restart PROVE HubInv'
  <1>1. /\ stream' = [s \in Stream |-> Closed] /\ entry' = None /\ commands' = <<>>
        /\ subscribed' = FALSE /\ wire' = <<>>
    BY DEF Restart
  <1>. QED BY <1>1, ClosedTyped DEF HubInv, Told, Joined, Outcome

LEMMA HubInit == Init => HubInv
  BY ClosedTyped DEF Init, HubInv, Told, Joined, Outcome

\* Steps of rows and jobs: at most they announce a note.
LEMMA RowsHub ==
  ASSUME HubInv, UNCHANGED <<entry, stream, commands, spoilt, subscribed>>, wire' \in Seq(Note)
  PROVE  HubInv'
  BY DEF HubInv, Told, Joined, Outcome

\* The hub after any step.
LEMMA HubStep ==
  ASSUME HubInv, [Next]_vars
  PROVE  /\ HubInv'
         /\ \A s \in Stream : stream[s].heard \cap Suspension # {}
              => stream'[s].heard \subseteq stream[s].heard
  <1>. DEFINE Quiet == \A s \in Stream : stream'[s].heard \subseteq stream[s].heard
  <1>1. wire \in Seq(Note) /\ \A s \in Stream : stream[s] \in Connection
    BY DEF HubInv
  <1>2. ASSUME NEW n \in Note, Insert(n) \/ Commit(n) \/ RollBack(n) \/ Enqueue(n)
        PROVE  HubInv' /\ Quiet
    BY <1>1, <1>2, RowsHub DEF Insert, Commit, RollBack, Enqueue, hub
  <1>3. ASSUME NEW n \in Note, Worker(n) PROVE HubInv' /\ Quiet
    <2>1. wire' = wire \/ wire' = Append(wire, n)
      BY <1>3 DEF Worker, WorkerTake, WorkerFail, WorkerPublish, WorkerComplete
    <2>2. UNCHANGED <<entry, stream, commands, spoilt, subscribed>>
      BY <1>3 DEF Worker, WorkerTake, WorkerFail, WorkerPublish, WorkerComplete, hub
    <2>. QED BY <1>1, <2>1, <2>2, RowsHub
  <1>4. CASE Reinstate \/ UNCHANGED vars
    BY <1>1, <1>4, RowsHub DEF Reinstate, hub, vars
  <1>5. ASSUME NEW s \in Stream, Arrive(s) \/ Open(s) \/ HangUp(s) PROVE HubInv' /\ Quiet
    <2>1. HubInv'
      BY <1>5, ArriveHub, OpenHub, HangUpHub
    <2>2. PICK new : /\ stream' = [stream EXCEPT ![s] = new]
                     /\ new.heard = stream[s].heard \/ new.heard = {}
      <3>1. CASE Arrive(s)
        <4>1. stream' = [stream EXCEPT ![s] = [stream[s] EXCEPT !.pc = "arriving"]]
          BY <3>1 DEF Arrive
        <4>2. [stream[s] EXCEPT !.pc = "arriving"].heard = stream[s].heard
          BY <1>1 DEF Connection
        <4>. QED BY <4>1, <4>2
      <3>2. CASE Open(s)
        <4>1. PICK set, pc :
                stream' = [stream EXCEPT ![s] =
                  [stream[s] EXCEPT !.set = set, !.member = TRUE, !.pc = pc]]
          BY <3>2 DEF Open
        <4>2. [stream[s] EXCEPT !.set = set, !.member = TRUE, !.pc = pc].heard = stream[s].heard
          BY <1>1 DEF Connection
        <4>. QED BY <4>1, <4>2
      <3>3. CASE HangUp(s)
        <4>1. \/ stream' = [stream EXCEPT ![s] = Closed]
              \/ stream' = [stream EXCEPT ![s] = [stream[s] EXCEPT !.gone = TRUE]]
          BY <3>3 DEF HangUp, Close
        <4>. QED BY <1>1, <4>1, ClosedTyped DEF Connection
      <3>. QED BY <1>5, <3>1, <3>2, <3>3
    <2>3. Quiet
      BY <2>2 DEF HubInv
    <2>. QED BY <2>1, <2>3
  <1>6. CASE Execute
    <2>1. stream' = stream \/ \E s \in Stream : Connected(s)
      BY <1>6, SaidNext DEF Execute
    <2>2. ASSUME NEW s \in Stream, Connected(s) PROVE Quiet
      <3>1. PICK new : /\ stream' = [stream EXCEPT ![s] = new]
                       /\ \/ new = [stream[s] EXCEPT !.pc = "open"]
                          \/ new = [stream[s] EXCEPT !.pc = "open", !.gone = TRUE]
                          \/ new = Closed
        BY <2>2 DEF Connected
      <3>2. new.heard = stream[s].heard \/ new.heard = {}
        BY <1>1, <3>1, ClosedTyped DEF Connection
      <3>. QED BY <3>1, <3>2 DEF HubInv
    <2>. QED BY <1>6, <2>1, <2>2, ExecuteHub
  <1>7. CASE Refuse
    <2>1. PICK s : stream' = [stream EXCEPT ![s] = Closed]
      BY <1>7 DEF Refuse
    <2>. QED BY <1>7, <2>1, RefuseHub, ClosedTyped DEF HubInv
  <1>8. CASE Crash \/ Exit
    <2>1. Restart
      BY <1>8 DEF Crash, Exit
    <2>. QED BY <2>1, RestartHub, ClosedTyped DEF Restart
  <1>. QED BY <1>2, <1>3, <1>4, <1>5, <1>6, <1>7, <1>8, DeliverHub DEF Next

\* However streams open, close and are cut off while commands to Redis are under
\* way, the process ends up subscribed exactly while somebody listens.
THEOREM SubscribedWhileHeard == Spec => []SubscribedExactly
  <1>1. HubInv => SubscribedExactly
    BY DEF HubInv, Joined, SubscribedExactly
  <1>2. HubInv /\ [Next]_vars => HubInv'
    BY HubStep
  <1>. QED BY <1>1, <1>2, HubInit, PTL DEF Spec

\* After the news of the suspension a stream carries no other.
THEOREM SuspensionCutsOff == Spec => CutOff
  <1>1. HubInv /\ [Next]_vars =>
          [\A s \in Stream : stream[s].heard \cap Suspension # {}
             => stream'[s].heard \subseteq stream[s].heard]_vars
    BY HubStep
  <1>2. HubInv /\ [Next]_vars => HubInv'
    BY HubStep
  <1>. QED BY <1>1, <1>2, HubInit, PTL DEF Spec, CutOff

-----------------------------------------------------------------------------
(* Attempts and stalls                                                     *)

\* A job that is still to be done has an attempt left, and one that has failed none,
\* or no stall.
Fits(j) ==
  /\ j \in Job
  /\ j.state \notin {"done", "failed", "lost"} => j.attempts < MaxAttempts
  /\ j.state = "failed" => j.attempts = MaxAttempts \/ j.stalls = MaxStalls

TypeInv ==
  /\ \A n \in Note : Fits(job[n])
  /\ suspended \in BOOLEAN /\ subscribed \in BOOLEAN /\ spoilt \in BOOLEAN
  /\ faults \in 0..MaxFaults

\* Neither a step to a state of the same kind nor the end of a job breaks a limit.
LEMMA MovesFit ==
  ASSUME NEW j, Fits(j),
         NEW state \in {"none", "task", "queued", "active", "published", "done", "lost"},
         j.state \in {"done", "failed", "lost"} => state = "lost"
  PROVE  Fits([j EXCEPT !.state = state])
  BY DEF Fits, Job

LEMMA FailedFits ==
  ASSUME NEW j, Fits(j), j.state = "active"
  PROVE  Fits(AttemptFailed(j))
  <1>1. j \in Job /\ j.attempts < MaxAttempts
    BY DEF Fits
  <1>2. PICK more : more = j.attempts + 1
    OBVIOUS
  <1>3. more \in 0..MaxAttempts
    <2>1. j.attempts \in 0..MaxAttempts
      BY <1>1 DEF Job
    <2>. QED BY <1>1, <1>2, <2>1, LimitsNat
  <1>4. PICK state \in {"queued", "failed"} :
          /\ AttemptFailed(j) = [j EXCEPT !.attempts = more, !.state = state]
          /\ state = "queued" => more < MaxAttempts
          /\ state = "failed" => ~(more < MaxAttempts)
    BY <1>2 DEF AttemptFailed
  <1>5. state = "failed" => more = MaxAttempts
    BY <1>3, <1>4, LimitsNat
  <1>. QED BY <1>1, <1>3, <1>4, <1>5 DEF Fits, Job

LEMMA StalledFits ==
  ASSUME NEW j, Fits(j)
  PROVE  Fits(Stalled(j))
  <1>1. j.stalls \in 0..MaxStalls /\ MaxStalls \in Nat
    BY LimitsNat DEF Fits, Job
  <1>2. CASE j.state \notin {"active", "published"}
    BY <1>2 DEF Stalled
  <1>3. CASE j.state \in {"active", "published"} /\ j.stalls < MaxStalls
    <2>1. Stalled(j) = [j EXCEPT !.stalls = j.stalls + 1, !.state = "queued"]
      BY <1>3 DEF Stalled
    <2>2. j.stalls + 1 \in 0..MaxStalls
      BY <1>1, <1>3
    <2>. QED BY <1>3, <2>1, <2>2 DEF Fits, Job
  <1>4. CASE j.state \in {"active", "published"} /\ ~(j.stalls < MaxStalls)
    <2>1. Stalled(j) = [j EXCEPT !.state = "failed"]
      BY <1>4 DEF Stalled
    <2>2. j.stalls = MaxStalls
      BY <1>1, <1>4
    <2>. QED BY <1>4, <2>1, <2>2 DEF Fits, Job
  <1>. QED BY <1>2, <1>3, <1>4

\* The jobs after any step.
LEMMA JobsFit ==
  ASSUME DeliveryInv, TypeInv, [Next]_vars
  PROVE  \A n \in Note : Fits(job'[n])
  <1>1. job \in [Note -> JobRecord] /\ \A n \in Note : Fits(job[n])
    BY DEF DeliveryInv, TypeInv
  <1>2. ASSUME NEW n \in Note, NEW new, Fits(new), job' = [job EXCEPT ![n] = new]
        PROVE  \A m \in Note : Fits(job'[m])
    BY <1>1, <1>2
  <1>3. ASSUME NEW n \in Note, Commit(n) PROVE \A m \in Note : Fits(job'[m])
    <2>1. CASE job[n].state = "none"
      <3>1. job' = [job EXCEPT ![n] = [job[n] EXCEPT !.state = "task"]]
        BY <1>3, <2>1 DEF Commit
      <3>. QED BY <1>1, <1>2, <2>1, <3>1, MovesFit
    <2>2. CASE job[n].state # "none"
      <3>1. job' = [job EXCEPT ![n] = [job[n] EXCEPT !.state = job[n].state]]
        BY <1>3, <2>2 DEF Commit
      <3>2. [job[n] EXCEPT !.state = job[n].state] = job[n]
        BY <1>1 DEF JobRecord
      <3>. QED BY <1>1, <1>2, <3>1, <3>2
    <2>. QED BY <2>1, <2>2
  <1>4. ASSUME NEW n \in Note, Enqueue(n) PROVE \A m \in Note : Fits(job'[m])
    <2>1. job[n].state = "task"
      BY <1>4 DEF Enqueue
    <2>2. PICK state \in {"queued", "lost"} :
            job' = [job EXCEPT ![n] = [job[n] EXCEPT !.state = state]]
      BY <1>4 DEF Enqueue
    <2>. QED BY <1>1, <1>2, <2>1, <2>2, MovesFit
  <1>5. ASSUME NEW n \in Note, Worker(n) PROVE \A m \in Note : Fits(job'[m])
    <2>1. CASE WorkerFail(n)
      <3>1. job[n].state = "active" /\ job' = [job EXCEPT ![n] = AttemptFailed(job[n])]
        BY <2>1 DEF WorkerFail
      <3>. QED BY <1>1, <1>2, <3>1, FailedFits
    <2>2. CASE ~WorkerFail(n)
      <3>1. job[n].state \in {"queued", "active", "published"}
        BY <1>5, <2>2 DEF Worker, WorkerTake, WorkerPublish, WorkerComplete
      <3>2. PICK state \in {"active", "published", "done"} :
              job' = [job EXCEPT ![n] = [job[n] EXCEPT !.state = state]]
        BY <1>5, <2>2 DEF Worker, WorkerTake, WorkerPublish, WorkerComplete
      <3>. QED BY <1>1, <1>2, <3>1, <3>2, MovesFit
    <2>. QED BY <2>1, <2>2
  <1>6. CASE Restart
    <2>1. ASSUME NEW n \in Note PROVE Fits(job'[n])
      <3>1. CASE job[n].state = "task"
        <4>1. job'[n] = [job[n] EXCEPT !.state = "lost"]
          BY <1>6, <3>1 DEF Restart
        <4>. QED BY <1>1, <4>1, MovesFit
      <3>2. CASE job[n].state # "task"
        <4>1. job'[n] = Stalled(job[n])
          BY <1>6, <3>2 DEF Restart
        <4>. QED BY <1>1, <4>1, StalledFits
      <3>. QED BY <3>1, <3>2
    <2>. QED BY <2>1
  <1>7. CASE job' = job
    BY <1>1, <1>7
  <1>8. ASSUME NEW n \in Note, Insert(n) \/ RollBack(n) PROVE job' = job
    BY <1>8 DEF Insert, RollBack
  <1>9. ASSUME NEW s \in Stream, Arrive(s) \/ Open(s) \/ HangUp(s) PROVE job' = job
    BY <1>9 DEF Arrive, Open, HangUp
  <1>10. CASE Execute \/ Refuse \/ Deliver \/ Reinstate \/ UNCHANGED vars
    BY <1>7, <1>10 DEF Execute, Refuse, Deliver, Reinstate, vars
  <1>. QED BY <1>3, <1>4, <1>5, <1>6, <1>7, <1>8, <1>9, <1>10 DEF Next, Crash, Exit

LEMMA TypeStep ==
  ASSUME DeliveryInv, TypeInv, [Next]_vars
  PROVE  TypeInv'
  <1>1. faults' \in 0..MaxFaults
    <2>1. faults' = faults \/ Fault
      BY DEF Next, Insert, Commit, RollBack, Enqueue, Worker, WorkerTake, WorkerFail, WorkerPublish,
             WorkerComplete, Arrive, Open, HangUp, Execute, Refuse, Deliver, Reinstate, Crash,
             Exit, vars
    <2>2. faults \in 0..MaxFaults
      BY DEF TypeInv
    <2>. QED BY <2>1, <2>2, LimitsNat DEF Fault
  <1>2. suspended' \in BOOLEAN
    BY Zenon DEF TypeInv, Next, Insert, Commit, RollBack, Enqueue, Worker, WorkerTake, WorkerFail, WorkerPublish,
             WorkerComplete, Arrive, Open, HangUp, Execute, Refuse, Deliver, Reinstate, Crash,
             Exit, Restart, vars, rows
  <1>3. subscribed' \in BOOLEAN
    BY Zenon DEF TypeInv, Next, Insert, Commit, RollBack, Enqueue, Worker, WorkerTake, WorkerFail, WorkerPublish,
             WorkerComplete, Arrive, Open, HangUp, Execute, Refuse, Deliver, Reinstate, Crash,
             Exit, Restart, vars
  <1>4. spoilt' \in BOOLEAN
    BY Zenon DEF TypeInv, Next, Insert, Commit, RollBack, Enqueue, Worker, WorkerTake, WorkerFail, WorkerPublish,
             WorkerComplete, Arrive, Open, HangUp, Execute, Refuse, Deliver, Reinstate, Crash,
             Exit, Restart, vars, hub
  <1>. QED BY <1>1, <1>2, <1>3, <1>4, JobsFit DEF TypeInv

\* Every state is typed; above all, no job is tried or taken again more often than its
\* limits allow, and one fails only when it has used one of them up.
THEOREM TypeCorrect == Spec => []TypeOK
  <1>1. Init => TypeInv
    <2>1. 0 \in 0..MaxAttempts /\ 0 < MaxAttempts /\ 0 \in 0..MaxStalls /\ 0 \in 0..MaxFaults
      BY LimitsNat
    <2>2. Fits(NoJob)
      BY <2>1 DEF Fits, NoJob, Job
    <2>. QED BY <2>1, <2>2 DEF Init, TypeInv
  <1>2. DeliveryInv /\ TypeInv /\ [Next]_vars => TypeInv'
    BY TypeStep
  <1>3. DeliveryInv /\ HubInv /\ TypeInv => TypeOK
    BY DEF DeliveryInv, HubInv, TypeInv, TypeOK, Fits, Job
  <1>4. DeliveryInv /\ [Next]_vars => DeliveryInv'
    BY DeliveryStep
  <1>5. HubInv /\ [Next]_vars => HubInv'
    BY HubStep
  <1>. QED BY <1>1, <1>2, <1>3, <1>4, <1>5, DeliveryInit, HubInit, PTL DEF Spec
=============================================================================
