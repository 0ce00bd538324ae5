--------------------------- MODULE ConversationProof ---------------------------
(***************************************************************************)
(* Theorems about the conversation of a Requirement with its Agents, for   *)
(* every number of Runs, turns and messages, every set of request ids and  *)
(* every number of crashes, failures and commands.                         *)
(***************************************************************************)
EXTENDS Conversation, FiniteSetTheorems, TLAPS

----------------------------------------------------------------------------
(* The inductive invariant. *)

\* what the app-server sends: a request of the Agent, or an event of the turn
Requested == [kind : ToolKinds, rpc : Rpcs, turn : Nat]
Messages == Requested \cup [kind : {"turn/completed", "started"}, rpc : {0}, turn : Nat]

Places == {"idle", "restore", "prepare", "bind", "open", "thread", "input", "dispatch", "close"}
          \cup Talking
Serving == {"tool", "broker", "result", "reply"}

SessionRecs == [open : BOOLEAN, connected : BOOLEAN, turn : 0..MaxTurns, waiting : BOOLEAN,
                ended : {"none", "completion", "blocker"}]
JobRecs == [status : {"none", "restoring", "prepared", "dispatched"}, inc : Nat]
BoundRecs == [runs : 1..MaxRuns, turns : 1..MaxTurns, rpcs : SUBSET Rpcs,
              tools : SUBSET ToolKinds, crash : Nat, failure : Nat, command : Nat]

TypeControl == epoch \in Nat /\ paused \in BOOLEAN
TypeRun ==
    /\ run \in [Runs -> {"none", "live", "quiescent"}] /\ inc \in [Runs -> 0..epoch]
    /\ stop \in [Runs -> BOOLEAN] /\ wanted \in [Runs -> BOOLEAN]
TypeSession == session \in [Runs -> SessionRecs]
TypeProtocol ==
    /\ request \in [Requests -> {"none", "open", "done", "refused"}]
    /\ original \in [Requests -> ToolKinds \cup {"none"}]
    /\ operation \in [Requests -> {"none", "pending", "partial", "complete"}]
TypeQuestion == question \in [Questions -> {"none", "waiting", "pending", "live", "linked"}]
TypeJob == job \in [Runs -> JobRecs]
TypeWorker ==
    /\ worker = [at |-> worker.at, run |-> worker.run, message |-> worker.message,
                 answers |-> worker.answers]
    /\ worker.at \in Places /\ worker.answers \subseteq Questions
    /\ worker.at # "idle" => worker.run \in Runs
    /\ worker.at = "event" => worker.message \in Messages
    /\ worker.at \in Serving => worker.message \in Requested /\ worker.message.kind # "ask"
TypeQueues ==
    /\ pending \in Seq(Messages) /\ Len(pending) <= MaxQueue
    /\ wire \in Seq(Messages) /\ Len(wire) <= MaxQueue + 1
    /\ (\A i \in DOMAIN wire : wire[i].kind # "started") => Len(wire) <= MaxQueue
TypeAgent ==
    /\ turn \in [Runs -> 0..MaxTurns] /\ told \in [Runs -> SUBSET Questions]
    /\ reply \in [Requests -> {"none", "done", "refused"}]
TypeBounds == bounds \in BoundRecs
Types ==
    /\ TypeControl /\ TypeRun /\ TypeSession /\ TypeProtocol /\ TypeQuestion /\ TypeJob
    /\ TypeWorker /\ TypeQueues /\ TypeAgent /\ TypeBounds

\* Runs are numbered without a gap, and only the last one is live
Numbered ==
    /\ Latest \in Runs
    /\ \A n \in Runs : run[n] # "none" <=> n <= Latest
    /\ OneLiveRun

\* a Run asks only in a turn, has turns only in a session, and an end stops it
Stages ==
    \A n \in Runs :
        /\ run[n] = "none" => ~session[n].open /\ session[n].ended = "none" /\ ~session[n].waiting
        /\ ~session[n].open => turn[n] = 0
        /\ turn[n] = 0 => \A q \in Questions : q[1] = n => question[q] = "none"
        /\ session[n].ended # "none" => stop[n]

\* a request has an operation only as a commit, and succeeds only with its operation
RowsAgree ==
    \A r \in Requests :
        /\ request[r] = "none" => operation[r] = "none"
        /\ request[r] = "done" /\ original[r] = "commit" => operation[r] = "complete"
        /\ operation[r] # "none" => original[r] = "commit"
        /\ reply[r] # "none" => reply[r] = request[r]

\* what the worker holds of the Run it works on, which is the newest
Served == <<worker.run, worker.message.rpc>>
WorkerKnows ==
    /\ worker.at # "idle" => worker.run = Latest
    /\ worker.at \in {"thread", "input"} => session[worker.run].open /\ turn[worker.run] = 0
    /\ worker.at = "dispatch" =>
          /\ session[worker.run].open
          /\ Unheard(worker.run) = {}
          /\ turn[worker.run] = 0 =>
                \A q \in Questions : q[1] < worker.run /\ question[q] # "none" => q \in worker.answers
    /\ worker.at \in Talking => turn[worker.run] > 0
    /\ worker.at \in {"deliver", "delivered"} => \A q \in worker.answers : q[1] = worker.run
    /\ worker.at = "delivered" => worker.message \in worker.answers /\ worker.message \in told[worker.run]
    /\ worker.at \in {"tool", "broker", "result"} =>
          request[Served] = "open" /\ original[Served] = worker.message.kind
    /\ worker.at \in {"broker", "result"} => original[Served] = "commit"
    /\ worker.at = "broker" => operation[Served] = "pending"
    /\ worker.at = "result" => operation[Served] = "complete"
    /\ worker.at = "reply" => request[Served] \in {"done", "refused"}

IInv ==
    /\ Types /\ Numbered /\ Stages /\ RowsAgree /\ WorkerKnows
    /\ OnlyNewestAsks /\ EveryAnswerHeard /\ DeliveredWasSent /\ WaitingIsAsking /\ EndedClean

----------------------------------------------------------------------------
(* Sequences, the number of Runs, and who writes what. *)

LEMMA TailOf ==
  ASSUME NEW S, NEW s \in Seq(S), s # <<>>
  PROVE  /\ Tail(s) \in Seq(S) /\ Len(Tail(s)) = Len(s) - 1
         /\ Head(s) = s[1] /\ Head(s) \in S
  OBVIOUS

LEMMA AppendOf ==
  ASSUME NEW S, NEW s \in Seq(S), NEW m \in S
  PROVE  /\ Append(s, m) \in Seq(S) /\ Len(Append(s, m)) = Len(s) + 1
         /\ Len(s) + 1 \in DOMAIN Append(s, m) /\ Append(s, m)[Len(s) + 1] = m
  OBVIOUS

LEMMA CountRuns ==
  ASSUME NEW k \in Nat, NEW f, \A n \in Runs : f[n] # "none" <=> n <= k, k <= MaxRuns, MaxRuns \in Nat
  PROVE  Cardinality({n \in Runs : f[n] # "none"}) = k
  <1>1. {n \in Runs : f[n] # "none"} = 1..k BY DEF Runs
  <1>2. Cardinality(1..k) = IF 1 > k THEN 0 ELSE k - 1 + 1 BY ONLY k \in Nat, 1 \in Int, k \in Int, FS_Interval
  <1>3. (IF 1 > k THEN 0 ELSE k - 1 + 1) = k OBVIOUS
  <1> QED BY <1>1, <1>2, <1>3

LEMMA RunWrites == ASSUME Next
  PROVE  \/ UNCHANGED <<run, inc>>
         \/ \E s, n \in Runs : Bind(s, n)
         \/ \E n \in Runs : Quiesce(n)
  <1>1. ASSUME NEW n \in Runs, Work(n) PROVE UNCHANGED <<run, inc>> \/ \E m \in Runs : Bind(n, m)
    BY <1>1, ZenonT(60) DEF Work, Reserved, NextJob, Restore, Prepare, Open, Thread, Input, Dispatch,
      Response, Guard, Answers, Deliver, Delivered, Step, TurnCompleted, Ask, Request, End, Commit,
      Broker, Result, Reply, Close, agentRun
  <1>2. CASE ~\E n \in Runs : Work(n)
    BY <1>2 DEF Next, Started, Expire, ClientFails, Say, Answer, Pause, Unpause, Recheck, Crash, agentRun
  <1> QED BY <1>1, <1>2

LEMMA SessionWrites == ASSUME Next
  PROVE  \/ UNCHANGED session
         \/ \E n \in Runs : \/ Open(n) \/ Thread(n) \/ Response(n) \/ Guard(n) \/ Delivered(n)
                            \/ Ask(n) \/ End(n) \/ Close(n) \/ Expire(n)
  <1>1. ASSUME NEW n \in Runs, Work(n)
        PROVE  UNCHANGED session \/ Open(n) \/ Thread(n) \/ Response(n) \/ Guard(n) \/ Delivered(n)
               \/ Ask(n) \/ End(n) \/ Close(n)
    BY <1>1, ZenonT(60) DEF Work, Reserved, NextJob, Restore, Prepare, Bind, Input, Dispatch, Answers,
      Deliver, Step, TurnCompleted, Request, Commit, Broker, Result, Reply
  <1>2. CASE ~\E n \in Runs : Work(n)
    BY <1>2 DEF Next, Started, Quiesce, ClientFails, Say, Answer, Pause, Unpause, Recheck,
      Crash
  <1> QED BY <1>1, <1>2

LEMMA StopWrites == ASSUME Next
  PROVE  \/ UNCHANGED stop
         \/ \E n \in Runs : End(n) \/ Broker(n) \/ Close(n) \/ Expire(n)
         \/ Pause
  <1>1. ASSUME NEW n \in Runs, Work(n)
        PROVE  UNCHANGED stop \/ End(n) \/ Broker(n) \/ Close(n)
    BY <1>1, ZenonT(60) DEF Work, Reserved, NextJob, Restore, Prepare, Bind, Open, Thread, Input,
      Dispatch, Response, Guard, Answers, Deliver, Delivered, Step, TurnCompleted, Ask, Request,
      Commit, Result, Reply, agentRun
  <1>2. CASE ~\E n \in Runs : Work(n)
    BY <1>2 DEF Next, Started, Quiesce, ClientFails, Say, Answer, Unpause, Recheck, Crash,
      agentRun
  <1> QED BY <1>1, <1>2

LEMMA ProtocolWrites == ASSUME Next
  PROVE  \/ UNCHANGED protocol
         \/ \E n \in Runs : Request(n) \/ End(n) \/ Commit(n) \/ Broker(n) \/ Result(n)
  <1>1. ASSUME NEW n \in Runs, Work(n)
        PROVE  UNCHANGED protocol \/ Request(n) \/ End(n) \/ Commit(n) \/ Broker(n) \/ Result(n)
    BY <1>1, ZenonT(60) DEF Work, Reserved, NextJob, Restore, Prepare, Bind, Open, Thread, Input,
      Dispatch, Response, Guard, Answers, Deliver, Delivered, Step, TurnCompleted, Ask, Reply,
      Close
  <1>2. CASE ~\E n \in Runs : Work(n)
    BY <1>2 DEF Next, Started, Quiesce, Expire, ClientFails, Say, Answer, Pause, Unpause,
      Recheck, Crash
  <1> QED BY <1>1, <1>2

LEMMA QuestionWrites == ASSUME Next
  PROVE  \/ UNCHANGED question
         \/ \E n \in Runs : Delivered(n) \/ Ask(n)
         \/ \E s, n \in Runs : Bind(s, n)
         \/ \E q \in Questions : Answer(q)
  <1>1. ASSUME NEW n \in Runs, Work(n)
        PROVE  UNCHANGED question \/ Delivered(n) \/ Ask(n) \/ \E m \in Runs : Bind(n, m)
    BY <1>1, ZenonT(60) DEF Work, Reserved, NextJob, Restore, Prepare, Open, Thread, Input, Dispatch,
      Response, Guard, Answers, Deliver, Step, TurnCompleted, Request, End, Commit, Broker,
      Result, Reply, Close
  <1>2. CASE ~\E n \in Runs : Work(n)
    BY <1>2 DEF Next, Started, Quiesce, Expire, ClientFails, Say, Pause, Unpause, Recheck,
      Crash
  <1> QED BY <1>1, <1>2

LEMMA AgentWrites == ASSUME Next
  PROVE  /\ UNCHANGED turn \/ \E n \in Runs : Dispatch(n)
         /\ UNCHANGED told \/ \E n \in Runs : Dispatch(n) \/ Deliver(n)
         /\ UNCHANGED reply \/ \E n \in Runs : Reply(n)
  <1>1. UNCHANGED turn \/ \E n \in Runs : Dispatch(n)
    <2>1. ASSUME NEW n \in Runs, Work(n) PROVE UNCHANGED turn \/ Dispatch(n)
      BY <2>1, ZenonT(60) DEF Work, Reserved, NextJob, Restore, Prepare, Bind, Open, Thread, Input,
        Response, Guard, Answers, Delivered, Step, TurnCompleted, Ask, Request, End, Commit, Broker,
        Result, Close, agent, Deliver, Reply
    <2>2. CASE ~\E n \in Runs : Work(n)
      BY <2>2 DEF Next, Started, Quiesce, Expire, ClientFails, Say, Answer, Pause, Unpause,
        Recheck, Crash, agent
    <2> QED BY <2>1, <2>2
  <1>2. UNCHANGED told \/ \E n \in Runs : Dispatch(n) \/ Deliver(n)
    <2>1. ASSUME NEW n \in Runs, Work(n) PROVE UNCHANGED told \/ Dispatch(n) \/ Deliver(n)
      BY <2>1, ZenonT(60) DEF Work, Reserved, NextJob, Restore, Prepare, Bind, Open, Thread, Input,
        Response, Guard, Answers, Delivered, Step, TurnCompleted, Ask, Request, End, Commit, Broker,
        Result, Close, agent, Reply
    <2>2. CASE ~\E n \in Runs : Work(n)
      BY <2>2 DEF Next, Started, Quiesce, Expire, ClientFails, Say, Answer, Pause, Unpause,
        Recheck, Crash, agent
    <2> QED BY <2>1, <2>2
  <1>3. UNCHANGED reply \/ \E n \in Runs : Reply(n)
    <2>1. ASSUME NEW n \in Runs, Work(n) PROVE UNCHANGED reply \/ Reply(n)
      BY <2>1, ZenonT(60) DEF Work, Reserved, NextJob, Restore, Prepare, Bind, Open, Thread, Input,
        Response, Guard, Answers, Delivered, Step, TurnCompleted, Ask, Request, End, Commit, Broker,
        Result, Close, agent, Dispatch, Deliver
    <2>2. CASE ~\E n \in Runs : Work(n)
      BY <2>2 DEF Next, Started, Quiesce, Expire, ClientFails, Say, Answer, Pause, Unpause,
        Recheck, Crash, agent
    <2> QED BY <2>1, <2>2
  <1> QED BY <1>1, <1>2, <1>3

----------------------------------------------------------------------------
(* Types, part by part: what a step leaves alone is kept by TypeKept. *)

LEMMA TypeKept == Types =>
    /\ UNCHANGED control => TypeControl'
    /\ UNCHANGED <<control, agentRun>> => TypeRun'
    /\ UNCHANGED session => TypeSession'
    /\ UNCHANGED protocol => TypeProtocol'
    /\ UNCHANGED question => TypeQuestion'
    /\ UNCHANGED job => TypeJob'
    /\ UNCHANGED worker => TypeWorker'
    /\ UNCHANGED <<pending, wire>> => TypeQueues'
    /\ UNCHANGED <<turn, told, reply>> => TypeAgent'
    /\ UNCHANGED bounds => TypeBounds'
  BY DEF Types, TypeControl, TypeRun, TypeSession, TypeProtocol, TypeQuestion, TypeJob,
    TypeWorker, TypeQueues, TypeAgent, TypeBounds, control, agentRun, protocol

\* the ways in which the worker moves on
LEMMA WorkerGoes ==
  ASSUME NEW pc \in Places \ (Serving \cup {"event", "delivered"}), NEW n \in Runs, Go(pc, n)
  PROVE  /\ TypeWorker' /\ worker'.at = pc /\ worker'.run = n /\ worker'.answers = {}
  BY DEF TypeWorker, Go, Idle

LEMMA WorkerRests == ASSUME worker' = Idle PROVE TypeWorker' /\ worker'.at = "idle"
  BY DEF TypeWorker, Idle, Places, Serving

LEMMA WorkerServes ==
  ASSUME TypeWorker, worker.at \in Serving \cup {"event"}, worker.message \in Requested,
         worker.message.kind # "ask", NEW pc \in Serving, worker' = [worker EXCEPT !.at = pc]
  PROVE  /\ TypeWorker' /\ worker'.at = pc /\ worker'.run = worker.run
         /\ worker'.message = worker.message
  BY DEF TypeWorker, Serving, Places, Talking

LEMMA SessionTyped ==
  ASSUME TypeSession, NEW n \in Runs, NEW s \in SessionRecs, session' = [session EXCEPT ![n] = s]
  PROVE  TypeSession'
  BY DEF TypeSession

LEMMA DisconnectedTyped == TypeSession => Disconnected \in [Runs -> SessionRecs]
  BY DEF TypeSession, SessionRecs, Disconnected

LEMMA BoundsSpent ==
  ASSUME TypeBounds, NEW event \in {"crash", "failure", "command"}, May(event)
  PROVE  TypeBounds'
  <1>1. bounds[event] \in Nat /\ bounds[event] > 0 BY DEF TypeBounds, BoundRecs, May
  <1>2. bounds[event] - 1 \in Nat BY <1>1
  <1>3. bounds' = [bounds EXCEPT ![event] = bounds[event] - 1] BY DEF May
  <1> HIDE DEF May
  <1>4. CASE event = "crash" BY <1>2, <1>3, <1>4 DEF TypeBounds, BoundRecs
  <1>5. CASE event = "failure" BY <1>2, <1>3, <1>5 DEF TypeBounds, BoundRecs
  <1>6. CASE event = "command" BY <1>2, <1>3, <1>6 DEF TypeBounds, BoundRecs
  <1> QED BY <1>4, <1>5, <1>6

LEMMA SaidTyped ==
  ASSUME ConversationAssumption, TypeBounds, NEW m \in Said
  PROVE  m \in Messages
  BY DEF TypeBounds, BoundRecs, Said, Messages, Requested, ConversationAssumption

LEMMA ServedTyped ==
  ASSUME TypeWorker, worker.at \in Serving
  PROVE  Served \in Requests /\ worker.run \in Runs /\ worker.message \in Requested
         /\ worker.message.kind \in ToolKinds /\ worker.message.kind # "ask"
         /\ <<worker.run, worker.message.rpc>> \in Requests
  BY DEF TypeWorker, Serving, Requested, Served, Requests

LEMMA EventTyped ==
  ASSUME TypeWorker, worker.at = "event"
  PROVE  /\ worker.run \in Runs
         /\ worker.message.kind \in ToolKinds =>
               /\ worker.message \in Requested
               /\ <<worker.run, worker.message.rpc>> \in Requests
               /\ <<worker.run, worker.message.rpc>> \in Questions
  BY DEF TypeWorker, Serving, Messages, Requested, Requests, Questions, ToolKinds

LEMMA LatestIs ==
  ASSUME ConversationAssumption, NEW k \in Runs, \A n \in Runs : run[n] # "none" <=> n <= k
  PROVE  Latest = k
  BY CountRuns DEF Latest, Runs, ConversationAssumption

LEMMA TypeInit == Init => Types /\ Numbered
  <1> SUFFICES ASSUME Init PROVE Types /\ Numbered OBVIOUS
  <1>0. 1 \in Runs /\ MaxRuns \in Nat BY ConversationAssumption DEF ConversationAssumption, Runs
  <1>1. TypeControl /\ TypeRun
    <2>1. epoch = 1 /\ 0 \in 0..epoch /\ 1 \in 0..epoch BY DEF Init
    <2>2. inc \in [Runs -> 0..epoch]
      <3>1. \A n \in Runs : (IF n = 1 THEN 1 ELSE 0) \in 0..epoch BY <2>1
      <3> QED BY <3>1 DEF Init
    <2>3. run \in [Runs -> {"none", "live", "quiescent"}] BY DEF Init
    <2>4. stop \in [Runs -> BOOLEAN] /\ wanted \in [Runs -> BOOLEAN] BY DEF Init
    <2>5. TypeControl BY DEF Init, TypeControl
    <2> QED BY <2>2, <2>3, <2>4, <2>5 DEF TypeRun
  <1>2. TypeSession /\ TypeJob BY ConversationAssumption
    DEF ConversationAssumption, Init, TypeSession, TypeJob, SessionRecs, JobRecs, NoSession, NoJob
  <1>3. TypeProtocol /\ TypeQuestion BY DEF Init, TypeProtocol, TypeQuestion
  <1>4. TypeWorker BY DEF Init, TypeWorker, Idle, Places, Serving
  <1>5. TypeQueues BY ConversationAssumption DEF ConversationAssumption, Init, TypeQueues
  <1>6. TypeAgent BY ConversationAssumption DEF ConversationAssumption, Init, TypeAgent
  <1>7. TypeBounds BY ConversationAssumption
    DEF ConversationAssumption, Init, TypeBounds, BoundRecs
  <1>8. \A n \in Runs : run[n] # "none" <=> n <= 1 BY <1>0 DEF Init, Runs
  <1>9. Latest = 1 BY <1>0, <1>8, LatestIs, ConversationAssumption
  <1>10. Numbered BY <1>0, <1>8, <1>9 DEF Numbered, OneLiveRun, Init
  <1> QED BY <1>1, <1>2, <1>3, <1>4, <1>5, <1>6, <1>7, <1>10 DEF Types

LEMMA TypeStep == ASSUME ConversationAssumption, Types, WorkerKnows, [Next]_vars PROVE Types'
  <1> USE TypeKept DEF Types
  <1>1. ASSUME NEW n \in Runs, Reserved(n) PROVE Types'
    <2>1. TypeWorker' BY <1>1, WorkerGoes DEF Reserved, Places, Serving
    <2> QED BY <1>1, <2>1 DEF Reserved, agent
  <1>2. ASSUME NEW n \in Runs, NextJob(n) PROVE Types'
    <2>1. TypeWorker' BY <1>2, WorkerGoes DEF NextJob, Places, Serving
    <2>2. TypeJob' BY <1>2 DEF NextJob, TypeJob, JobRecs, TypeControl
    <2> QED BY <1>2, <2>1, <2>2 DEF NextJob, agent
  <1>3. ASSUME NEW n \in Runs, Restore(n) PROVE Types'
    <2>1. TypeWorker' BY <1>3, WorkerGoes, WorkerRests DEF Restore, Places, Serving
    <2>2. TypeJob' BY <1>3 DEF Restore, TypeJob, JobRecs
    <2> QED BY <1>3, <2>1, <2>2 DEF Restore, agent
  <1>4. ASSUME NEW n \in Runs, Prepare(n) PROVE Types'
    <2>1. TypeWorker' BY <1>4, WorkerGoes, WorkerRests DEF Prepare, Places, Serving
    <2> QED BY <1>4, <2>1 DEF Prepare, agent
  <1>5. ASSUME NEW s \in Runs, NEW n \in Runs, Bind(s, n) PROVE Types'
    <2>1. TypeWorker' BY <1>5, WorkerGoes, WorkerRests DEF Bind, Places, Serving
    <2>2. TypeJob' BY <1>5 DEF Bind, TypeJob, JobRecs
    <2>3. TypeRun' BY <1>5 DEF Bind, TypeRun, TypeControl, Resumable, control
    <2>4. TypeQuestion' BY <1>5 DEF Bind, TypeQuestion, LinkAnswers
    <2> QED BY <1>5, <2>1, <2>2, <2>3, <2>4 DEF Bind, agent
  <1>6. ASSUME NEW n \in Runs, Open(n) PROVE Types'
    <2>1. TypeWorker' BY <1>6, WorkerGoes, WorkerRests DEF Open, Places, Serving
    <2>2. session' = session \/ session' = [session EXCEPT ![n].open = TRUE] BY <1>6 DEF Open
    <2>3. TypeSession' BY <2>2, ZenonT(60) DEF TypeSession, SessionRecs
    <2> QED BY <1>6, <2>1, <2>3 DEF Open, agent
  <1>7. ASSUME NEW n \in Runs, Thread(n) PROVE Types'
    <2>1. TypeWorker' BY <1>7, WorkerGoes DEF Thread, Fails, Places, Serving
    <2>2. session' = session \/ session' = [session EXCEPT ![n].connected = TRUE]
      BY <1>7 DEF Thread
    <2>3. TypeSession' BY <2>2, ZenonT(60) DEF TypeSession, SessionRecs
    <2> QED BY <1>7, <2>1, <2>3 DEF Thread, agent
  <1>8. ASSUME NEW n \in Runs, Input(n) PROVE Types'
    <2>1. TypeWorker' BY <1>8 DEF Input, At, TypeWorker, Places, Serving, Confirmed
    <2> QED BY <1>8, <2>1 DEF Input, agent
  <1>9. ASSUME NEW n \in Runs, Dispatch(n) PROVE Types'
    <2>1. TypeWorker' BY <1>9, WorkerGoes DEF Dispatch, Fails, Places, Serving, Talking
    <2>2. TypeAgent'
      <3>1. turn[n] < bounds.turns => turn[n] + 1 \in 0..MaxTurns
        BY ConversationAssumption DEF TypeAgent, TypeBounds, BoundRecs, ConversationAssumption
      <3> QED BY <1>9, <3>1 DEF Dispatch, TypeAgent, TypeWorker
    <2> QED BY <1>9, <2>1, <2>2 DEF Dispatch
  <1>10. ASSUME NEW n \in Runs, Response(n) PROVE Types'
    <2>1. TypeWorker' BY <1>10, WorkerGoes DEF Response, Fails, Places, Serving, Talking
    <2>2. TypeSession'
      <3>1. session' = session \/ session' = [session EXCEPT ![n].turn = turn[n]]
        BY <1>10 DEF Response, TypeSession, SessionRecs
      <3> QED BY <3>1 DEF TypeSession, SessionRecs, TypeAgent
    <2>3. TypeQueues'
      <3>1. /\ wire' \in Seq(Messages) /\ Len(wire') = Len(wire) - 1 /\ Head(wire) \in Messages
        BY <1>10, TailOf DEF Response, TypeQueues
      <3>2. pending' \in Seq(Messages) /\ Len(pending') <= MaxQueue
        <4>1. pending' = pending \/ (pending' = Append(pending, Head(wire)) /\ Len(pending) < MaxQueue)
          BY <1>10 DEF Response, DeferFits
        <4>2. /\ Append(pending, Head(wire)) \in Seq(Messages)
              /\ Len(Append(pending, Head(wire))) = Len(pending) + 1
          BY <3>1, AppendOf DEF TypeQueues
        <4>3. Len(pending) \in Nat /\ MaxQueue \in Nat /\ Len(pending) <= MaxQueue
          BY ConversationAssumption DEF TypeQueues, ConversationAssumption
        <4>4. CASE pending' = pending BY <4>4 DEF TypeQueues
        <4>5. CASE pending' = Append(pending, Head(wire)) /\ Len(pending) < MaxQueue
          BY <4>2, <4>3, <4>5
        <4> QED BY <4>1, <4>4, <4>5
      <3> QED BY <3>1, <3>2, ConversationAssumption DEF TypeQueues, ConversationAssumption
    <2> QED BY <1>10, <2>1, <2>2, <2>3 DEF Response
  <1>11. ASSUME NEW n \in Runs, Guard(n) PROVE Types'
    <2>1. TypeWorker' BY <1>11, WorkerGoes DEF Guard, Places, Serving, Talking
    <2>2. TypeSession' BY <1>11, DisconnectedTyped DEF Guard, TypeSession
    <2> QED BY <1>11, <2>1, <2>2 DEF Guard, agent
  <1>12. ASSUME NEW n \in Runs, Answers(n) PROVE Types'
    <2>1. TypeWorker' BY <1>12 DEF Answers, At, TypeWorker, Places, Serving, Talking, Of
    <2> QED BY <1>12, <2>1 DEF Answers, agent
  <1>13. ASSUME NEW n \in Runs, Deliver(n) PROVE Types'
    <2>1. TypeWorker'
      BY <1>13, WorkerGoes DEF Deliver, Fails, At, TypeWorker, Places, Serving, Talking
    <2>2. told' = told \/ \E q \in worker.answers : told' = [told EXCEPT ![n] = @ \cup {q}]
      BY <1>13 DEF Deliver
    <2>3. TypeAgent'
      <3>1. worker.answers \subseteq Questions BY DEF TypeWorker
      <3>2. told' \in [Runs -> SUBSET Questions] BY <2>2, <3>1 DEF TypeAgent
      <3> QED BY <1>13, <3>2 DEF Deliver, TypeAgent
    <2> QED BY <1>13, <2>1, <2>3 DEF Deliver
  <1>14. ASSUME NEW n \in Runs, Delivered(n) PROVE Types'
    <2>1. TypeWorker'
      BY <1>14, WorkerGoes, ZenonT(60) DEF Delivered, Fails, At, TypeWorker, Places, Serving, Talking
    <2>2. TypeQuestion' BY <1>14 DEF Delivered, TypeQuestion
    <2>3. PICK v \in BOOLEAN : session' = session \/ session' = [session EXCEPT ![n].waiting = v]
      BY <1>14 DEF Delivered, StillWaiting
    <2>4. TypeSession' BY <2>3 DEF TypeSession, SessionRecs
    <2> QED BY <1>14, <2>1, <2>2, <2>4 DEF Delivered, agent
  <1>15. ASSUME NEW n \in Runs, Step(n) PROVE Types'
    <2>1. /\ pending # <<>> => Tail(pending) \in Seq(Messages) /\ Len(Tail(pending)) = Len(pending) - 1
                              /\ Head(pending) \in Messages
          /\ wire # <<>> => Tail(wire) \in Seq(Messages) /\ Len(Tail(wire)) = Len(wire) - 1
                           /\ Head(wire) \in Messages
      BY TailOf DEF TypeQueues
    <2>2. TypeWorker'
      BY <1>15, <2>1, WorkerGoes DEF Step, At, TypeWorker, Places, Serving, Talking
    <2>3. TypeQueues'
      <3>1. /\ pending' = pending \/ (pending # <<>> /\ pending' = Tail(pending))
            /\ wire' = wire \/ (wire # <<>> /\ wire' = Tail(wire))
        BY <1>15 DEF Step
      <3>2. pending' \in Seq(Messages) /\ Len(pending') <= MaxQueue
        <4>1. Len(pending) \in Nat /\ MaxQueue \in Nat /\ Len(pending) <= MaxQueue
              /\ pending \in Seq(Messages)
          BY ConversationAssumption DEF TypeQueues, ConversationAssumption
        <4>2. CASE pending' = pending BY <4>1, <4>2
        <4>3. CASE pending # <<>> /\ pending' = Tail(pending) BY <2>1, <4>1, <4>3
        <4> QED BY <3>1, <4>2, <4>3
      <3>3. CASE wire' = wire BY <3>2, <3>3 DEF TypeQueues
      <3>4. CASE wire # <<>> /\ wire' = Tail(wire)
        BY <2>1, <3>2, <3>4, ConversationAssumption DEF TypeQueues, ConversationAssumption
      <3> QED BY <3>1, <3>3, <3>4
    <2> QED BY <1>15, <2>2, <2>3 DEF Step
  <1>16. ASSUME NEW n \in Runs, TurnCompleted(n) PROVE Types'
    <2>1. TypeWorker' BY <1>16, WorkerGoes DEF TurnCompleted, Places, Serving, Talking
    <2> QED BY <1>16, <2>1 DEF TurnCompleted, agent
  <1>17. ASSUME NEW n \in Runs, Ask(n) PROVE Types'
    <2>1. TypeWorker' BY <1>17, WorkerGoes DEF Ask, Fails, Places, Serving, Talking
    <2>2. TypeQuestion' BY <1>17 DEF Ask, TypeQuestion
    <2>3. session' = session \/ session' = [session EXCEPT ![n].waiting = TRUE]
      BY <1>17 DEF Ask
    <2>4. TypeSession' BY <2>3, ZenonT(60) DEF TypeSession, SessionRecs
    <2> QED BY <1>17, <2>1, <2>2, <2>4 DEF Ask, agent
  <1>18. ASSUME NEW n \in Runs, Request(n) PROVE Types'
    <2>0. /\ worker.at = "event" /\ worker.run = n /\ worker.message.kind \in ToolKinds
          /\ worker.message \in Requested /\ worker.message.kind # "ask"
      BY <1>18, EventTyped DEF Request, At
    <2>1. TypeWorker'
      BY <1>18, <2>0, WorkerGoes, WorkerServes DEF Request, Fails, Places, Serving
    <2>2. TypeProtocol' BY <1>18, <2>0 DEF Request, TypeProtocol
    <2> QED BY <1>18, <2>1, <2>2 DEF Request, agent
  <1>19. ASSUME NEW n \in Runs, End(n) PROVE Types'
    <2>0. worker.at = "tool" BY <1>19 DEF End, At
    <2>1. TypeWorker' BY <1>19, <2>0, ServedTyped, WorkerServes DEF End, Serving
    <2>2. TypeProtocol' BY <1>19 DEF End, TypeProtocol
    <2>3. TypeSession'
      <3>1. worker.message.kind \in {"completion", "blocker"} BY <1>19 DEF End
      <3>2. session' = session \/ session' = [session EXCEPT ![n].ended = worker.message.kind]
        BY <1>19 DEF End
      <3> QED BY <3>1, <3>2 DEF TypeSession, SessionRecs
    <2>4. TypeRun' BY <1>19 DEF End, TypeRun, control
    <2> QED BY <1>19, <2>1, <2>2, <2>3, <2>4 DEF End, agent
  <1>20. ASSUME NEW n \in Runs, Commit(n) PROVE Types'
    <2>0. worker.at = "tool" BY <1>20 DEF Commit, At
    <2>1. TypeWorker' BY <1>20, <2>0, ServedTyped, WorkerServes DEF Commit, Serving
    <2>2. TypeProtocol' BY <1>20 DEF Commit, TypeProtocol
    <2> QED BY <1>20, <2>1, <2>2 DEF Commit, agent
  <1>21. ASSUME NEW n \in Runs, Broker(n) PROVE Types'
    <2>0. worker.at = "broker" BY <1>21 DEF Broker, At
    <2>1. TypeWorker' BY <1>21, <2>0, ServedTyped, WorkerServes DEF Broker, Serving
    <2>2. TypeProtocol' BY <1>21 DEF Broker, TypeProtocol
    <2>3. TypeRun' BY <1>21 DEF Broker, TypeRun, control
    <2>4. TypeBounds' BY <1>21, BoundsSpent DEF Broker
    <2> QED BY <1>21, <2>1, <2>2, <2>3, <2>4 DEF Broker, agent
  <1>22. ASSUME NEW n \in Runs, Result(n) PROVE Types'
    <2>0. worker.at = "result" BY <1>22 DEF Result, At
    <2>1. TypeWorker' BY <1>22, <2>0, ServedTyped, WorkerServes DEF Result, Serving
    <2>2. TypeProtocol' BY <1>22 DEF Result, TypeProtocol
    <2> QED BY <1>22, <2>1, <2>2 DEF Result, agent
  <1>23. ASSUME NEW n \in Runs, Reply(n) PROVE Types'
    <2>0. worker.at = "reply" /\ worker.run = n BY <1>23 DEF Reply, At
    <2>1. TypeWorker' BY <1>23, WorkerGoes DEF Reply, Places, Serving, Talking
    <2>2. Served \in Requests /\ request[Served] \in {"done", "refused"}
      BY <2>0, ServedTyped DEF WorkerKnows, Serving
    <2>3. reply' = [reply EXCEPT ![Served] = request[Served]] BY <1>23, <2>0 DEF Reply, Served
    <2>4. TypeAgent' BY <1>23, <2>2, <2>3 DEF Reply, TypeAgent
    <2> QED BY <1>23, <2>1, <2>4 DEF Reply
  <1>24. ASSUME NEW n \in Runs, Close(n) PROVE Types'
    <2>1. TypeWorker' BY <1>24, WorkerRests DEF Close
    <2>2. TypeSession'
      <3>1. session' = [session EXCEPT ![n].connected = IF inc[n] = epoch THEN FALSE ELSE @]
        BY <1>24 DEF Close
      <3> QED BY <3>1, ZenonT(60) DEF TypeSession, SessionRecs
    <2>3. TypeRun' BY <1>24 DEF Close, TypeRun, control
    <2>4. TypeQueues' BY <1>24, ConversationAssumption DEF Close, TypeQueues, ConversationAssumption
    <2> QED BY <1>24, <2>1, <2>2, <2>3, <2>4 DEF Close
  <1>25. ASSUME NEW n \in Runs, NEW m \in Said, Say(n, m) PROVE Types'
    <2>1. TypeQueues'
      BY <1>25, AppendOf, SaidTyped, ConversationAssumption DEF Say, TypeQueues, ConversationAssumption
    <2> QED BY <1>25, <2>1 DEF Say
  <1>26. ASSUME NEW n \in Runs, Started(n) PROVE Types'
    <2> DEFINE m == [kind |-> "started", rpc |-> 0, turn |-> turn[n]]
    <2>1. m \in Messages BY DEF TypeAgent, Messages
    <2>2. m.kind = "started" OBVIOUS
    <2>3. wire' = Append(wire, m) /\ \A i \in 1..Len(wire) : wire[i].kind # "started"
      BY <1>26 DEF Started
    <2> HIDE DEF m
    <2>4. Len(wire) <= MaxQueue BY <2>3 DEF TypeQueues
    <2>5. TypeQueues'
      BY <1>26, <2>1, <2>2, <2>3, <2>4, AppendOf, ConversationAssumption
      DEF Started, TypeQueues, ConversationAssumption
    <2> QED BY <1>26, <2>5 DEF Started
  <1>27. ASSUME NEW q \in Questions, Answer(q) PROVE Types'
    <2>1. TypeQuestion' BY <1>27 DEF Answer, TypeQuestion
    <2> QED BY <1>27, <2>1 DEF Answer, agent
  <1>28. ASSUME NEW n \in Runs, Quiesce(n) PROVE Types'
    <2>1. TypeRun' BY <1>28 DEF Quiesce, TypeRun, control
    <2> QED BY <1>28, <2>1 DEF Quiesce, agent
  <1>29. ASSUME NEW n \in Runs, Expire(n) PROVE Types'
    <2>1. TypeRun' BY <1>29 DEF Expire, TypeRun, control
    <2>2. TypeSession'
      <3>1. Disconnected \in [Runs -> SessionRecs] BY DisconnectedTyped
      <3>2. session' = [Disconnected EXCEPT ![n].connected = FALSE] BY <1>29 DEF Expire
      <3> QED BY <3>1, <3>2 DEF TypeSession, SessionRecs
    <2>3. TypeBounds' BY <1>29, BoundsSpent DEF Expire
    <2> QED BY <1>29, <2>1, <2>2, <2>3 DEF Expire, agent
  <1>30. ASSUME NEW n \in Runs, ClientFails(n) PROVE Types'
    <2>1. TypeWorker' BY <1>30, WorkerGoes DEF ClientFails, Fails, Places, Serving
    <2>2. TypeBounds' BY <1>30, BoundsSpent DEF ClientFails
    <2> QED BY <1>30, <2>1, <2>2 DEF ClientFails, agent
  <1>31. CASE Pause
    <2>1. TypeControl' /\ TypeRun' BY <1>31 DEF Pause, TypeControl, TypeRun
    <2>2. TypeBounds' BY <1>31, BoundsSpent DEF Pause
    <2> QED BY <1>31, <2>1, <2>2 DEF Pause, agent
  <1>32. CASE Unpause
    <2>1. TypeControl' /\ TypeRun' BY <1>32 DEF Unpause, TypeControl, TypeRun, agentRun
    <2> QED BY <1>32, <2>1 DEF Unpause, agent
  <1>33. CASE Recheck
    <2>1. TypeRun' BY <1>33 DEF Recheck, TypeRun, control
    <2>2. TypeBounds' BY <1>33, BoundsSpent DEF Recheck
    <2> QED BY <1>33, <2>1, <2>2 DEF Recheck, agent
  <1>34. CASE Crash
    <2>1. TypeWorker' BY <1>34, WorkerRests DEF Crash
    <2>2. TypeControl' /\ TypeRun'
      <3>1. epoch' = epoch + 1 /\ \A i \in 0..epoch : i \in 0..epoch'
        BY <1>34 DEF Crash, TypeControl
      <3> QED BY <1>34, <3>1 DEF Crash, TypeControl, TypeRun, agentRun
    <2>3. TypeQueues' BY <1>34, ConversationAssumption DEF Crash, TypeQueues, ConversationAssumption
    <2>4. TypeBounds' BY <1>34, BoundsSpent DEF Crash
    <2> QED BY <1>34, <2>1, <2>2, <2>3, <2>4 DEF Crash, agent
  <1>35. CASE UNCHANGED vars BY <1>35 DEF vars, agent
  <1> QED
    BY <1>1, <1>2, <1>3, <1>4, <1>5, <1>6, <1>7, <1>8, <1>9, <1>10, <1>11, <1>12, <1>13, <1>14,
      <1>15, <1>16, <1>17, <1>18, <1>19, <1>20, <1>21, <1>22, <1>23, <1>24, <1>25, <1>26, <1>27,
      <1>28, <1>29, <1>30, <1>31, <1>32, <1>33, <1>34, <1>35 DEF Next, Work

----------------------------------------------------------------------------
(* How Runs, sessions and questions move. *)

\* a Bind that is not refused
Bound(s, n) == Bind(s, n) /\ Resumable(s, job[s].inc)

\* the newest Run stays the newest until the next one is bound
LEMMA RunMoves ==
  ASSUME ConversationAssumption, Types, Numbered, Next
  PROVE  \/ /\ Latest' = Latest
            /\ \A n \in Runs : /\ run'[n] = "none" <=> run[n] = "none"
                               /\ run'[n] = "live" => run[n] = "live"
         \/ /\ Latest' = Latest + 1 /\ Latest' \in Runs
            /\ run' = [run EXCEPT ![Latest'] = "live"] /\ run[Latest'] = "none"
            /\ Bound(Latest, Latest')
  <1>1. CASE UNCHANGED <<run, inc>> BY <1>1 DEF Latest
  <1>2. ASSUME NEW n \in Runs, Quiesce(n)
        PROVE /\ Latest' = Latest
              /\ \A m \in Runs : /\ run'[m] = "none" <=> run[m] = "none"
                                 /\ run'[m] = "live" => run[m] = "live"
    <2>1. \A m \in Runs : /\ run'[m] = "none" <=> run[m] = "none"
                          /\ run'[m] = "live" => run[m] = "live"
      BY <1>2 DEF Quiesce, Types, TypeRun
    <2>2. {m \in Runs : run'[m] # "none"} = {m \in Runs : run[m] # "none"} BY <2>1
    <2> QED BY <2>1, <2>2 DEF Latest
  <1>3. ASSUME NEW s \in Runs, NEW n \in Runs, Bind(s, n), ~Resumable(s, job[s].inc)
        PROVE UNCHANGED <<run, inc>>
    BY <1>3 DEF Bind
  <1>4. ASSUME NEW s \in Runs, NEW n \in Runs, Bind(s, n), Resumable(s, job[s].inc)
        PROVE /\ Latest' = Latest + 1 /\ Latest' \in Runs
              /\ run' = [run EXCEPT ![Latest'] = "live"] /\ run[Latest'] = "none"
              /\ Bound(Latest, Latest')
    <2>1. s = Latest /\ n = Latest + 1 /\ run' = [run EXCEPT ![n] = "live"]
      BY <1>4 DEF Bind, Resumable
    <2>2. Latest \in Nat BY DEF Numbered, Runs
    <2>3. \A m \in Runs : run'[m] # "none" <=> m <= n
      BY <2>1, <2>2 DEF Numbered, Types, TypeRun, Runs
    <2>4. Latest' = n
      <3>1. n \in Nat /\ n <= MaxRuns /\ MaxRuns \in Nat
        BY ConversationAssumption DEF Runs, ConversationAssumption
      <3>2. Cardinality({m \in Runs : run'[m] # "none"}) = n BY <2>3, <3>1, CountRuns
      <3> QED BY <3>2 DEF Latest
    <2>5. run[n] = "none" BY <2>1, <2>2 DEF Numbered
    <2> QED BY <1>4, <2>1, <2>4, <2>5 DEF Bound
  <1> QED BY <1>1, <1>2, <1>3, <1>4, RunWrites

LEMMA NumberedStep == ASSUME ConversationAssumption, Types, Numbered, [Next]_vars PROVE Numbered'
  <1>1. CASE UNCHANGED vars BY <1>1 DEF vars, agentRun, Numbered, OneLiveRun, Latest
  <1>2. CASE /\ Latest' = Latest
             /\ \A n \in Runs : /\ run'[n] = "none" <=> run[n] = "none"
                                /\ run'[n] = "live" => run[n] = "live"
    <2>1. /\ Latest \in Runs
          /\ \A n \in Runs : run'[n] # "none" <=> n <= Latest
          /\ \A n \in Runs : run'[n] = "live" => n = Latest
      <3>1. /\ Latest \in Runs
            /\ \A n \in Runs : run[n] # "none" <=> n <= Latest
            /\ \A n \in Runs : run[n] = "live" => n = Latest
        BY DEF Numbered, OneLiveRun
      <3>2. \A n \in Runs : run'[n] # "none" <=> run[n] # "none" BY <1>2
      <3>3. \A n \in Runs : run'[n] = "live" => run[n] = "live" BY <1>2
      <3> QED BY <3>1, <3>2, <3>3, Zenon
    <2>2. Latest' = Latest BY <1>2
    <2> QED BY <2>1, <2>2, Zenon DEF Numbered, OneLiveRun
  <1>3. CASE /\ Latest' = Latest + 1 /\ Latest' \in Runs
             /\ run' = [run EXCEPT ![Latest'] = "live"]
             /\ Bound(Latest, Latest')
    <2> DEFINE k == Latest'
    <2>1. k = Latest + 1 /\ k \in Runs /\ run' = [run EXCEPT ![k] = "live"] BY <1>3
    <2>2. \A n \in Runs : run[n] # "live" BY <1>3 DEF Bound, Resumable
    <2> HIDE DEF k
    <2>3. /\ \A n \in Runs : run'[n] # "none" <=> n <= k
          /\ \A n \in Runs : run'[n] = "live" => n = k
      BY <2>1, <2>2 DEF Numbered, Types, TypeRun, Runs
    <2> QED BY <2>1, <2>3 DEF k, Numbered, OneLiveRun
  <1> QED BY <1>1, <1>2, <1>3, RunMoves

LEMMA SessionMoves ==
  ASSUME ConversationAssumption, Types, Numbered, WorkerKnows, Next, NEW n \in Runs
  PROVE  /\ session[n].open => session'[n].open
         /\ session'[n].open # session[n].open =>
               At("open", n) /\ Allowed(n) /\ turn' = turn /\ run' = run
         /\ session'[n].waiting # session[n].waiting =>
               n = Latest /\ run' = run /\ (Ask(n) \/ Delivered(n))
         /\ session'[n].ended # session[n].ended =>
               /\ At("tool", n) /\ End(n) /\ MayEnd(n, worker.message) /\ stop'[n]
               /\ session'[n].ended = worker.message.kind
  <1> DEFINE Kept == /\ session'[n].open = session[n].open
                     /\ session'[n].waiting = session[n].waiting
                     /\ session'[n].ended = session[n].ended
  <1>0. /\ session \in [Runs -> SessionRecs]
        /\ \A m \in Runs : Disconnected[m].open = session[m].open
              /\ Disconnected[m].waiting = session[m].waiting /\ Disconnected[m].ended = session[m].ended
    BY DEF Types, TypeSession, SessionRecs, Disconnected
  <1>1. CASE UNCHANGED session BY <1>1
  <1>2. ASSUME NEW m \in Runs, Thread(m) \/ Response(m) \/ Guard(m) \/ Close(m) PROVE Kept
    <2>1. \/ session' = session \/ session' = Disconnected
          \/ \E v \in BOOLEAN : session' = [session EXCEPT ![m].connected = v]
          \/ \E v : session' = [session EXCEPT ![m].turn = v]
      BY <1>0, <1>2 DEF Thread, Response, Guard, Close, SessionRecs
    <2> QED BY <1>0, <2>1 DEF SessionRecs
  <1>3. ASSUME NEW m \in Runs, Expire(m) PROVE Kept
    <2>1. session' = [Disconnected EXCEPT ![m].connected = FALSE] BY <1>3 DEF Expire
    <2>2. Disconnected \in [Runs -> SessionRecs] BY DisconnectedTyped DEF Types
    <2> QED BY <1>0, <2>1, <2>2 DEF SessionRecs
  <1>4. ASSUME NEW m \in Runs, Open(m), m # n PROVE Kept
    BY <1>0, <1>4 DEF Open, SessionRecs
  <1>5. CASE Open(n)
    BY <1>0, <1>5 DEF Open, SessionRecs, agent, agentRun
  <1>6. ASSUME NEW m \in Runs, End(m), m # n PROVE Kept
    BY <1>0, <1>6 DEF End, SessionRecs
  <1>7. CASE End(n)
    BY <1>0, <1>7 DEF End, SessionRecs, Types, TypeRun, At
  <1>8. ASSUME NEW m \in Runs, Ask(m) \/ Delivered(m), m # n PROVE Kept
    BY <1>0, <1>8 DEF Ask, Delivered, SessionRecs
  <1>9. CASE Ask(n) \/ Delivered(n)
    <2>1. n = Latest /\ run' = run BY <1>9 DEF Ask, Delivered, At, WorkerKnows, agentRun
    <2>2. session'[n].open = session[n].open /\ session'[n].ended = session[n].ended
      BY <1>0, <1>9 DEF Ask, Delivered, SessionRecs
    <2> QED BY <1>9, <2>1, <2>2
  <1> QED BY <1>1, <1>2, <1>3, <1>4, <1>5, <1>6, <1>7, <1>8, <1>9, SessionWrites

LEMMA QuestionMoves ==
  ASSUME ConversationAssumption, Types, Numbered, WorkerKnows, Next, NEW q \in Questions
  PROVE  \/ question'[q] = question[q]
         \/ /\ question[q] = "none" /\ question'[q] = "waiting"
            /\ q[1] = Latest /\ turn[Latest] > 0 /\ run' = run /\ worker'.at = "guard" /\ told' = told
         \/ question[q] = "waiting" /\ question'[q] = "pending" /\ Answer(q)
         \/ /\ question[q] = "pending" /\ question'[q] = "live"
            /\ Delivered(Latest) /\ worker.message = q
         \/ question[q] = "pending" /\ question'[q] = "linked" /\ \E s, n \in Runs : Bound(s, n)
  <1>1. CASE UNCHANGED question BY <1>1
  <1>2. ASSUME NEW n \in Runs, Ask(n), question'[q] # question[q]
        PROVE /\ question[q] = "none" /\ question'[q] = "waiting"
              /\ q[1] = Latest /\ turn[Latest] > 0 /\ run' = run /\ worker'.at = "guard" /\ told' = told
    <2>1. worker.at = "event" /\ worker.run = n BY <1>2 DEF Ask, At
    <2>2. n = Latest /\ turn[Latest] > 0 BY <2>1 DEF WorkerKnows, Talking
    <2>3. q = <<n, worker.message.rpc>> /\ question[q] = "none" /\ question'[q] = "waiting"
          /\ worker'.at = "guard"
      BY <1>2 DEF Ask, Types, TypeQuestion, Go, Idle, Fails
    <2> QED BY <1>2, <2>2, <2>3 DEF Ask, agent, agentRun
  <1>3. ASSUME NEW n \in Runs, Delivered(n), question'[q] # question[q]
        PROVE /\ question[q] = "pending" /\ question'[q] = "live"
              /\ Delivered(Latest) /\ worker.message = q
    <2>1. n = Latest BY <1>3 DEF Delivered, At, WorkerKnows
    <2> QED BY <1>3, <2>1 DEF Delivered, Types, TypeQuestion
  <1>4. ASSUME NEW s \in Runs, NEW n \in Runs, Bind(s, n), question'[q] # question[q]
        PROVE question[q] = "pending" /\ question'[q] = "linked" /\ Bound(s, n)
    BY <1>4 DEF Bind, Bound, LinkAnswers, Types, TypeQuestion
  <1>5. ASSUME NEW p \in Questions, Answer(p), question'[q] # question[q]
        PROVE question[q] = "waiting" /\ question'[q] = "pending" /\ Answer(q)
    <2>1. p = q BY <1>5 DEF Answer, Types, TypeQuestion
    <2> QED BY <1>5, <2>1 DEF Answer, Types, TypeQuestion
  <1> QED BY <1>1, <1>2, <1>3, <1>4, <1>5, QuestionWrites

LEMMA StopStays ==
  ASSUME Types, Next, NEW n \in Runs, stop[n]
  PROVE  stop'[n]
  <1>1. ASSUME NEW m \in Runs, End(m) \/ Broker(m) \/ Close(m) \/ Expire(m) PROVE stop'[n]
    BY <1>1 DEF End, Broker, Close, Expire, Types, TypeRun
  <1>2. CASE Pause BY <1>2 DEF Pause, Types, TypeRun
  <1> QED BY <1>1, <1>2, StopWrites

LEMMA TurnMoves ==
  ASSUME ConversationAssumption, Types, Numbered, WorkerKnows, Next, NEW n \in Runs
  PROVE  /\ turn'[n] >= turn[n]
         /\ turn'[n] # turn[n] =>
               /\ Dispatch(n) /\ At("dispatch", n) /\ n = Latest /\ run' = run
               /\ session[n].open /\ question' = question /\ session' = session
  <1>1. CASE UNCHANGED turn BY <1>1 DEF Types, TypeAgent
  <1>2. ASSUME NEW m \in Runs, Dispatch(m), m # n PROVE turn'[n] = turn[n] /\ turn'[n] >= turn[n]
    BY <1>2 DEF Dispatch, Types, TypeAgent
  <1>3. CASE Dispatch(n)
    BY <1>3 DEF Dispatch, Types, TypeAgent, At, WorkerKnows, agentRun
  <1> QED BY <1>1, <1>2, <1>3, AgentWrites

LEMMA ToldStays ==
  ASSUME Types, Next, NEW n \in Runs
  PROVE  told[n] \subseteq told'[n]
  <1>1. ASSUME NEW m \in Runs, Dispatch(m) \/ Deliver(m) PROVE told[n] \subseteq told'[n]
    <2>1. told' = told \/ \E S : told' = [told EXCEPT ![m] = @ \cup S]
      BY <1>1 DEF Dispatch, Deliver
    <2> QED BY <2>1 DEF Types, TypeAgent
  <1> QED BY <1>1, AgentWrites

LEMMA StagesStep ==
  ASSUME ConversationAssumption, Types, Numbered, Stages, WorkerKnows, [Next]_vars
  PROVE  Stages'
  <1>1. CASE UNCHANGED vars BY <1>1 DEF vars, agent, agentRun, Stages
  <1>2. CASE Next
    <2> SUFFICES ASSUME NEW n \in Runs
                 PROVE /\ run'[n] = "none" => ~session'[n].open /\ session'[n].ended = "none"
                                             /\ ~session'[n].waiting
                       /\ ~session'[n].open => turn'[n] = 0
                       /\ turn'[n] = 0 => \A q \in Questions : q[1] = n => question'[q] = "none"
                       /\ session'[n].ended # "none" => stop'[n]
      BY DEF Stages
    <2>0. Latest \in Runs /\ run[Latest] # "none" BY DEF Numbered, Runs
    <2>1. run'[n] = "none" => run[n] = "none"
      <3>1. CASE run' = [run EXCEPT ![Latest'] = "live"] /\ Latest' \in Runs
        BY <3>1 DEF Types, TypeRun
      <3> QED BY <1>2, <3>1, RunMoves
    <2>2. run'[n] = "none" => /\ ~session'[n].open /\ session'[n].ended = "none"
                              /\ ~session'[n].waiting
      <3> SUFFICES ASSUME run'[n] = "none" PROVE /\ ~session'[n].open /\ session'[n].ended = "none"
                                                 /\ ~session'[n].waiting
        OBVIOUS
      <3>1. run[n] = "none" /\ n # Latest BY <2>0, <2>1
      <3>2. /\ ~session[n].open /\ session[n].ended = "none" /\ ~session[n].waiting
            /\ session[n].open \in BOOLEAN /\ session[n].waiting \in BOOLEAN
            /\ session'[n].open \in BOOLEAN /\ session'[n].waiting \in BOOLEAN
        BY <1>2, <3>1, TypeStep DEF Stages, Types, TypeSession, SessionRecs
      <3>3. ~Allowed(n) BY <3>1 DEF Allowed
      <3>4. ~MayEnd(n, worker.message) BY <3>3 DEF MayEnd
      <3> QED BY <1>2, <3>1, <3>2, <3>3, <3>4, SessionMoves
    <2>3. ~session'[n].open => turn'[n] = 0
      <3>1. session'[n].open \in BOOLEAN /\ session[n].open \in BOOLEAN
        BY <1>2, TypeStep DEF Types, TypeSession, SessionRecs
      <3> QED BY <1>2, <3>1, SessionMoves, TurnMoves DEF Stages
    <2>4. ASSUME turn'[n] = 0, NEW q \in Questions, q[1] = n PROVE question'[q] = "none"
      <3>1. turn[n] = 0 BY <1>2, <2>4, TurnMoves DEF Types, TypeAgent
      <3>2. question[q] = "none" BY <2>4, <3>1 DEF Stages
      <3> QED BY <1>2, <2>4, <3>1, <3>2, QuestionMoves
    <2>5. session'[n].ended # "none" => stop'[n] BY <1>2, SessionMoves, StopStays DEF Stages
    <2> QED BY <2>2, <2>3, <2>4, <2>5
  <1> QED BY <1>1, <1>2

----------------------------------------------------------------------------
(* Questions and answers. *)

\* what a Bind leaves of the questions
LEMMA BoundLinks ==
  ASSUME Types, NEW s \in Runs, NEW n \in Runs, Bound(s, n), NEW q \in Questions
  PROVE  /\ question[q] # "waiting" /\ question'[q] \notin {"waiting", "pending"}
         /\ question'[q] = "none" <=> question[q] = "none"
         /\ session' = session /\ told' = told /\ turn' = turn
  BY DEF Bound, Bind, Resumable, LinkAnswers, Types, TypeQuestion, agent

LEMMA AskedInTurn ==
  ASSUME Stages, NEW n \in Runs, run[n] = "none"
  PROVE  turn[n] = 0 /\ ~session[n].waiting /\ \A q \in Questions : q[1] = n => question[q] = "none"
  BY DEF Stages

\* a question is recorded together with the mark that its Run waits
LEMMA AskWrites ==
  ASSUME Types, NEW n \in Runs, Ask(n)
  PROVE  \/ session' = session /\ question' = question
         \/ \E q \in Questions :
               /\ q[1] = n /\ question[q] = "none" /\ question'[q] = "waiting"
               /\ question' = [question EXCEPT ![q] = "waiting"]
               /\ session' = [session EXCEPT ![n].waiting = TRUE]
  <1>1. CASE session' = session /\ question' = question BY <1>1
  <1>2. CASE ~(session' = session /\ question' = question)
    <2> DEFINE q == <<n, worker.message.rpc>>
    <2>1. worker.at = "event" /\ worker.run = n /\ worker.message.kind = "ask" BY DEF Ask, At
    <2>2. q \in Questions BY <2>1, EventTyped DEF Types, ToolKinds
    <2>3. /\ question[q] = "none" /\ question' = [question EXCEPT ![q] = "waiting"]
          /\ session' = [session EXCEPT ![n].waiting = TRUE]
      BY <1>2 DEF Ask
    <2>4. q[1] = n OBVIOUS
    <2> HIDE DEF q
    <2>5. question'[q] = "waiting" BY <2>2, <2>3 DEF Types, TypeQuestion
    <2> QED BY <2>2, <2>3, <2>4, <2>5
  <1> QED BY <1>1, <1>2

LEMMA NewestStep ==
  ASSUME ConversationAssumption, IInv, Next
  PROVE  OnlyNewestAsks'
  <1> SUFFICES ASSUME NEW q \in Questions, question'[q] \in {"waiting", "pending"}
               PROVE q[1] = Latest'
    BY DEF OnlyNewestAsks
  <1>0. Types /\ Numbered /\ WorkerKnows /\ OnlyNewestAsks BY DEF IInv
  <1>1. CASE Latest' = Latest
    <2>1. q[1] = Latest BY <1>0, QuestionMoves DEF OnlyNewestAsks
    <2> QED BY <1>1, <2>1
  <1>2. CASE Bound(Latest, Latest') /\ Latest' \in Runs
    <2>1. PICK k \in Runs : Bound(Latest, k) BY <1>2
    <2> QED BY <1>0, <2>1, BoundLinks DEF Numbered
  <1> QED BY <1>0, <1>1, <1>2, RunMoves

LEMMA HeardStep ==
  ASSUME ConversationAssumption, IInv, Next
  PROVE  EveryAnswerHeard'
  <1> SUFFICES ASSUME NEW n \in Runs, turn'[n] > 0,
                      NEW q \in Questions, q[1] < n, question'[q] # "none"
               PROVE q \in told'[n]
    BY DEF EveryAnswerHeard
  <1>0. Types /\ Numbered /\ Stages /\ WorkerKnows /\ EveryAnswerHeard BY DEF IInv
  <1>1. told[n] \subseteq told'[n] BY <1>0, ToldStays
  <1>2. n \in Nat /\ q[1] \in Nat /\ Latest \in Nat /\ turn[n] \in Nat
    BY <1>0 DEF Questions, Runs, Numbered, Types, TypeAgent
  <1>3. CASE turn[n] > 0
    <2>1. run[n] # "none" BY <1>0, <1>2, <1>3, AskedInTurn
    <2>2. n <= Latest BY <1>0, <2>1 DEF Numbered
    <2>3. question[q] # "none" BY <1>0, <1>2, <2>2, QuestionMoves
    <2> QED BY <1>0, <1>1, <1>3, <2>3 DEF EveryAnswerHeard
  <1>4. CASE turn[n] = 0
    <2>1. Dispatch(n) /\ At("dispatch", n) /\ question' = question
      BY <1>0, <1>4, TurnMoves
    <2>2. q \in worker.answers BY <1>0, <1>4, <2>1 DEF WorkerKnows, At
    <2>3. told' = [told EXCEPT ![n] = @ \cup worker.answers]
      BY <1>4, <2>1 DEF Dispatch
    <2> QED BY <1>0, <2>2, <2>3 DEF Types, TypeAgent
  <1> QED BY <1>2, <1>3, <1>4

LEMMA SentStep ==
  ASSUME ConversationAssumption, IInv, Next
  PROVE  DeliveredWasSent'
  <1> SUFFICES ASSUME NEW q \in Questions, question'[q] = "live"
               PROVE q \in told'[q[1]]
    BY DEF DeliveredWasSent
  <1>0. Types /\ Numbered /\ WorkerKnows /\ DeliveredWasSent /\ q[1] \in Runs
    BY DEF IInv, Questions
  <1>1. told[q[1]] \subseteq told'[q[1]] BY <1>0, ToldStays
  <1>2. CASE question[q] = "live" BY <1>0, <1>1, <1>2 DEF DeliveredWasSent
  <1>3. CASE Delivered(Latest) /\ worker.message = q
    <2>1. worker.at = "delivered" /\ worker.run = Latest BY <1>3 DEF Delivered, At
    <2>2. q \in told[Latest] /\ q[1] = Latest BY <1>0, <1>3, <2>1 DEF WorkerKnows
    <2> QED BY <1>1, <2>2
  <1> QED BY <1>0, <1>2, <1>3, QuestionMoves

LEMMA WaitingStep ==
  ASSUME ConversationAssumption, IInv, Next
  PROVE  WaitingIsAsking'
  <1> SUFFICES ASSUME NEW n \in Runs, run'[n] = "live"
               PROVE session'[n].waiting <=> Unheard(n)' # {}
    BY DEF WaitingIsAsking
  <1>0. Types /\ Numbered /\ Stages /\ WorkerKnows /\ WaitingIsAsking BY DEF IInv
  <1>1. /\ \A q : q \in Unheard(n) <=>
              q \in Questions /\ q[1] = n /\ question[q] \in {"waiting", "pending"}
        /\ \A q : q \in Unheard(n)' <=>
              q \in Questions /\ q[1] = n /\ question'[q] \in {"waiting", "pending"}
    BY DEF Unheard, Of
  <1>2. session[n].waiting \in BOOLEAN /\ session'[n].waiting \in BOOLEAN
    BY <1>0, TypeStep DEF Types, TypeSession, SessionRecs
  <1>3. CASE run[n] # "live"
    <2>1. Bound(Latest, n) /\ run[n] = "none"
      <3>1. PICK k \in Runs : /\ run' = [run EXCEPT ![k] = "live"] /\ run[k] = "none"
                             /\ Bound(Latest, k)
        BY <1>0, <1>3, RunMoves
      <3>2. k = n BY <1>0, <1>3, <3>1 DEF Types, TypeRun
      <3> QED BY <3>1, <3>2
    <2>2. ~session[n].waiting /\ \A q \in Questions : q[1] = n => question[q] = "none"
      BY <1>0, <2>1, AskedInTurn
    <2>3. session' = session BY <2>1 DEF Bound, Bind
    <2>4. \A q \in Questions : q[1] = n => question'[q] = "none"
      BY <1>0, <2>1, <2>2, BoundLinks DEF Numbered
    <2> QED BY <1>1, <2>2, <2>3, <2>4
  <1>4. CASE \E q \in Questions : q[1] = n /\ question[q] = "none" /\ question'[q] = "waiting"
    <2>1. PICK q \in Questions : q[1] = n /\ question[q] = "none" /\ question'[q] = "waiting"
      BY <1>4
    <2>2. PICK m \in Runs : Ask(m)
      BY <1>0, <2>1, QuestionWrites DEF Delivered, Bind, LinkAnswers, Answer, Types, TypeQuestion
    <2>3. PICK p \in Questions : /\ p[1] = m /\ question' = [question EXCEPT ![p] = "waiting"]
                                 /\ session' = [session EXCEPT ![m].waiting = TRUE]
      BY <1>0, <2>1, <2>2, AskWrites
    <2>4. p = q BY <1>0, <2>1, <2>3 DEF Types, TypeQuestion
    <2>5. session'[n].waiting BY <1>0, <2>1, <2>3, <2>4 DEF Types, TypeSession, SessionRecs
    <2> QED BY <1>1, <2>1, <2>5
  <1>5. CASE run[n] = "live" /\ Delivered(n)
    <2>1. worker.at = "delivered" /\ worker.run = n BY <1>5 DEF Delivered, At
    <2> DEFINE q == worker.message
    <2>2. q \in worker.answers /\ q \in Questions /\ q[1] = n
      BY <1>0, <2>1 DEF WorkerKnows, Types, TypeWorker
    <2>3. CASE question[q] # "pending" BY <1>0, <1>1, <1>5, <2>3 DEF Delivered, WaitingIsAsking
    <2>4. CASE question[q] = "pending"
      <3>1. /\ question' = [question EXCEPT ![q] = "live"]
            /\ session' = [session EXCEPT ![n].waiting = StillWaiting(n, Unheard(n) \ {q})]
        BY <1>5, <2>4 DEF Delivered
      <3>2. session[n].waiting BY <1>0, <1>1, <1>5, <2>2, <2>4 DEF WaitingIsAsking
      <3>3. session'[n].waiting <=> Unheard(n) \ {q} # {}
        BY <1>0, <3>1, <3>2 DEF StillWaiting, Types, TypeSession, SessionRecs
      <3>4. \A p \in Questions : question'[p] = IF p = q THEN "live" ELSE question[p]
        BY <1>0, <3>1 DEF Types, TypeQuestion
      <3>5. \A p : p \in Unheard(n)' <=> p \in Unheard(n) \ {q} BY <1>1, <3>4
      <3> QED BY <3>3, <3>5
    <2> QED BY <2>3, <2>4
  <1>6. CASE /\ run[n] = "live" /\ ~Delivered(n)
             /\ ~\E q \in Questions : q[1] = n /\ question[q] = "none" /\ question'[q] = "waiting"
    <2>1. ASSUME NEW q \in Questions, q[1] = n
          PROVE question'[q] \in {"waiting", "pending"} <=> question[q] \in {"waiting", "pending"}
      <3>1. CASE question'[q] = question[q] BY <3>1
      <3>2. CASE question[q] = "waiting" /\ question'[q] = "pending" BY <3>2
      <3>3. CASE Delivered(Latest) BY <1>0, <1>6, <3>3 DEF Numbered, OneLiveRun
      <3>4. CASE \E s, m \in Runs : Bound(s, m)
        BY <1>6, <3>4 DEF Bound, Resumable
      <3> QED BY <1>0, <1>6, <2>1, <3>1, <3>2, <3>3, <3>4, QuestionMoves
    <2>2. session'[n].waiting = session[n].waiting
      BY <1>0, <1>6, SessionMoves, AskWrites
    <2> QED BY <1>0, <1>1, <1>6, <2>1, <2>2 DEF WaitingIsAsking
  <1> QED BY <1>3, <1>4, <1>5, <1>6

----------------------------------------------------------------------------
(* Requests, operations and endings. *)

LEMMA RowsStep ==
  ASSUME ConversationAssumption, IInv, Next
  PROVE  RowsAgree'
  <1>0. Types /\ RowsAgree /\ WorkerKnows BY DEF IInv
  <1> DEFINE Agrees(r) ==
        /\ request'[r] = "none" => operation'[r] = "none"
        /\ request'[r] = "done" /\ original'[r] = "commit" => operation'[r] = "complete"
        /\ operation'[r] # "none" => original'[r] = "commit"
        /\ reply'[r] # "none" => reply'[r] = request'[r]
  <1> SUFFICES ASSUME NEW r \in Requests PROVE Agrees(r)
    BY DEF RowsAgree
  <1>1. /\ request[r] = "none" => operation[r] = "none"
        /\ request[r] = "done" /\ original[r] = "commit" => operation[r] = "complete"
        /\ operation[r] # "none" => original[r] = "commit"
        /\ reply[r] # "none" => reply[r] = request[r]
        /\ reply[r] \in {"none", "done", "refused"}
    BY <1>0 DEF RowsAgree, Types, TypeAgent
  <1>2. CASE \E n \in Runs : Reply(n)
    <2>1. PICK n \in Runs : Reply(n) BY <1>2
    <2>2. UNCHANGED <<request, original, operation>> /\ reply' = [reply EXCEPT ![Served] = request[Served]]
      BY <2>1 DEF Reply, Served, At, protocol
    <2> QED BY <1>0, <1>1, <2>2 DEF Types, TypeAgent
  <1>3. CASE UNCHANGED protocol /\ UNCHANGED reply BY <1>1, <1>3 DEF protocol
  <1>4. ASSUME NEW n \in Runs, Request(n), UNCHANGED reply PROVE Agrees(r)
    <2>1. /\ operation' = operation
          /\ \/ request' = request /\ original' = original
             \/ \E s \in Requests : request[s] = "none" /\ request' = [request EXCEPT ![s] = "open"]
                                   /\ \E k : original' = [original EXCEPT ![s] = k]
      <3>1. worker.at = "event" /\ worker.run = n /\ worker.message.kind \in ToolKinds
        BY <1>4 DEF Request, At
      <3>2. <<n, worker.message.rpc>> \in Requests BY <1>0, <3>1, EventTyped DEF Types
      <3> QED BY <1>4, <3>2 DEF Request, Admitted
    <2> QED BY <1>0, <1>1, <1>4, <2>1 DEF Types, TypeProtocol
  <1>5. ASSUME NEW n \in Runs, End(n) \/ Commit(n) \/ Broker(n) \/ Result(n), UNCHANGED reply
        PROVE Agrees(r)
    <2>1. /\ worker.run = n /\ worker.at \in {"tool", "broker", "result"}
          /\ worker.at = "tool" => worker.message.kind \in {"completion", "blocker", "commit"}
          /\ original' = original
      BY <1>5 DEF End, Commit, Broker, Result, At
    <2>2. /\ Served \in Requests /\ Served = <<n, worker.message.rpc>>
          /\ request[Served] = "open" /\ original[Served] = worker.message.kind
      BY <1>0, <2>1, ServedTyped DEF Types, Serving, WorkerKnows, Served
    <2>3. reply[Served] = "none" BY <1>0, <2>2 DEF RowsAgree, Types, TypeAgent
    <2>4. CASE End(n)
      <3>1. /\ operation' = operation /\ worker.message.kind # "commit"
            /\ \E s \in {"done", "refused"} : request' = [request EXCEPT ![Served] = s]
        BY <2>2, <2>4 DEF End
      <3> QED BY <1>0, <1>1, <1>5, <2>1, <2>2, <2>3, <3>1 DEF Types, TypeProtocol
    <2>5. CASE Commit(n)
      <3>1. /\ worker.message.kind = "commit"
            /\ \/ operation' = [operation EXCEPT ![Served] = "pending"] /\ request' = request
               \/ operation' = operation /\ request' = [request EXCEPT ![Served] = "refused"]
        BY <2>2, <2>5 DEF Commit
      <3> QED BY <1>0, <1>1, <1>5, <2>1, <2>2, <2>3, <3>1 DEF Types, TypeProtocol
    <2>6. CASE Broker(n)
      <3>1. /\ original[Served] = "commit"
            /\ \/ operation' = [operation EXCEPT ![Served] = "complete"] /\ request' = request
               \/ /\ operation' = [operation EXCEPT ![Served] = "partial"]
                  /\ request' = [request EXCEPT ![Served] = "refused"]
        BY <1>0, <2>2, <2>6 DEF Broker, WorkerKnows, At
      <3> QED BY <1>0, <1>1, <1>5, <2>1, <2>2, <2>3, <3>1 DEF Types, TypeProtocol
    <2>7. CASE Result(n)
      <3>1. /\ operation' = operation /\ operation[Served] = "complete"
            /\ request' = [request EXCEPT ![Served] = "done"]
        BY <1>0, <2>2, <2>7 DEF Result, WorkerKnows, At
      <3> QED BY <1>0, <1>1, <1>5, <2>1, <2>2, <2>3, <3>1 DEF Types, TypeProtocol
    <2> QED BY <1>5, <2>4, <2>5, <2>6, <2>7
  <1>6. UNCHANGED reply \/ \E n \in Runs : Reply(n) BY AgentWrites
  <1> QED BY <1>2, <1>3, <1>4, <1>5, <1>6, ProtocolWrites

\* an operation of a Run that was stopped is not begun, and none that is
\* complete is done again
LEMMA OperationMoves ==
  ASSUME ConversationAssumption, IInv, Next, NEW r \in Requests
  PROVE  \/ operation'[r] = operation[r]
         \/ operation[r] = "none" /\ ~stop[r[1]]
         \/ operation[r] = "pending"
  <1>0. Types /\ WorkerKnows BY DEF IInv
  <1>1. CASE UNCHANGED operation BY <1>1
  <1>2. ASSUME NEW n \in Runs, Commit(n) \/ Broker(n), operation'[r] # operation[r]
        PROVE  \/ operation[r] = "none" /\ ~stop[r[1]]
               \/ operation[r] = "pending"
    <2>1. worker.run = n /\ worker.at \in {"tool", "broker"} BY <1>2 DEF Commit, Broker, At
    <2>2. Served \in Requests /\ Served = <<n, worker.message.rpc>> /\ Served[1] = n
      BY <1>0, <2>1, ServedTyped DEF Types, Serving, Served
    <2>3. r = Served BY <1>0, <1>2, <2>2 DEF Commit, Broker, Types, TypeProtocol
    <2>4. CASE Commit(n) BY <1>2, <2>2, <2>3, <2>4 DEF Commit, Authorized
    <2>5. CASE Broker(n) BY <1>0, <2>2, <2>3, <2>5 DEF Broker, WorkerKnows, At
    <2> QED BY <1>2, <2>4, <2>5
  <1>3. ASSUME NEW n \in Runs, Request(n) \/ End(n) \/ Result(n) PROVE UNCHANGED operation
    BY <1>3 DEF Request, End, Result
  <1> QED BY <1>1, <1>2, <1>3, ProtocolWrites DEF protocol

LEMMA EndedStep ==
  ASSUME ConversationAssumption, IInv, Next
  PROVE  EndedClean'
  <1>0. Types /\ Numbered /\ Stages /\ WorkerKnows /\ EndedClean BY DEF IInv
  <1> SUFFICES ASSUME NEW n \in Runs, session'[n].ended # "none"
               PROVE /\ \A r \in Requests : r[1] = n => operation'[r] \in {"none", "complete"}
                     /\ session'[n].ended = "completion" =>
                           \E r \in Requests : r[1] = n /\ operation'[r] = "complete"
    BY DEF EndedClean, Candidate
  <1>1. CASE session[n].ended = session'[n].ended
    <2>1. /\ stop[n]
          /\ \A r \in Requests : r[1] = n => operation[r] \in {"none", "complete"}
          /\ session'[n].ended = "completion" =>
                \E r \in Requests : r[1] = n /\ operation[r] = "complete"
      BY <1>0, <1>1 DEF Stages, EndedClean, Candidate
    <2>2. \A r \in Requests : r[1] = n => operation'[r] = operation[r]
      BY <2>1, OperationMoves
    <2> QED BY <2>1, <2>2
  <1>2. CASE End(n) /\ MayEnd(n, worker.message) /\ session'[n].ended = worker.message.kind
    <2>1. operation' = operation BY <1>2 DEF End
    <2> QED BY <1>2, <2>1 DEF MayEnd, Candidate
  <1> QED BY <1>0, <1>1, <1>2, SessionMoves

----------------------------------------------------------------------------
(* What the worker holds. *)

LEMMA Begins ==
  ASSUME worker'.at \in {"restore", "prepare", "bind", "open", "close"}, worker'.run = Latest'
  PROVE  WorkerKnows'
  BY DEF WorkerKnows, Talking

LEMMA Rests == ASSUME worker'.at = "idle" PROVE WorkerKnows'
  BY DEF WorkerKnows, Talking

LEMMA Listens ==
  ASSUME worker'.at \in {"guard", "answers", "step", "response", "event"},
         worker'.run = Latest', turn'[worker'.run] > 0
  PROVE  WorkerKnows'
  BY DEF WorkerKnows, Talking

LEMMA LatestKept == UNCHANGED run => Latest' = Latest
  BY DEF Latest

\* steps of others
LEMMA Undisturbed ==
  ASSUME IInv, UNCHANGED <<worker, protocol, turn, told>>, Latest' = Latest,
         \A n \in Runs : session'[n].open = session[n].open,
         \A q \in Questions : question'[q] # question[q] => question[q] = "waiting"
  PROVE  WorkerKnows'
  <1>0. Types /\ Numbered /\ WorkerKnows BY DEF IInv
  <1>1. worker.at = "dispatch" =>
          /\ session'[worker.run].open
          /\ Unheard(worker.run)' = {}
          /\ turn[worker.run] = 0 =>
                \A q \in Questions : q[1] < worker.run /\ question'[q] # "none" => q \in worker.answers
    <2> SUFFICES ASSUME worker.at = "dispatch"
                 PROVE /\ session'[worker.run].open
                       /\ Unheard(worker.run)' = {}
                       /\ turn[worker.run] = 0 =>
                             \A q \in Questions : q[1] < worker.run /\ question'[q] # "none" => q \in worker.answers
      OBVIOUS
    <2>1. worker.run \in Runs BY <1>0 DEF Types, TypeWorker
    <2>2. session'[worker.run].open BY <1>0, <2>1 DEF WorkerKnows
    <2>3. \A q \in Questions : q[1] = worker.run => question[q] \notin {"waiting", "pending"}
      BY <1>0 DEF WorkerKnows, Unheard, Of
    <2>4. Unheard(worker.run)' = {} BY <2>3 DEF Unheard, Of
    <2>5. \A q \in Questions : question'[q] # "none" => question[q] # "none" OBVIOUS
    <2> QED BY <1>0, <2>2, <2>4, <2>5 DEF WorkerKnows
  <1>2. worker.at \in {"thread", "input"} => session'[worker.run].open
    BY <1>0 DEF WorkerKnows, Types, TypeWorker
  <1> QED BY <1>0, <1>1, <1>2 DEF WorkerKnows, Served, protocol

LEMMA KnowsStep ==
  ASSUME ConversationAssumption, IInv, [Next]_vars
  PROVE  WorkerKnows'
  <1>0. Types /\ Numbered /\ Stages /\ WorkerKnows /\ OnlyNewestAsks /\ WaitingIsAsking BY DEF IInv
  <1>1. ASSUME NEW n \in Runs, Reserved(n) PROVE WorkerKnows'
    <2>1. n = Latest BY <1>0, <1>1 DEF Reserved, Startable, Numbered, OneLiveRun
    <2>2. worker'.at = "open" /\ worker'.run = n BY <1>1, WorkerGoes DEF Reserved, Places, Serving
    <2> QED BY <1>1, <2>1, <2>2, Begins, LatestKept DEF Reserved, agentRun
  <1>2. ASSUME NEW n \in Runs, NextJob(n) PROVE WorkerKnows'
    <2>1. n = Latest BY <1>2 DEF NextJob, Resumable
    <2>2. worker'.at \in {"prepare", "restore"} /\ worker'.run = n
      BY <1>2, WorkerGoes DEF NextJob, Places, Serving
    <2> QED BY <1>2, <2>1, <2>2, Begins, LatestKept DEF NextJob, agentRun
  <1>3. ASSUME NEW n \in Runs, Restore(n) \/ Prepare(n) PROVE WorkerKnows'
    <2>1. n = Latest BY <1>0, <1>3 DEF Restore, Prepare, At, WorkerKnows
    <2>2. worker'.at = "idle" \/ (worker'.at \in {"prepare", "bind"} /\ worker'.run = n)
      BY <1>3, WorkerGoes, WorkerRests DEF Restore, Prepare, Places, Serving
    <2>3. Latest' = Latest BY <1>3, LatestKept DEF Restore, Prepare, agentRun
    <2> QED BY <2>1, <2>2, <2>3, Begins, Rests
  <1>4. ASSUME NEW s \in Runs, NEW n \in Runs, Bind(s, n), Next PROVE WorkerKnows'
    <2>1. CASE ~Resumable(s, job[s].inc)
      <3>1. worker'.at = "idle" BY <1>4, <2>1, WorkerRests DEF Bind
      <3> QED BY <3>1, Rests
    <2>2. CASE Resumable(s, job[s].inc)
      <3>1. worker'.at = "open" /\ worker'.run = n /\ n = Latest + 1 /\ run'[n] = "live"
        BY <1>0, <1>4, <2>2, WorkerGoes DEF Bind, Places, Serving, Types, TypeRun
      <3>2. Latest' = n BY <1>0, <1>4, <3>1, NumberedStep DEF Numbered, OneLiveRun
      <3> QED BY <3>1, <3>2, Begins
    <2> QED BY <2>1, <2>2
  <1>5. ASSUME NEW n \in Runs, Open(n) PROVE WorkerKnows'
    <2>1. n = Latest /\ worker.run = n BY <1>0, <1>5 DEF Open, At, WorkerKnows
    <2>2. Latest' = Latest BY <1>5, LatestKept DEF Open, agentRun
    <2>3. CASE worker' = Idle BY <2>3, WorkerRests, Rests
    <2>4. CASE worker' # Idle
      <3>1. ~session[n].open /\ session' = [session EXCEPT ![n].open = TRUE] /\ Go("thread", n)
        BY <1>5, <2>4 DEF Open
      <3>2. session'[n].open /\ turn'[n] = 0
        BY <1>0, <1>5, <3>1 DEF Stages, Open, agent, Types, TypeSession, SessionRecs
      <3>3. worker'.at = "thread" /\ worker'.run = n BY <3>1 DEF Go, Idle
      <3> QED BY <2>1, <2>2, <3>2, <3>3 DEF WorkerKnows, Talking
    <2> QED BY <2>3, <2>4
  <1>6. ASSUME NEW n \in Runs, Thread(n) PROVE WorkerKnows'
    <2>1. n = Latest /\ worker.run = n /\ session[n].open /\ turn[n] = 0
      BY <1>0, <1>6 DEF Thread, At, WorkerKnows
    <2>2. Latest' = Latest /\ turn' = turn BY <1>6, LatestKept DEF Thread, agentRun, agent
    <2>3. session'[n].open BY <1>0, <1>6, <2>1 DEF Thread, Types, TypeSession, SessionRecs
    <2>4. worker'.at \in {"input", "close"} /\ worker'.run = n
      BY <1>6 DEF Thread, Fails, Go, Idle
    <2> QED BY <2>1, <2>2, <2>3, <2>4 DEF WorkerKnows, Talking
  <1>7. ASSUME NEW n \in Runs, Input(n) PROVE WorkerKnows'
    <2>1. n = Latest /\ worker.run = n /\ session[n].open /\ turn[n] = 0
      BY <1>0, <1>7 DEF Input, At, WorkerKnows
    <2>2. Latest' = Latest /\ turn' = turn /\ session' = session /\ question' = question
      BY <1>7, LatestKept DEF Input, agentRun, agent
    <2>3. worker'.at = "dispatch" /\ worker'.run = n /\ worker'.answers = Confirmed
      BY <1>0, <1>7, <2>1 DEF Input, Types, TypeWorker
    <2>4. \A q \in Questions : q[1] = n => question'[q] \notin {"waiting", "pending"}
      BY <1>0, <2>1, <2>2 DEF Stages
    <2>5. \A q \in Questions : q[1] < n /\ question[q] # "none" => q \in Confirmed
      <3> SUFFICES ASSUME NEW q \in Questions, q[1] < n, question[q] # "none" PROVE q \in Confirmed
        OBVIOUS
      <3>1. q[1] # Latest /\ question[q] \notin {"waiting", "pending"}
        BY <1>0, <2>1 DEF OnlyNewestAsks, Numbered, Runs, Questions
      <3> QED BY <1>0, <3>1 DEF Confirmed, Types, TypeQuestion
    <2>6. Unheard(worker.run)' = {} BY <2>3, <2>4 DEF Unheard, Of
    <2> QED BY <2>1, <2>2, <2>3, <2>5, <2>6 DEF WorkerKnows, Talking
  <1>8. ASSUME NEW n \in Runs, Dispatch(n) PROVE WorkerKnows'
    <2>1. n = Latest BY <1>0, <1>8 DEF Dispatch, At, WorkerKnows
    <2>2. Latest' = Latest BY <1>8, LatestKept DEF Dispatch, agentRun
    <2>3. CASE worker'.at = "response" /\ worker'.run = n /\ turn' = [turn EXCEPT ![n] = @ + 1]
      <3>1. turn'[n] > 0 BY <1>0, <2>3 DEF Types, TypeAgent
      <3> QED BY <2>1, <2>2, <2>3, <3>1, Listens
    <2>4. CASE worker'.at = "close" /\ worker'.run = n BY <2>1, <2>2, <2>4, Begins
    <2> QED BY <1>8, <2>3, <2>4 DEF Dispatch, Go, Idle, Fails
  <1>9. ASSUME NEW n \in Runs,
               Response(n) \/ Guard(n) \/ Step(n) \/ Ask(n) \/ Reply(n)
        PROVE WorkerKnows'
    <2>1. /\ n = Latest /\ worker.run = n /\ turn[n] > 0 /\ UNCHANGED <<run, turn>>
      BY <1>0, <1>9 DEF Response, Guard, Step, Ask, Reply, At, WorkerKnows, Talking, agentRun, agent
    <2>2. \/ worker'.at \in {"guard", "answers", "event", "step"} /\ worker'.run = n
          \/ worker'.at = "close" /\ worker'.run = n
          \/ worker' = worker /\ worker.at = "response"
      BY <1>0, <1>9 DEF Response, Guard, Step, Ask, Reply, At, Go, Idle, Fails, Types, TypeWorker
    <2>3. Latest' = Latest BY <2>1, LatestKept
    <2> QED BY <2>1, <2>2, <2>3, Begins, Listens
  <1>10. ASSUME NEW n \in Runs, Answers(n) PROVE WorkerKnows'
    <2>1. n = Latest /\ worker.run = n /\ turn[n] > 0 /\ UNCHANGED <<run, turn>>
      BY <1>0, <1>10 DEF Answers, At, WorkerKnows, Talking, agentRun, agent
    <2>2. /\ worker'.at = "deliver" /\ worker'.run = n
          /\ worker'.answers \subseteq Of(n, {"pending"})
      BY <1>0, <1>10, <2>1 DEF Answers, Types, TypeWorker
    <2>3. \A q \in worker'.answers : q[1] = n BY <2>2 DEF Of
    <2>4. Latest' = Latest BY <2>1, LatestKept
    <2> QED BY <2>1, <2>2, <2>3, <2>4 DEF WorkerKnows, Talking
  <1>11. ASSUME NEW n \in Runs, Deliver(n) PROVE WorkerKnows'
    <2>1. /\ n = Latest /\ worker.run = n /\ turn[n] > 0 /\ UNCHANGED <<run, turn>>
          /\ \A q \in worker.answers : q[1] = n
      BY <1>0, <1>11 DEF Deliver, At, WorkerKnows, Talking, agentRun
    <2>2. Latest' = Latest BY <2>1, LatestKept
    <2>3. CASE Go("step", n) BY <2>1, <2>2, <2>3, Listens DEF Go, Idle
    <2>4. CASE Fails(n) BY <2>1, <2>2, <2>4, Begins DEF Fails, Go, Idle
    <2>5. CASE \E q \in worker.answers :
                 /\ told' = [told EXCEPT ![n] = @ \cup {q}]
                 /\ worker' = [worker EXCEPT !.at = "delivered", !.message = q]
      <3>1. PICK q \in worker.answers :
                 /\ told' = [told EXCEPT ![n] = @ \cup {q}]
                 /\ worker' = [worker EXCEPT !.at = "delivered", !.message = q]
        BY <2>5
      <3>2. /\ worker'.at = "delivered" /\ worker'.run = n /\ worker'.answers = worker.answers
            /\ worker'.message = q
        BY <1>0, <2>1, <3>1 DEF Types, TypeWorker
      <3>3. q \in told'[n] BY <1>0, <3>1 DEF Types, TypeAgent
      <3> QED BY <2>1, <2>2, <3>2, <3>3 DEF WorkerKnows, Talking
    <2> QED BY <1>11, <2>3, <2>4, <2>5 DEF Deliver
  <1>12. ASSUME NEW n \in Runs, Delivered(n) PROVE WorkerKnows'
    <2>1. /\ n = Latest /\ worker.run = n /\ turn[n] > 0 /\ UNCHANGED <<run, turn>>
          /\ \A q \in worker.answers : q[1] = n
      BY <1>0, <1>12 DEF Delivered, At, WorkerKnows, Talking, agentRun, agent
    <2>2. Latest' = Latest BY <2>1, LatestKept
    <2>3. CASE Fails(n) BY <2>1, <2>2, <2>3, Begins DEF Fails, Go, Idle
    <2>4. CASE worker' = [worker EXCEPT !.at = "deliver", !.message = <<>>,
                                        !.answers = @ \ {worker.message}]
      <3>1. /\ worker'.at = "deliver" /\ worker'.run = n
            /\ worker'.answers = worker.answers \ {worker.message}
        BY <1>0, <2>1, <2>4 DEF Types, TypeWorker
      <3> QED BY <2>1, <2>2, <3>1 DEF WorkerKnows, Talking
    <2> QED BY <1>12, <2>3, <2>4 DEF Delivered
  <1>13. ASSUME NEW n \in Runs, TurnCompleted(n) PROVE WorkerKnows'
    <2>1. /\ n = Latest /\ worker.run = n /\ turn[n] > 0
          /\ UNCHANGED <<run, turn, session, question>>
      BY <1>0, <1>13 DEF TurnCompleted, At, WorkerKnows, Talking, agentRun, agent
    <2>2. Latest' = Latest BY <2>1, LatestKept
    <2>3. /\ worker'.at \in {"guard", "dispatch", "close"} /\ worker'.run = n
          /\ worker'.at = "dispatch" => CanContinue(n)
      BY <1>13 DEF TurnCompleted, Go, Idle
    <2>4. CASE worker'.at = "dispatch"
      <3>1. run[n] = "live" /\ ~session[n].waiting BY <2>3, <2>4 DEF CanContinue, Allowed
      <3>2. Unheard(n) = {} BY <1>0, <3>1 DEF WaitingIsAsking
      <3>3. Unheard(worker.run)' = {} BY <2>1, <2>3, <3>2 DEF Unheard, Of
      <3>4. session[n].open BY <1>0, <2>1 DEF Stages
      <3> QED BY <2>1, <2>2, <2>3, <2>4, <3>3, <3>4 DEF WorkerKnows, Talking
    <2> QED BY <2>1, <2>2, <2>3, <2>4, Listens, Begins
  <1>14. ASSUME NEW n \in Runs, Request(n) PROVE WorkerKnows'
    <2>0. worker.at = "event" /\ worker.message.kind \in ToolKinds \ {"ask"} BY <1>14 DEF Request, At
    <2>1. /\ n = Latest /\ worker.run = n /\ turn[n] > 0 /\ UNCHANGED <<run, turn>>
      BY <1>0, <1>14 DEF Request, At, WorkerKnows, Talking, agentRun, agent
    <2>2. Latest' = Latest BY <2>1, LatestKept
    <2> DEFINE r == <<n, worker.message.rpc>>
    <2>3. r \in Requests BY <1>0, <2>0, <2>1, EventTyped DEF Types
    <2>4. CASE Fails(n) BY <2>1, <2>2, <2>4, Begins DEF Fails, Go, Idle
    <2>5. CASE Resolved(r, worker.message.kind)
      <3>1. worker' = [worker EXCEPT !.at = "reply"] /\ request' = request
        BY <1>14, <2>5 DEF Request
      <3>2. worker'.at = "reply" /\ worker'.run = n /\ Served' = r
        BY <1>0, <2>1, <3>1 DEF Types, TypeWorker, Served
      <3>3. request'[Served'] \in {"done", "refused"} BY <2>5, <3>1, <3>2 DEF Resolved
      <3> QED BY <2>1, <2>2, <3>2, <3>3 DEF WorkerKnows, Talking
    <2>6. CASE Admitted(r, n, worker.message.turn) /\ ~Resolved(r, worker.message.kind)
      <3>1. /\ worker' = [worker EXCEPT !.at = "tool"]
            /\ request' = [request EXCEPT ![r] = "open"]
            /\ original' = [original EXCEPT ![r] = worker.message.kind]
        BY <1>14, <2>6 DEF Request
      <3>2. /\ worker'.at = "tool" /\ worker'.run = n /\ Served' = r
            /\ worker'.message = worker.message
        BY <1>0, <2>1, <3>1 DEF Types, TypeWorker, Served
      <3>3. request'[r] = "open" /\ original'[r] = worker.message.kind
        BY <1>0, <2>3, <3>1 DEF Types, TypeProtocol
      <3> QED BY <2>1, <2>2, <3>2, <3>3 DEF WorkerKnows, Talking
    <2> QED BY <1>14, <2>4, <2>5, <2>6 DEF Request
  <1>15. ASSUME NEW n \in Runs, End(n) \/ Commit(n) \/ Broker(n) \/ Result(n) PROVE WorkerKnows'
    <2>0. worker.at \in {"tool", "broker", "result"} /\ worker.run = n
      BY <1>15 DEF End, Commit, Broker, Result, At
    <2>1. /\ n = Latest /\ turn[n] > 0 /\ UNCHANGED <<run, turn, original>>
      BY <1>0, <1>15, <2>0 DEF End, Commit, Broker, Result, WorkerKnows, Talking, agentRun, agent
    <2>2. Latest' = Latest BY <2>1, LatestKept
    <2>3. /\ Served \in Requests /\ Served = <<n, worker.message.rpc>>
          /\ request[Served] = "open" /\ original[Served] = worker.message.kind
      BY <1>0, <2>0, ServedTyped DEF Types, Serving, WorkerKnows, Served
    <2>4. ASSUME NEW pc \in {"reply", "broker", "result"}, worker' = [worker EXCEPT !.at = pc]
          PROVE  worker'.at = pc /\ worker'.run = n /\ worker'.message = worker.message /\ Served' = Served
      BY <1>0, <2>0, <2>4 DEF Types, TypeWorker, Served
    <2>5. CASE \E s \in {"done", "refused"} :
                 /\ request' = [request EXCEPT ![Served] = s]
                 /\ worker' = [worker EXCEPT !.at = "reply"]
      <3>1. request'[Served] \in {"done", "refused"} BY <1>0, <2>3, <2>5 DEF Types, TypeProtocol
      <3>2. worker'.at = "reply" /\ worker'.run = n /\ Served' = Served BY <2>4, <2>5
      <3> QED BY <2>1, <2>2, <3>1, <3>2 DEF WorkerKnows, Talking
    <2>6. CASE /\ Commit(n) /\ operation' = [operation EXCEPT ![Served] = "pending"]
               /\ request' = request /\ worker' = [worker EXCEPT !.at = "broker"]
      <3>1. operation'[Served] = "pending" /\ original[Served] = "commit"
        BY <1>0, <2>3, <2>6 DEF Commit, Types, TypeProtocol
      <3>2. worker'.at = "broker" /\ worker'.run = n /\ worker'.message = worker.message /\ Served' = Served
        BY <2>4, <2>6
      <3> QED BY <2>1, <2>2, <2>3, <2>6, <3>1, <3>2 DEF WorkerKnows, Talking
    <2>7. CASE /\ Broker(n) /\ operation' = [operation EXCEPT ![Served] = "complete"]
               /\ request' = request /\ worker' = [worker EXCEPT !.at = "result"]
      <3>1. operation'[Served] = "complete" /\ original[Served] = "commit"
        BY <1>0, <2>3, <2>7 DEF Broker, At, Types, TypeProtocol, WorkerKnows
      <3>2. worker'.at = "result" /\ worker'.run = n /\ worker'.message = worker.message /\ Served' = Served
        BY <2>4, <2>7
      <3> QED BY <2>1, <2>2, <2>3, <2>7, <3>1, <3>2 DEF WorkerKnows, Talking
    <2> QED BY <1>15, <2>3, <2>5, <2>6, <2>7 DEF End, Commit, Broker, Result
  <1>16. ASSUME NEW n \in Runs, Close(n) PROVE WorkerKnows'
    BY <1>16, WorkerRests, Rests DEF Close
  <1>17. ASSUME NEW n \in Runs, ClientFails(n) PROVE WorkerKnows'
    <2>1. n = Latest BY <1>0, <1>17 DEF ClientFails, WorkerKnows, Talking
    <2>2. worker'.at = "close" /\ worker'.run = n BY <1>17 DEF ClientFails, Fails, Go, Idle
    <2> QED BY <1>17, <2>1, <2>2, Begins, LatestKept DEF ClientFails, agentRun
  <1>18. CASE Crash BY <1>18, WorkerRests, Rests DEF Crash
  <1>19. CASE \/ \E n \in Runs : Started(n) \/ Quiesce(n) \/ Expire(n)
              \/ \E n \in Runs, m \in Said : Say(n, m)
              \/ \E q \in Questions : Answer(q)
              \/ Pause \/ Unpause \/ Recheck \/ UNCHANGED vars
    <2>1. UNCHANGED <<worker, protocol, turn, told>>
      BY <1>19 DEF Started, Quiesce, Expire, Say, Answer, Pause, Unpause, Recheck, vars, agent
    <2>2. Latest' = Latest
      <3>1. ASSUME NEW n \in Runs, Quiesce(n) PROVE Latest' = Latest
        <4>1. \A m \in Runs : run'[m] = "none" <=> run[m] = "none"
          BY <1>0, <3>1 DEF Quiesce, Types, TypeRun
        <4>2. {m \in Runs : run'[m] # "none"} = {m \in Runs : run[m] # "none"} BY <4>1
        <4> QED BY <4>2 DEF Latest
      <3>2. UNCHANGED run \/ \E n \in Runs : Quiesce(n)
        BY <1>19 DEF Started, Expire, Say, Answer, Pause, Unpause, Recheck, vars, agentRun
      <3> QED BY <3>1, <3>2, LatestKept
    <2>3. \A n \in Runs : session'[n].open = session[n].open
      <3>1. ASSUME NEW m \in Runs, Expire(m), NEW n \in Runs PROVE session'[n].open = session[n].open
        <4>1. Disconnected \in [Runs -> SessionRecs] BY <1>0, DisconnectedTyped DEF Types
        <4>2. session' = [Disconnected EXCEPT ![m].connected = FALSE] BY <3>1 DEF Expire
        <4>3. session'[n].open = Disconnected[n].open BY <4>1, <4>2 DEF SessionRecs
        <4>4. Disconnected[n].open = session[n].open
          BY <1>0 DEF Disconnected, Types, TypeSession, SessionRecs
        <4> QED BY <4>3, <4>4
      <3>2. UNCHANGED session \/ \E n \in Runs : Expire(n)
        BY <1>19 DEF Started, Quiesce, Say, Answer, Pause, Unpause, Recheck, vars
      <3> QED BY <3>1, <3>2
    <2>4. \A q \in Questions : question'[q] # question[q] => question[q] = "waiting"
      BY <1>0, <1>19
      DEF Started, Quiesce, Expire, Say, Answer, Pause, Unpause, Recheck, vars, Types, TypeQuestion
    <2> QED BY <2>1, <2>2, <2>3, <2>4, Undisturbed
  <1> QED
    BY <1>1, <1>2, <1>3, <1>4, <1>5, <1>6, <1>7, <1>8, <1>9, <1>10, <1>11, <1>12, <1>13, <1>14,
      <1>15, <1>16, <1>17, <1>18, <1>19 DEF Next, Work

----------------------------------------------------------------------------
(* Theorems. *)

LEMMA InvInit == ASSUME ConversationAssumption PROVE Init => IInv
  <1> SUFFICES ASSUME Init PROVE IInv OBVIOUS
  <1>1. Types /\ Numbered BY TypeInit
  <1>2. Latest = 1
    <2>1. 1 \in Runs /\ \A n \in Runs : run[n] # "none" <=> n <= 1
      BY ConversationAssumption DEF ConversationAssumption, Init, Runs
    <2> QED BY <2>1, LatestIs
  <1>3. Stages BY DEF Init, Stages, NoSession
  <1>4. RowsAgree BY DEF Init, RowsAgree
  <1>5. WorkerKnows BY DEF Init, WorkerKnows, Idle, Talking
  <1>6. OnlyNewestAsks /\ EveryAnswerHeard /\ DeliveredWasSent
    BY DEF Init, OnlyNewestAsks, EveryAnswerHeard, DeliveredWasSent
  <1>7. WaitingIsAsking BY DEF Init, WaitingIsAsking, NoSession, Unheard, Of
  <1>8. EndedClean BY DEF Init, EndedClean, NoSession
  <1> QED BY <1>1, <1>3, <1>4, <1>5, <1>6, <1>7, <1>8 DEF IInv

LEMMA InvStep == ASSUME ConversationAssumption, IInv, [Next]_vars PROVE IInv'
  <1>1. Types' /\ Numbered' /\ Stages' /\ WorkerKnows'
    BY TypeStep, NumberedStep, StagesStep, KnowsStep DEF IInv
  <1>2. CASE Next
    BY <1>1, <1>2, RowsStep, NewestStep, HeardStep, SentStep, WaitingStep, EndedStep DEF IInv
  <1>3. CASE UNCHANGED vars
    <2>1. RowsAgree' BY <1>3 DEF IInv, RowsAgree, vars, protocol, agent
    <2>2. OnlyNewestAsks' BY <1>3 DEF IInv, OnlyNewestAsks, Latest, vars, agentRun
    <2>3. EveryAnswerHeard' /\ DeliveredWasSent'
      BY <1>3 DEF IInv, EveryAnswerHeard, DeliveredWasSent, vars, agent
    <2>4. WaitingIsAsking' BY <1>3 DEF IInv, WaitingIsAsking, Unheard, Of, vars, agentRun
    <2>5. EndedClean' BY <1>3 DEF IInv, EndedClean, Candidate, vars, protocol
    <2> QED BY <1>1, <2>1, <2>2, <2>3, <2>4, <2>5 DEF IInv
  <1> QED BY <1>2, <1>3

\* Rows, worker and Agents agree in every reachable state: what the worker holds
\* between two transactions is still so, whatever the user, the operator, a
\* deadline or a crash did in between.
THEOREM Inductive == Spec => []IInv
  <1>1. Init => IInv BY InvInit, ConversationAssumption
  <1>2. IInv /\ [Next]_vars => IInv' BY InvStep, ConversationAssumption
  <1> QED BY <1>1, <1>2, PTL DEF Spec

LEMMA InvImplies == IInv => ConversationHolds
  <1> SUFFICES ASSUME IInv PROVE ConversationHolds OBVIOUS
  <1>1. TypeOK
    <2>1. TypeControl /\ TypeRun /\ TypeProtocol /\ TypeQuestion BY DEF IInv, Types
    <2>2. \A n \in Runs : /\ session[n] \in SessionRecs
                          /\ job[n].status \in {"none", "restoring", "prepared", "dispatched"}
      BY DEF IInv, Types, TypeSession, TypeJob, JobRecs
    <2>3. Len(pending) <= MaxQueue /\ Len(wire) <= MaxQueue + 1 /\ told \in [Runs -> SUBSET Questions]
      BY DEF IInv, Types, TypeQueues, TypeAgent
    <2> QED BY <2>1, <2>2, <2>3, Zenon
      DEF TypeOK, TypeControl, TypeRun, TypeProtocol, TypeQuestion, SessionRecs
  <1>2. ReplyIsDurable BY DEF IInv, RowsAgree, ReplyIsDurable
  <1>3. OneLiveRun BY DEF IInv, Numbered
  <1> QED BY <1>1, <1>2, <1>3 DEF IInv, ConversationHolds

\* What the Agents were told agrees with the rows, every answer is heard and only
\* the newest Run asks or is live, for every number of Runs, requests, crashes
\* and commands (runtime_store, runtime_questions, runtime_resume).
THEOREM ConversationSound == Spec => []ConversationHolds
  BY Inductive, InvImplies, PTL

\* dispatch_turn never starts a turn past a question: the worker's decision to
\* continue stays right until the turn is sent, in a transaction of its own.
THEOREM TurnsWait == Spec => NoTurnWhileAsking
  <1>1. ASSUME IInv, [Next]_vars
        PROVE [\A n \in Runs : turn'[n] > turn[n] => Unheard(n) = {}]_vars
    <2>1. CASE Next
      <3> SUFFICES ASSUME NEW n \in Runs, turn'[n] > turn[n] PROVE Unheard(n) = {}
        OBVIOUS
      <3>1. turn'[n] # turn[n] BY <1>1 DEF IInv, Types, TypeAgent
      <3>2. At("dispatch", n) BY <1>1, <2>1, <3>1, TurnMoves, ConversationAssumption DEF IInv
      <3> QED BY <1>1, <3>2 DEF IInv, WorkerKnows, At
    <2> QED BY <1>1, <2>1
  <1> QED BY <1>1, Inductive, PTL DEF Spec, NoTurnWhileAsking
================================================================================
