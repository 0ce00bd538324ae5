----------------------------- MODULE Conversation -----------------------------
(***************************************************************************)
(* What the platform and the Agent of one Requirement say to each other.   *)
(* A worker opens a session for a Run, starts a turn with the reviewed     *)
(* input, answers the Agent's tool calls from durable results, records its *)
(* questions and delivers the user's answers.  A question outlives the     *)
(* process that asked it: once all questions are answered and the Run is   *)
(* preserved, a successor Run is restored from its checkpoint and gets the *)
(* answers in its input.                                                   *)
(*                                                                         *)
(* A step is one transaction under run_store::lock or one message.  The    *)
(* Agent (app-server) is free to send any request at any time of a turn,   *)
(* repeated or late.  The controller may crash between two steps.  Of the  *)
(* coordinator only the proof of a stop is here (see Execution).           *)
(***************************************************************************)
EXTENDS Integers, Sequences, FiniteSets

CONSTANTS
    MaxRuns,        \* bound: Runs of the Requirement
    MaxTurns,       \* bound: turns of one Run
    Rpcs,           \* ids the Agent gives its requests
    MaxQueue,       \* bound: messages on the way; Transport.defer holds 64
    Cases           \* bounds, chosen together: Runs, turns, ids and kinds of requests,
                    \* crashes of the controller, failures of the app-server, commands

ToolKinds == {"commit", "completion", "blocker", "ask"}

ASSUME ConversationAssumption ==
    /\ MaxRuns \in Nat \ {0} /\ MaxTurns \in Nat \ {0} /\ MaxQueue \in Nat \ {0}
    /\ Cases \subseteq [runs : 1..MaxRuns, turns : 1..MaxTurns, rpcs : SUBSET Rpcs,
                       tools : SUBSET ToolKinds, crash : Nat, failure : Nat, command : Nat]

Runs == 1..MaxRuns
Questions == Runs \X Rpcs
Requests  == Runs \X Rpcs

VARIABLES
    epoch,      \* execution_control.incarnation
    paused,     \* requirement.paused
    run,        \* agent_run: "none", "live" (Created or Running), "quiescent"
    inc,        \* agent_run.incarnation
    stop,       \* agent_run.stop_requested (with or without a blocker)
    wanted,     \* agent_run.user_paused or storage_resume_requested
    session,    \* runtime_session
    request,    \* runtime_request: result of each request, "none" if unknown
    original,   \* runtime_request.original: the tool it calls
    operation,  \* workspace_operation "rpc:<id>"
    question,   \* runtime_question.resume_state
    job,        \* runtime_resume of a source: status and the incarnation
    worker,     \* the thread of runtime_service: where it is and what it holds
    pending,    \* Transport.pending
    wire,       \* messages of the app-server not yet received
    turn,       \* the turn the app-server works on, 0 before the first
    told,       \* the answers the Agent of a Run was given
    reply,      \* the results it was given
    bounds      \* the case, with what is left of the bounded events

control == <<epoch, paused>>
agentRun == <<run, inc, stop, wanted>>
protocol == <<request, original, operation>>
agent == <<wire, turn, told, reply>>
vars == <<control, agentRun, session, protocol, question, job, worker, pending, agent, bounds>>

NoSession == [open |-> FALSE, connected |-> FALSE, turn |-> 0, waiting |-> FALSE, ended |-> "none"]
NoJob     == [status |-> "none", inc |-> 0]
Idle      == [at |-> "idle", run |-> 0, message |-> <<>>, answers |-> {}]

Latest == Cardinality({n \in Runs : run[n] # "none"})

-------------------------------------------------------------------------------
\* agent_run, requirement and execution_control as runtime_store::allowed reads them
Allowed(n) ==
    /\ run[n] = "live" /\ inc[n] = epoch /\ ~stop[n] /\ ~paused
    /\ session[n].ended = "none"
    /\ \A m \in Runs : session[m].ended # "blocker"

Current(n, t) == session[n].connected /\ session[n].turn = t
ValidSession(n, t) == Current(n, t) /\ session[n].ended = "none"

Of(n, states) == {q \in Questions : q[1] = n /\ question[q] \in states}
Unheard(n) == Of(n, {"waiting", "pending"})

\* runtime_store::input: the answers a Run starts with
M_OnlyLinked == {q \in Questions : question[q] = "linked"}
Confirmed == {q \in Questions : question[q] \in {"pending", "live", "linked"}}

\* runtime_questions::resumable, for the Run a source belongs to
M_ResumableAnyAnswer(s, e) ==
    /\ run[s] = "quiescent" /\ s = Latest /\ ~paused /\ epoch = e
    /\ \A n \in Runs : run[n] # "live" /\ session[n].ended # "blocker"
    /\ session[s].ended = "none"
    /\ wanted[s] \/ Of(s, {"pending"}) # {}
    /\ \A r \in Requests : operation[r] \in {"none", "complete"}
M_ResumableLive(s, e) ==
    /\ ~paused /\ epoch = e /\ session[s].ended = "none" /\ run[s] # "none" /\ s = Latest
    /\ wanted[s] \/ Of(s, {"pending"}) # {}
    /\ \A q \in Questions : question[q] # "waiting"
Resumable(s, e) ==
    /\ run[s] = "quiescent" /\ s = Latest /\ ~paused /\ epoch = e
    /\ \A n \in Runs : run[n] # "live" /\ session[n].ended # "blocker"
    /\ session[s].ended = "none"                    \* else the phase is validation
    /\ wanted[s] \/ Of(s, {"pending"}) # {}
    /\ \A q \in Questions : question[q] # "waiting"
    /\ \A r \in Requests : operation[r] \in {"none", "complete"}

-------------------------------------------------------------------------------
Init ==
    /\ epoch = 1 /\ paused = FALSE
    /\ run = [n \in Runs |-> IF n = 1 THEN "live" ELSE "none"]
    /\ inc = [n \in Runs |-> IF n = 1 THEN 1 ELSE 0]
    /\ stop = [n \in Runs |-> FALSE] /\ wanted = [n \in Runs |-> FALSE]
    /\ session = [n \in Runs |-> NoSession]
    /\ request = [r \in Requests |-> "none"] /\ original = [r \in Requests |-> "none"]
    /\ operation = [r \in Requests |-> "none"]
    /\ question = [q \in Questions |-> "none"]
    /\ job = [n \in Runs |-> NoJob]
    /\ worker = Idle /\ pending = <<>>
    /\ wire = <<>> /\ turn = [n \in Runs |-> 0]
    /\ told = [n \in Runs |-> {}] /\ reply = [r \in Requests |-> "none"]
    /\ bounds \in Cases

At(pc, n) == worker.at = pc /\ worker.run = n
Go(pc, n) == worker' = [Idle EXCEPT !.at = pc, !.run = n]

\* an error leaves Client::run; execute then stops the Run
Fails(n) == Go("close", n)
May(event) == bounds[event] > 0 /\ bounds' = [bounds EXCEPT ![event] = @ - 1]

-------------------------------------------------------------------------------
(***************************************************************************)
(* runtime_service: a reserved Run first, else a recovery job.             *)
(***************************************************************************)
\* runtime_service::reserved
Startable(n) == run[n] = "live" /\ inc[n] = epoch /\ ~stop[n] /\ ~session[n].open
Reserved(n) ==
    /\ worker.at = "idle" /\ Startable(n)
    /\ Go("open", n)
    /\ UNCHANGED <<control, agentRun, session, protocol, question, job, pending, agent, bounds>>

\* runtime_resume::saved: a job of this incarnation, or one to be replaced
Saved(s) == job[s].status = "prepared" /\ job[s].inc = epoch
M_NeverReplaced(s) == job[s].status = "none"
Replaced(s) ==
    \/ job[s].status = "none"
    \/ job[s].status \in {"restoring", "prepared"} /\ job[s].inc # epoch

NextJob(s) ==
    /\ worker.at = "idle" /\ \A n \in Runs : ~Startable(n)
    /\ Latest < bounds.runs /\ Resumable(s, epoch)
    /\ \/ Saved(s) /\ Go("prepare", s) /\ UNCHANGED job
       \/ /\ Replaced(s) /\ Go("restore", s)
          /\ job' = [job EXCEPT ![s] = [status |-> "restoring", inc |-> epoch]]
    /\ UNCHANGED <<control, agentRun, session, protocol, question, pending, agent, bounds>>

\* the second transaction of runtime_resume::next; its error leaves the job as it is
Restore(s) ==
    /\ At("restore", s)
    /\ IF Resumable(s, job[s].inc)
         THEN job' = [job EXCEPT ![s].status = "prepared"] /\ Go("prepare", s)
         ELSE UNCHANGED job /\ worker' = Idle
    /\ UNCHANGED <<control, agentRun, session, protocol, question, pending, agent, bounds>>

\* preparation_service, admitted by preparation_allowed; or retried in a later tick
Prepare(s) ==
    /\ At("prepare", s)
    /\ IF Resumable(s, job[s].inc) THEN Go("bind", s) ELSE worker' = Idle
    /\ UNCHANGED <<control, agentRun, session, protocol, question, job, pending, agent, bounds>>

\* link_resume: the answers that the successor is to hear
LinkAnswers(s, n) ==
    question' = [q \in Questions |-> IF question[q] = "pending" THEN "linked" ELSE question[q]]

\* runtime_resume::bind
Bind(s, n) ==
    /\ At("bind", s)
    /\ n = Latest + 1
    /\ IF Resumable(s, job[s].inc)
         THEN /\ run' = [run EXCEPT ![n] = "live"] /\ inc' = [inc EXCEPT ![n] = job[s].inc]
              /\ job' = [job EXCEPT ![s].status = "dispatched"]
              /\ LinkAnswers(s, n)
              /\ Go("open", n)
         ELSE UNCHANGED <<run, inc, job, question>> /\ worker' = Idle
    /\ UNCHANGED <<control, stop, wanted, session, protocol, pending, agent, bounds>>

-------------------------------------------------------------------------------
(***************************************************************************)
(* runtime_client: one session.                                            *)
(***************************************************************************)
\* coordinator::start_runtime, runtime_store::open: an error leaves no session
Open(n) ==
    /\ At("open", n)
    /\ IF Allowed(n) /\ ~session[n].open
         THEN session' = [session EXCEPT ![n].open = TRUE] /\ Go("thread", n)
         ELSE UNCHANGED session /\ worker' = Idle
    /\ UNCHANGED <<control, agentRun, protocol, question, job, pending, agent, bounds>>

\* initialize, thread/start and runtime_store::thread
Thread(n) ==
    /\ At("thread", n)
    /\ IF Allowed(n)
         THEN session' = [session EXCEPT ![n].connected = TRUE] /\ Go("input", n)
         ELSE UNCHANGED session /\ Fails(n)
    /\ UNCHANGED <<control, agentRun, protocol, question, job, pending, agent, bounds>>

Input(n) ==
    /\ At("input", n)
    /\ worker' = [worker EXCEPT !.at = "dispatch", !.answers = Confirmed]
    /\ UNCHANGED <<control, agentRun, session, protocol, question, job, pending, agent, bounds>>

\* dispatch_turn: a fresh call is reserved (see Budget), then sent under the lock
Dispatch(n) ==
    /\ At("dispatch", n)
    /\ IF Allowed(n) /\ turn[n] < bounds.turns
         THEN /\ turn' = [turn EXCEPT ![n] = @ + 1]
              /\ told' = [told EXCEPT ![n] = @ \cup worker.answers]
              /\ Go("response", n)
         ELSE UNCHANGED <<turn, told>> /\ Fails(n)
    /\ UNCHANGED <<control, agentRun, session, protocol, question, job, pending, wire, reply, bounds>>

\* Transport::defer
M_DeferAll == TRUE
DeferFits == Len(pending) < MaxQueue

\* response: what is not the answer is deferred; then runtime_store::turn
Response(n) ==
    /\ At("response", n) /\ wire # <<>>
    /\ wire' = Tail(wire)
    /\ IF Head(wire).kind = "started"
         THEN /\ UNCHANGED pending
              /\ IF Allowed(n)
                   THEN session' = [session EXCEPT ![n].turn = IF session[n].connected THEN turn[n] ELSE @]
                        /\ Go("guard", n)
                   ELSE UNCHANGED session /\ Fails(n)
         ELSE /\ UNCHANGED session
              /\ IF DeferFits
                   THEN pending' = Append(pending, Head(wire)) /\ UNCHANGED worker
                   ELSE UNCHANGED pending /\ Fails(n)
    /\ UNCHANGED <<control, agentRun, protocol, question, job, turn, told, reply, bounds>>

\* the second statement of runtime_questions::expire
Disconnected ==
    [n \in Runs |-> IF run[n] = "quiescent" \/ stop[n] \/ inc[n] # epoch
                    THEN [session[n] EXCEPT !.connected = FALSE] ELSE session[n]]

Guard(n) ==
    /\ At("guard", n)
    /\ session' = Disconnected
    /\ Go(IF Allowed(n) THEN "answers" ELSE "close", n)
    /\ UNCHANGED <<control, agentRun, protocol, question, job, pending, agent, bounds>>

\* answers, live_answers
Answers(n) ==
    /\ At("answers", n)
    /\ worker' = [worker EXCEPT !.at = "deliver",
           !.answers = IF Allowed(n) /\ session[n].connected THEN Of(n, {"pending"}) ELSE {}]
    /\ UNCHANGED <<control, agentRun, session, protocol, question, job, pending, agent, bounds>>

\* deliver_answer: the reply is written under the lock, recorded in a second transaction
M_RecordOnly(n) ==
    /\ At("deliver", n)
    /\ IF worker.answers = {} THEN Go("step", n)
       ELSE \E q \in worker.answers :
                worker' = [worker EXCEPT !.at = "delivered", !.message = q]
    /\ UNCHANGED <<control, agentRun, session, protocol, question, job, pending, agent, bounds>>
Deliver(n) ==
    /\ At("deliver", n)
    /\ IF worker.answers = {} THEN Go("step", n) /\ UNCHANGED told
       ELSE IF ~Allowed(n) THEN Fails(n) /\ UNCHANGED told
       ELSE \E q \in worker.answers :
                /\ told' = [told EXCEPT ![n] = @ \cup {q}]
                /\ worker' = [worker EXCEPT !.at = "delivered", !.message = q]
    /\ UNCHANGED <<control, agentRun, session, protocol, question, job, pending,
                   wire, turn, reply, bounds>>

M_ClearAlways(n, left) == FALSE
StillWaiting(n, left) == session[n].waiting /\ left # {}

Delivered(n) ==
    /\ At("delivered", n)
    /\ LET q == worker.message IN
       IF question[q] = "pending"
         THEN /\ question' = [question EXCEPT ![q] = "live"]
              /\ session' = [session EXCEPT ![n].waiting = StillWaiting(n, Unheard(n) \ {q})]
              /\ worker' = [worker EXCEPT !.at = "deliver", !.message = <<>>, !.answers = @ \ {q}]
         ELSE UNCHANGED <<question, session>> /\ Fails(n)
    /\ UNCHANGED <<control, agentRun, protocol, job, pending, agent, bounds>>

\* step: a deferred message before a new one, or none within 100 ms
Step(n) ==
    /\ At("step", n)
    /\ \/ /\ pending # <<>> /\ pending' = Tail(pending) /\ UNCHANGED wire
          /\ worker' = [worker EXCEPT !.at = "event", !.message = Head(pending)]
       \/ /\ pending = <<>> /\ wire # <<>> /\ wire' = Tail(wire) /\ UNCHANGED pending
          /\ worker' = [worker EXCEPT !.at = "event", !.message = Head(wire)]
       \/ pending = <<>> /\ wire = <<>> /\ Go("guard", n) /\ UNCHANGED <<pending, wire>>
    /\ UNCHANGED <<control, agentRun, session, protocol, question, job, turn, told, reply, bounds>>

\* completed, can_continue
M_ContinueAsking(n) == Allowed(n) /\ session[n].connected
CanContinue(n) == Allowed(n) /\ session[n].connected /\ ~session[n].waiting

TurnCompleted(n) ==
    /\ At("event", n) /\ worker.message.kind = "turn/completed"
    /\ IF worker.message.turn # turn[n] THEN Go("guard", n)
       ELSE Go(IF CanContinue(n) THEN "dispatch" ELSE "close", n)
    /\ UNCHANGED <<control, agentRun, session, protocol, question, job, pending, agent, bounds>>

-------------------------------------------------------------------------------
(***************************************************************************)
(* runtime_tools and runtime_questions::ask.                               *)
(***************************************************************************)
\* runtime_questions::ask
Ask(n) ==
    /\ At("event", n) /\ worker.message.kind = "ask"
    /\ LET q == <<n, worker.message.rpc>> IN
       IF question[q] # "none" THEN Go("guard", n) /\ UNCHANGED <<question, session>>
       ELSE IF ~Allowed(n) \/ ~Current(n, worker.message.turn)
         THEN Fails(n) /\ UNCHANGED <<question, session>>
       ELSE /\ question' = [question EXCEPT ![q] = "waiting"]
            /\ session' = [session EXCEPT ![n].waiting = TRUE]
            /\ Go("guard", n)
    /\ UNCHANGED <<control, agentRun, protocol, job, pending, agent, bounds>>

\* runtime_store::request: a resolved replay gets its result, another is an error
Resolved(r, tool) == request[r] \in {"done", "refused"} /\ original[r] = tool

Admitted(r, n, t) == request[r] = "none" /\ Allowed(n) /\ ValidSession(n, t)

Request(n) ==
    /\ At("event", n) /\ worker.message.kind \in ToolKinds \ {"ask"}
    /\ LET r == <<n, worker.message.rpc>>  m == worker.message IN
       IF Resolved(r, m.kind)
         THEN worker' = [worker EXCEPT !.at = "reply"] /\ UNCHANGED <<request, original>>
       ELSE IF Admitted(r, n, m.turn)
         THEN /\ request' = [request EXCEPT ![r] = "open"]
              /\ original' = [original EXCEPT ![r] = m.kind]
              /\ worker' = [worker EXCEPT !.at = "tool"]
       ELSE Fails(n) /\ UNCHANGED <<request, original>>
    /\ UNCHANGED <<control, agentRun, session, operation, question, job, pending, agent, bounds>>

\* ending_session, ending_allowed: nothing incomplete, a candidate to complete
Candidate(n) == \E r \in Requests : r[1] = n /\ operation[r] = "complete"
M_EndUnchecked(n, m) == Allowed(n) /\ ValidSession(n, m.turn)
MayEnd(n, m) ==
    /\ Allowed(n) /\ ValidSession(n, m.turn)
    /\ \A r \in Requests : r[1] = n => operation[r] \in {"none", "complete"}
    /\ m.kind = "completion" => Candidate(n)

\* runtime_store::end, or the fixed refusal
End(n) ==
    /\ At("tool", n) /\ worker.message.kind \in {"completion", "blocker"}
    /\ LET m == worker.message  r == <<n, m.rpc>> IN
       IF MayEnd(n, m)
         THEN /\ session' = [session EXCEPT ![n].ended = m.kind]
              /\ stop' = [stop EXCEPT ![n] = TRUE]
              /\ request' = [request EXCEPT ![r] = "done"]
         ELSE /\ request' = [request EXCEPT ![r] = "refused"]
              /\ UNCHANGED <<session, stop>>
    /\ worker' = [worker EXCEPT !.at = "reply"]
    /\ UNCHANGED <<control, run, inc, wanted, original, operation, question, job, pending,
                   agent, bounds>>

\* workspace_store::authorize
Authorized(n) ==
    /\ run[n] = "live" /\ inc[n] = epoch /\ ~stop[n] /\ ~paused
    /\ \A r \in Requests : r[1] # n => operation[r] \in {"none", "complete"}

\* workspace_store::intent, or the fixed refusal
Commit(n) ==
    /\ At("tool", n) /\ worker.message.kind = "commit"
    /\ LET r == <<n, worker.message.rpc>> IN
       IF Authorized(n) /\ operation[r] = "none"
         THEN /\ operation' = [operation EXCEPT ![r] = "pending"] /\ UNCHANGED request
              /\ worker' = [worker EXCEPT !.at = "broker"]
         ELSE /\ request' = [request EXCEPT ![r] = "refused"] /\ UNCHANGED operation
              /\ worker' = [worker EXCEPT !.at = "reply"]
    /\ UNCHANGED <<control, agentRun, session, original, question, job, pending, agent, bounds>>

\* the result is recorded before the Broker has finished
M_Early(n) ==
    /\ At("broker", n)
    /\ request' = [request EXCEPT ![<<n, worker.message.rpc>>] = "done"]
    /\ worker' = [worker EXCEPT !.at = "reply"]
    /\ UNCHANGED <<control, agentRun, session, original, operation, question, job, pending,
                   agent, bounds>>
\* workspace_store::perform succeeds, or leaves a partial operation and stops the Run
Broker(n) ==
    /\ At("broker", n)
    /\ LET r == <<n, worker.message.rpc>> IN
       \/ /\ Authorized(n)
          /\ operation' = [operation EXCEPT ![r] = "complete"]
          /\ worker' = [worker EXCEPT !.at = "result"]
          /\ UNCHANGED <<stop, request, bounds>>
       \/ /\ IF Authorized(n) THEN May("failure") ELSE UNCHANGED bounds
          /\ operation' = [operation EXCEPT ![r] = "partial"]
          /\ stop' = [stop EXCEPT ![n] = TRUE]
          /\ request' = [request EXCEPT ![r] = "refused"]
          /\ worker' = [worker EXCEPT !.at = "reply"]
    /\ UNCHANGED <<control, run, inc, wanted, session, original, question, job, pending, agent>>

\* runtime_store::result of a commit
Result(n) ==
    /\ At("result", n)
    /\ request' = [request EXCEPT ![<<n, worker.message.rpc>>] = "done"]
    /\ worker' = [worker EXCEPT !.at = "reply"]
    /\ UNCHANGED <<control, agentRun, session, original, operation, question, job, pending,
                   agent, bounds>>

Reply(n) ==
    /\ At("reply", n)
    /\ LET r == <<n, worker.message.rpc>> IN reply' = [reply EXCEPT ![r] = request[r]]
    /\ Go("guard", n)
    /\ UNCHANGED <<control, agentRun, session, protocol, question, job, pending,
                   wire, turn, told, bounds>>

\* the rest of execute: runtime_store::stop, then the worker's next tick
Close(n) ==
    /\ At("close", n)
    /\ session' = [session EXCEPT ![n].connected = IF inc[n] = epoch THEN FALSE ELSE @]
    /\ stop' = [stop EXCEPT ![n] = @ \/ run[n] = "live"]
    /\ worker' = Idle /\ pending' = <<>> /\ wire' = <<>>
    /\ UNCHANGED <<control, run, inc, wanted, protocol, question, job, turn, told, reply, bounds>>

-------------------------------------------------------------------------------
(***************************************************************************)
(* The Agent, the user, the coordinator and faults.                        *)
(***************************************************************************)
Talking == {"response", "guard", "answers", "deliver", "delivered", "step", "event",
            "tool", "broker", "result", "reply"}

\* the app-server sends a request of this turn or of an earlier one, perhaps again
Say(n, m) ==
    /\ worker.run = n /\ worker.at \in Talking /\ run[n] = "live"
    /\ m.turn \in 1..turn[n] /\ Len(wire) < MaxQueue
    /\ wire' = Append(wire, m)
    /\ UNCHANGED <<control, agentRun, session, protocol, question, job, worker, pending,
                   turn, told, reply, bounds>>

\* its answer to turn/start, before or after the first requests of the turn
Started(n) ==
    /\ At("response", n) /\ \A i \in 1..Len(wire) : wire[i].kind # "started"
    /\ wire' = Append(wire, [kind |-> "started", rpc |-> 0, turn |-> turn[n]])
    /\ UNCHANGED <<control, agentRun, session, protocol, question, job, worker, pending,
                   turn, told, reply, bounds>>

Said == [kind : bounds.tools, rpc : bounds.rpcs, turn : 1..bounds.turns]
        \cup [kind : {"turn/completed"}, rpc : {0}, turn : 1..bounds.turns]

\* runtime_questions::answer by the user, with the version the user saw
Answer(q) ==
    /\ question[q] = "waiting"
    /\ question' = [question EXCEPT ![q] = "pending"]
    /\ UNCHANGED <<control, agentRun, session, protocol, job, worker, pending, agent, bounds>>

\* coordinator: the group is gone (run_store::confirm_quiescent) and preserved
Quiesce(n) ==
    /\ run[n] = "live" /\ (stop[n] \/ inc[n] # epoch)
    /\ run' = [run EXCEPT ![n] = "quiescent"]
    /\ UNCHANGED <<control, inc, stop, wanted, session, protocol, question, job,
                   worker, pending, agent, bounds>>

\* the 2 h and 8 h deadlines of runtime_questions::expire
Expire(n) ==
    /\ run[n] = "live" /\ session[n].open /\ ~stop[n] /\ May("failure")
    /\ stop' = [stop EXCEPT ![n] = TRUE]
    /\ session' = [Disconnected EXCEPT ![n].connected = FALSE]
    /\ UNCHANGED <<control, run, inc, wanted, protocol, question, job, worker, pending, agent>>

\* an error of the transport, a stall, a rejected or interrupted turn
ClientFails(n) ==
    /\ worker.run = n /\ worker.at \in (Talking \cup {"thread", "input", "dispatch"}) \ {"tool", "broker", "result"}
    /\ May("failure") /\ Fails(n)
    /\ UNCHANGED <<control, agentRun, session, protocol, question, job, pending, agent>>

Pause ==
    /\ ~paused /\ May("command")
    /\ paused' = TRUE
    /\ stop' = [n \in Runs |-> stop[n] \/ run[n] = "live"]
    /\ wanted' = [n \in Runs |-> wanted[n] \/ run[n] = "live"]
    /\ UNCHANGED <<epoch, run, inc, session, protocol, question, job, worker, pending, agent>>

Unpause ==
    /\ paused /\ paused' = FALSE
    /\ UNCHANGED <<epoch, agentRun, session, protocol, question, job, worker, pending, agent, bounds>>

\* operator_control::request_storage_resume
Recheck ==
    /\ May("command")
    /\ run[Latest] = "quiescent" /\ session[Latest].ended = "none"
    /\ wanted' = [wanted EXCEPT ![Latest] = TRUE]
    /\ UNCHANGED <<control, run, inc, stop, session, protocol, question, job, worker, pending, agent>>

\* the controller dies; its successor has a new incarnation and no worker
Crash ==
    /\ May("crash")
    /\ epoch' = epoch + 1
    /\ worker' = Idle /\ pending' = <<>> /\ wire' = <<>>
    /\ UNCHANGED <<paused, agentRun, session, protocol, question, job, turn, told, reply>>

-------------------------------------------------------------------------------
Work(n) ==
    \/ Reserved(n) \/ NextJob(n) \/ Restore(n) \/ Prepare(n) \/ (\E m \in Runs : Bind(n, m))
    \/ Open(n) \/ Thread(n) \/ Input(n) \/ Dispatch(n) \/ Response(n) \/ Guard(n)
    \/ Answers(n) \/ Deliver(n) \/ Delivered(n) \/ Step(n) \/ TurnCompleted(n)
    \/ Ask(n) \/ Request(n) \/ End(n) \/ Commit(n) \/ Broker(n) \/ Result(n) \/ Reply(n)
    \/ Close(n)

Next ==
    \/ \E n \in Runs : Work(n) \/ Started(n) \/ Quiesce(n) \/ Expire(n) \/ ClientFails(n)
    \/ \E n \in Runs, m \in Said : Say(n, m)
    \/ \E q \in Questions : Answer(q)
    \/ Pause \/ Unpause \/ Recheck \/ Crash

Spec == Init /\ [][Next]_vars

\* the worker ticks, a request for a turn is answered in time, the coordinator
\* proves stops, the operator lifts a pause
Fairness ==
    /\ \A n \in Runs : WF_vars(Work(n)) /\ WF_vars(Started(n)) /\ WF_vars(Quiesce(n))
    /\ WF_vars(Unpause)
FairSpec == Spec /\ Fairness

-------------------------------------------------------------------------------
(***************************************************************************)
(* Properties.                                                             *)
(***************************************************************************)
TypeOK ==
    /\ epoch \in Nat /\ paused \in BOOLEAN
    /\ run \in [Runs -> {"none", "live", "quiescent"}] /\ inc \in [Runs -> 0..epoch]
    /\ stop \in [Runs -> BOOLEAN] /\ wanted \in [Runs -> BOOLEAN]
    /\ \A n \in Runs : session[n] \in [open : BOOLEAN, connected : BOOLEAN, turn : 0..MaxTurns,
                                       waiting : BOOLEAN, ended : {"none", "completion", "blocker"}]
    /\ request \in [Requests -> {"none", "open", "done", "refused"}]
    /\ original \in [Requests -> ToolKinds \cup {"none"}]
    /\ operation \in [Requests -> {"none", "pending", "partial", "complete"}]
    /\ question \in [Questions -> {"none", "waiting", "pending", "live", "linked"}]
    /\ \A n \in Runs : job[n].status \in {"none", "restoring", "prepared", "dispatched"}
    /\ Len(pending) <= MaxQueue /\ Len(wire) <= MaxQueue + 1
    /\ told \in [Runs -> SUBSET Questions]

\* What the Agent was told of a request is its durable result, and a commit it
\* was told about exists: a crash or a repetition cannot make the two differ.
ReplyIsDurable ==
    \A r \in Requests :
        /\ reply[r] # "none" => reply[r] = request[r]
        /\ reply[r] = "done" /\ original[r] = "commit" => operation[r] = "complete"
        /\ operation[r] # "none" => original[r] = "commit"

\* Every Agent that works knows every answer given before its Run was created:
\* live answers of an earlier Run and answers linked to it are both in its input.
EveryAnswerHeard ==
    \A n \in Runs : turn[n] > 0 =>
        \A q \in Questions : q[1] < n /\ question[q] # "none" => q \in told[n]

\* Only the newest Run can have questions that are open or answers that no Agent
\* has: the resume job looks for them at the newest Run and nowhere else.
OnlyNewestAsks ==
    \A q \in Questions : question[q] \in {"waiting", "pending"} => q[1] = Latest

\* An answer counts as delivered only when the Agent that asked was sent it.
DeliveredWasSent ==
    \A q \in Questions : question[q] = "live" => q \in told[q[1]]

\* A Run that works knows whether it waits for a person: the clock that stops it
\* after two hours runs exactly while one of its questions is not settled.
WaitingIsAsking ==
    \A n \in Runs : run[n] = "live" => (session[n].waiting <=> Unheard(n) # {})

\* A declared ending was possible: the candidate exists and no operation of the
\* Broker is open, then or later.
EndedClean ==
    \A n \in Runs : session[n].ended # "none" =>
        /\ \A r \in Requests : r[1] = n => operation[r] \in {"none", "complete"}
        /\ session[n].ended = "completion" => Candidate(n)

\* One Run works at a time, and only the newest.
OneLiveRun == \A n \in Runs : run[n] = "live" => n = Latest

\* No turn starts while a question of its Run is unanswered or its answer unsent.
NoTurnWhileAsking ==
    [][\A n \in Runs : turn'[n] > turn[n] => Unheard(n) = {}]_vars

\* An answer the user gave reaches an Agent, through the session that asked or a
\* successor, unless its Run ended, another question is open, an operation of the
\* Broker is incomplete, or a recovery job of this incarnation failed to restore.
Stuck ==
    \/ \E n \in Runs : session[n].ended # "none"
    \/ \E q \in Questions : question[q] = "waiting"
    \/ \E r \in Requests : operation[r] \in {"pending", "partial"}
    \/ Latest = bounds.runs                      \* the bound of the model
    \/ job[Latest].status = "restoring" /\ job[Latest].inc = epoch /\ worker.at # "restore"
AnswerArrives ==
    \A q \in Questions : question[q] = "pending" ~> (question[q] \in {"live", "linked"} \/ Stuck)

\* Agent and rows agree on replies, questions, answers and endings, across Runs,
\* crashes and repeated requests.
ConversationHolds ==
    /\ TypeOK /\ ReplyIsDurable /\ EveryAnswerHeard /\ OnlyNewestAsks
    /\ DeliveredWasSent /\ WaitingIsAsking /\ EndedClean /\ OneLiveRun

===============================================================================
