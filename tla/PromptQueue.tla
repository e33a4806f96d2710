----------------------------- MODULE PromptQueue -----------------------------
(***************************************************************************)
(* One conversation's turn loop and the messages waiting behind it         *)
(* (packages/daemon/src/daemon/prompt-queue.ts, DaemonState.cancel in      *)
(* packages/daemon/src/index.ts), together with the agent it drives.       *)
(*                                                                         *)
(* The daemon is one JavaScript thread: a handler runs until it awaits.    *)
(* `pc' names the await the turn loop is parked on.  Continuations of      *)
(* promises already settled run before the next frame of a phone is read,  *)
(* so an action of a phone waits until no continuation is `Runnable'; what *)
(* the agent sends is dispatched by promise continuations of its own and   *)
(* may fall between any two of them.                                       *)
(*                                                                         *)
(* The agent is external.  It is modelled from what prompt-queue.ts        *)
(* expects of it and from the reference agent the tests run                *)
(* (packages/daemon/src/testing/gg-agent.ts).  Two messages never carry    *)
(* the same text, so a message stands for its text, its queue entry, and   *)
(* the id the agent gives it.                                              *)
(***************************************************************************)
EXTENDS Naturals, Sequences, FiniteSets

CONSTANTS
    Msgs,          \* every message of the run
    Late,          \* texts the agent itself hands back to be run next
    Files,         \* messages that carry attachments
    GGQueue,       \* the agent announced ggCapabilities.queue
    DiskMayFail,   \* storing an attachment can fail (disk full, over a limit)
    AgentMayFail,  \* the agent can answer session/prompt or _gg/queue/cancel with an
                   \* error, and the connect can fail
    MaxStops,      \* how often the user presses stop
    MaxControls    \* how many goal or plan-decision turns are started

ASSUME MessageSets == Late \subseteq Msgs /\ Files \subseteq Msgs \ Late
ASSUME Switches == /\ GGQueue \in BOOLEAN /\ DiskMayFail \in BOOLEAN
                   /\ AgentMayFail \in BOOLEAN
ASSUME Bounds == MaxStops \in Nat /\ MaxControls \in Nat

VARIABLES
    ready,       \* session.ready; `attached': session.handle is set, the rest still awaited
    working,     \* session.working
    cancelling,  \* session.cancelling
    pc,          \* the await the turn loop is parked on
    turn,        \* next.texts: the messages of the turn being prepared or run
    control,     \* next is a goal turn or a plan decision
    queue,       \* session.queue
    forwarded,   \* entries with entry.forwarded
    named,       \* entries with entry.agentId
    sent,        \* session.sentForwarded
    store,       \* the `storing' promise of each message
    queueAck,    \* the _gg/queue request of each message
    cancelAck,   \* the _gg/queue/cancel request of each message
    logged,      \* how many user_message events each message has
    returned,    \* messages handed back to the composer
    withdrawn,   \* messages cancelQueued reported withdrawn
    rejected,    \* messages whose prompt failed before they were logged
    dropped,     \* history: messages a failed turn took off the queue and lost
    stopWaiting, \* a cancel() is awaiting session.ready
    stops, controls, used,   \* what the users have done so far
    toAgent, fromAgent,      \* the agent's stdin and stdout
    agentTurn,   \* what the agent is running
    agentQueue,  \* the agent's own queue
    heard        \* how often the agent read each message

loopVars  == <<working, cancelling, pc, turn, control>>
entryVars == <<forwarded, named, sent>>
fateVars  == <<logged, returned, withdrawn, rejected, dropped>>
userVars  == <<stops, controls, used>>
agentVars == <<agentTurn, agentQueue, heard>>
vars == <<ready, loopVars, queue, entryVars, store, queueAck, cancelAck, fateVars,
          stopWaiting, userVars, toAgent, fromAgent, agentVars>>

ToAgent   == [kind : {"prompt", "control", "queue", "unqueue", "cancel"}, items : SUBSET Msgs]
FromAgent == [kind : {"drained", "cancelled", "leftover", "answer", "error"},
              items : SUBSET Msgs]

\* Types of the state: the daemon's fields, the two pipes, and the agent.
TypeOK ==
    /\ ready \in {"pending", "attached", "ok", "failed"}
    /\ working \in BOOLEAN /\ cancelling \in BOOLEAN /\ control \in BOOLEAN
    /\ pc \in {"idle", "storing", "opening", "prompting", "taking", "leaving"}
    /\ turn \subseteq Msgs /\ queue \subseteq Msgs
    /\ forwarded \subseteq Msgs /\ named \subseteq Msgs /\ sent \subseteq Msgs
    /\ store \in [Msgs -> {"none", "pending", "ok", "failed"}]
    /\ queueAck \in [Msgs -> {"none", "asked", "ok", "refused"}]
    /\ cancelAck \in [Msgs -> {"none", "asked", "yes", "no", "error"}]
    /\ logged \in [Msgs -> Nat] /\ heard \in [Msgs -> Nat]
    /\ returned \subseteq Msgs /\ withdrawn \subseteq Msgs /\ rejected \subseteq Msgs
    /\ dropped \subseteq Msgs
    /\ stopWaiting \in BOOLEAN
    /\ stops \in Nat /\ controls \in Nat /\ used \subseteq Msgs
    /\ toAgent \in Seq(ToAgent) /\ fromAgent \in Seq(FromAgent)
    /\ agentTurn \in {"none", "prompt", "control"} /\ agentQueue \subseteq Msgs

\* A session opened by session.start is connected before it is prompted; a
\* resumed one may be prompted while its agent is still being started.
Init ==
    /\ ready \in {"ok", "pending"}
    /\ working = FALSE /\ cancelling = FALSE /\ pc = "idle" /\ turn = {} /\ control = FALSE
    /\ queue = {} /\ forwarded = {} /\ named = {} /\ sent = {}
    /\ store = [m \in Msgs |-> "none"]
    /\ queueAck = [m \in Msgs |-> "none"] /\ cancelAck = [m \in Msgs |-> "none"]
    /\ logged = [m \in Msgs |-> 0] /\ heard = [m \in Msgs |-> 0]
    /\ returned = {} /\ withdrawn = {} /\ rejected = {} /\ dropped = {}
    /\ stopWaiting = FALSE /\ stops = 0 /\ controls = 0 /\ used = {}
    /\ toAgent = <<>> /\ fromAgent = <<>> /\ agentTurn = "none" /\ agentQueue = {}

-----------------------------------------------------------------------------
\* The `storing' promises of every message of the turn are fulfilled.
Stored == \A m \in turn : store[m] = "ok"
StoreFailed == \E m \in turn : store[m] = "failed"

\* A continuation of the turn loop can run: no frame of a phone is read first.
Runnable ==
    \/ pc \in {"storing", "taking"} /\ (Stored \/ StoreFailed)
    \/ pc = "opening" /\ ready \in {"ok", "failed"}
    \/ pc = "leaving"

Storing(m) == IF m \in Files THEN "pending" ELSE "ok"
Count(f, S) == [m \in Msgs |-> IF m \in S THEN f[m] + 1 ELSE f[m]]

\* logUserMessage: one user_message event for each of these messages.
LogUserMessages(S) == logged' = Count(logged, S)

\* Slip: the queue is copied into the turn, not spliced.
TakeWithoutSplice ==
    /\ turn' = queue /\ sent' = queue \cap forwarded /\ UNCHANGED queue
    /\ pc' = IF queue = {} THEN "leaving" ELSE "taking"

\* Slip: what the agent was handed is not remembered when it is sent as a turn.
TakeWithoutRemembering ==
    /\ turn' = queue /\ queue' = {} /\ sent' = {}
    /\ pc' = IF queue = {} THEN "leaving" ELSE "taking"

\* takeQueuedTurn, up to its first await.
TakeQueuedTurn ==
    IF queue = {}
    THEN /\ pc' = "leaving" /\ turn' = {}
         /\ UNCHANGED <<queue, sent>>
    ELSE /\ pc' = "taking" /\ turn' = queue /\ queue' = {}
         /\ sent' = queue \cap forwarded

\* returnQueue: clear the queue unsent and hand it back to the composer.
ReturnQueue == returned' = returned \cup queue /\ queue' = {}

\* A line written to the agent's stdin, and one on its stdout.
Tell(kind, S) == toAgent' = Append(toAgent, [kind |-> kind, items |-> S])
Say(kind, S) == fromAgent' = Append(fromAgent, [kind |-> kind, items |-> S])

\* The `finally' of prompt().
Finally ==
    /\ working' = FALSE /\ cancelling' = FALSE
    /\ pc' = "idle" /\ turn' = {} /\ control' = FALSE

-----------------------------------------------------------------------------
\* Slip: the turn is not marked before the first await.
StartTurnUnmarked(m) ==
    /\ UNCHANGED working /\ cancelling' = FALSE
    /\ pc' = "storing" /\ turn' = {m} /\ control' = FALSE
    /\ store' = [store EXCEPT ![m] = Storing(m)]

\* prompt() on an idle session: the turn starts, the message's files are written.
StartTurn(m) ==
    /\ working' = TRUE /\ cancelling' = FALSE
    /\ pc' = "storing" /\ turn' = {m} /\ control' = FALSE
    /\ store' = [store EXCEPT ![m] = Storing(m)]

\* prompt() during a turn: enqueue(), and forwardQueued() up to its await.
Enqueue(m) ==
    /\ queue' = queue \cup {m}
    /\ store' = [store EXCEPT ![m] = Storing(m)]
    /\ IF GGQueue /\ ready \in {"attached", "ok"} /\ ~cancelling /\ m \notin Files
       THEN /\ forwarded' = forwarded \cup {m}
            /\ queueAck' = [queueAck EXCEPT ![m] = "asked"]
            /\ Tell("queue", {m})
       ELSE UNCHANGED <<forwarded, queueAck, toAgent>>

\* A phone sends a message.
Prompt(m) ==
    /\ ~Runnable /\ m \notin used \cup Late
    /\ used' = used \cup {m}
    /\ IF working
       THEN Enqueue(m) /\ UNCHANGED loopVars
       ELSE StartTurn(m) /\ UNCHANGED <<queue, forwarded, queueAck, toAgent>>
    /\ UNCHANGED <<ready, named, sent, cancelAck, fateVars, stopWaiting, stops, controls,
                   fromAgent, agentVars>>

\* A goal turn or a plan decision: no message of its own, refused during a turn.
PromptControl ==
    /\ ~Runnable /\ ~working /\ controls < MaxControls
    /\ controls' = controls + 1
    /\ working' = TRUE /\ cancelling' = FALSE
    /\ pc' = "opening" /\ turn' = {} /\ control' = TRUE
    /\ UNCHANGED <<ready, queue, entryVars, store, queueAck, cancelAck, fateVars, stopWaiting,
                   stops, used, toAgent, fromAgent, agentVars>>

\* cancel(): the queue goes back to the composer, the agent is told to stop.
Stop ==
    /\ ~Runnable /\ stops < MaxStops
    /\ stops' = stops + 1
    /\ cancelling' = (working \/ cancelling)
    /\ ReturnQueue
    /\ IF ready = "ok"
       THEN Tell("cancel", {}) /\ UNCHANGED stopWaiting
       ELSE stopWaiting' = (ready # "failed") /\ UNCHANGED toAgent
    /\ UNCHANGED <<ready, working, pc, turn, control, entryVars, store, queueAck, cancelAck,
                   logged, withdrawn, rejected, dropped, controls, used, fromAgent, agentVars>>

\* Slip: the withdrawal is announced and the entry stays.
WithdrawKeeping(m) ==
    /\ ~Runnable /\ m \in queue /\ cancelAck[m] = "none"
    /\ withdrawn' = withdrawn \cup {m}
    /\ UNCHANGED <<ready, loopVars, queue, entryVars, store, queueAck, cancelAck, logged, returned,
                   rejected, dropped, stopWaiting, userVars, toAgent, fromAgent, agentVars>>

\* cancelQueued() of a message still in the queue.
Withdraw(m) ==
    /\ ~Runnable /\ m \in queue /\ cancelAck[m] = "none"
    /\ IF m \in named
       THEN /\ cancelAck' = [cancelAck EXCEPT ![m] = "asked"]
            /\ Tell("unqueue", {m})
            /\ UNCHANGED <<queue, withdrawn>>
       ELSE /\ queue' = queue \ {m} /\ withdrawn' = withdrawn \cup {m}
            /\ UNCHANGED <<cancelAck, toAgent>>
    /\ UNCHANGED <<ready, loopVars, entryVars, store, queueAck, logged, returned, rejected,
                   dropped, stopWaiting, userVars, fromAgent, agentVars>>

-----------------------------------------------------------------------------
\* An attachment's write ends.
StoreDone(m) ==
    /\ store[m] = "pending"
    /\ \E r \in {"ok"} \cup (IF DiskMayFail THEN {"failed"} ELSE {}) :
          store' = [store EXCEPT ![m] = r]
    /\ UNCHANGED <<ready, loopVars, queue, entryVars, queueAck, cancelAck, fateVars,
                   stopWaiting, userVars, toAgent, fromAgent, agentVars>>

\* connectSession of a resumed session: the handle is set, its preferences are
\* applied, and the promise is settled.
SessionOpens ==
    /\ ready \in {"pending", "attached"}
    /\ ready' \in (IF ready = "pending" THEN {"attached"} ELSE {"ok"})
                   \cup (IF AgentMayFail THEN {"failed"} ELSE {})
    /\ UNCHANGED <<loopVars, queue, entryVars, store, queueAck, cancelAck, fateVars,
                   stopWaiting, userVars, toAgent, fromAgent, agentVars>>

\* The rest of cancel(), once the session is ready.
StopReachesAgent ==
    /\ stopWaiting /\ ready \in {"ok", "failed"}
    /\ stopWaiting' = FALSE
    /\ IF ready = "ok" THEN Tell("cancel", {}) ELSE UNCHANGED toAgent
    /\ UNCHANGED <<ready, loopVars, queue, entryVars, store, queueAck, cancelAck, fateVars,
                   userVars, fromAgent, agentVars>>

\* Every file of the turn is on disk: its messages are echoed to every screen.
EchoTurn ==
    /\ pc \in {"storing", "taking"} /\ Stored
    /\ pc' = "opening"
    /\ LogUserMessages(turn)
    /\ UNCHANGED <<ready, working, cancelling, turn, control, queue, entryVars, store, queueAck,
                   cancelAck, returned, withdrawn, rejected, dropped, stopWaiting, userVars, toAgent,
                   fromAgent, agentVars>>

\* The first message's files cannot be stored: thrown outside the inner try, so
\* only `finally' runs.
FirstStoreFails ==
    /\ pc = "storing" /\ StoreFailed
    /\ rejected' = rejected \cup turn
    /\ Finally
    /\ UNCHANGED <<ready, queue, entryVars, store, queueAck, cancelAck, logged, returned,
                   withdrawn, dropped, stopWaiting, userVars, toAgent, fromAgent, agentVars>>

\* A queued message's files cannot be stored: thrown inside takeQueuedTurn,
\* after the queue was emptied into the turn.
TakenStoreFails ==
    /\ pc = "taking" /\ StoreFailed
    /\ ReturnQueue /\ Finally
    /\ dropped' = dropped \cup turn
    /\ UNCHANGED <<ready, entryVars, store, queueAck, cancelAck, logged, withdrawn, rejected,
                   stopWaiting, userVars, toAgent, fromAgent, agentVars>>

\* The session is ready: the turn goes to the agent.
SendTurn ==
    /\ pc = "opening" /\ ready = "ok"
    /\ pc' = "prompting"
    /\ Tell(IF control THEN "control" ELSE "prompt", turn)
    /\ UNCHANGED <<ready, working, cancelling, turn, control, queue, entryVars, store, queueAck,
                   cancelAck, fateVars, stopWaiting, userVars, fromAgent, agentVars>>

\* The session never became ready.
OpenFails ==
    /\ pc = "opening" /\ ready = "failed"
    /\ ReturnQueue /\ Finally
    /\ UNCHANGED <<ready, entryVars, store, queueAck, cancelAck, logged, withdrawn, rejected,
                   dropped, stopWaiting, userVars, toAgent, fromAgent, agentVars>>

\* Nothing was queued: `next' is undefined and prompt() runs its `finally'.
LeaveLoop ==
    /\ pc = "leaving"
    /\ Finally
    /\ UNCHANGED <<ready, queue, entryVars, store, queueAck, cancelAck, fateVars, stopWaiting,
                   userVars, toAgent, fromAgent, agentVars>>

-----------------------------------------------------------------------------
\* Read the next line of the agent's stdout.
Receive(kind) ==
    /\ fromAgent # <<>> /\ Head(fromAgent).kind = kind
    /\ fromAgent' = Tail(fromAgent)
    /\ UNCHANGED <<ready, cancelAck, withdrawn, rejected, dropped, stopWaiting, userVars,
                   toAgent, agentVars>>

\* session/prompt was answered: the turn is over, take what is queued.
TurnAnswered ==
    /\ pc = "prompting" /\ Receive("answer")
    /\ cancelling' = FALSE /\ control' = FALSE
    /\ TakeQueuedTurn
    /\ UNCHANGED <<working, forwarded, named, store, queueAck, logged, returned>>

\* Slip: a failed turn leaves its queue behind.
TurnFailedKeeping ==
    /\ pc = "prompting" /\ Receive("error")
    /\ Finally
    /\ UNCHANGED <<queue, returned, entryVars, store, queueAck, logged>>

\* session/prompt failed: what was waiting goes back to the composer.
TurnFailed ==
    /\ pc = "prompting" /\ Receive("error")
    /\ ReturnQueue /\ Finally
    /\ UNCHANGED <<entryVars, store, queueAck, logged>>

\* Slip: only the agent's id is compared, not the text.
MatchedById == Head(fromAgent).items \cap queue \cap named

\* matchQueued: the entries of ours an update names.
Matched == {m \in Head(fromAgent).items \cap queue : m \in named \/ m \in forwarded}

\* _gg/queue_update {drained}: folded into the running turn.
Drained ==
    /\ Receive("drained")
    /\ queue' = queue \ Matched
    /\ LogUserMessages(Matched)
    /\ UNCHANGED <<loopVars, entryVars, store, queueAck, returned>>

\* Slip: a message the agent handed back is taken off the queue and forgotten.
HandedBackAndDropped ==
    /\ Receive("cancelled")
    /\ queue' = queue \ Matched
    /\ sent' = sent \ (Head(fromAgent).items \ Matched)
    /\ UNCHANGED <<loopVars, returned, forwarded, named, store, queueAck, logged>>

\* _gg/queue_update {returned} during a turn: back to the composer.
HandedBack ==
    /\ Receive("cancelled")
    /\ queue' = queue \ Matched
    /\ returned' = returned \cup Matched
    /\ sent' = sent \ (Head(fromAgent).items \ Matched)
    /\ UNCHANGED <<loopVars, forwarded, named, store, queueAck, logged>>

\* _gg/queue_update {returned, turnEnded}: ours stay in our queue, those already
\* sent as a turn are old news, and anything else is adopted as the next turn.
LeftOver ==
    /\ Receive("leftover")
    /\ LET foreign == Head(fromAgent).items \ (Matched \cup sent)
       IN  /\ forwarded' = forwarded \ (Matched \cup foreign)
           /\ named' = named \ (Matched \cup foreign)
           /\ sent' = sent \ (Head(fromAgent).items \ Matched)
           \* An answer still to come belongs to an entry no longer queued.
           /\ queueAck' = [m \in Msgs |-> IF m \in foreign THEN "none" ELSE queueAck[m]]
           /\ IF working \/ foreign = {}
              THEN /\ queue' = queue \cup foreign
                   /\ store' = [m \in Msgs |-> IF m \in foreign THEN "ok" ELSE store[m]]
                   /\ UNCHANGED loopVars
              ELSE \E m \in foreign :
                     /\ working' = TRUE /\ cancelling' = FALSE
                     /\ pc' = "storing" /\ turn' = {m} /\ control' = FALSE
                     /\ queue' = queue \cup (foreign \ {m})
                     /\ store' = [f \in Msgs |-> IF f \in foreign THEN "ok" ELSE store[f]]
    /\ UNCHANGED <<logged, returned>>

\* The _gg/queue request of a message is answered (forwardQueued after its await).
\* Notifications can beat it.
QueueAnswered(m) ==
    /\ queueAck[m] \in {"ok", "refused"}
    /\ queueAck' = [queueAck EXCEPT ![m] = "none"]
    /\ named' = IF queueAck[m] = "ok" THEN named \cup {m} ELSE named
    /\ forwarded' = IF queueAck[m] = "ok" THEN forwarded ELSE forwarded \ {m}
    /\ UNCHANGED <<ready, loopVars, queue, sent, store, cancelAck, fateVars, stopWaiting,
                   userVars, toAgent, fromAgent, agentVars>>

\* Slip: the agent's "no" is ignored.
WithdrawRegardless(m) ==
    /\ cancelAck[m] \in {"yes", "no", "error"}
    /\ cancelAck' = [cancelAck EXCEPT ![m] = "none"]
    /\ IF m \in queue
       THEN queue' = queue \ {m} /\ withdrawn' = withdrawn \cup {m}
       ELSE UNCHANGED <<queue, withdrawn>>
    /\ UNCHANGED <<ready, loopVars, entryVars, store, queueAck, logged, returned, rejected,
                   dropped, stopWaiting, userVars, toAgent, fromAgent, agentVars>>

\* The _gg/queue/cancel request is answered or fails (cancelQueued after its await).
\* Only a "no" keeps the entry: a failed request is caught and taken for a "yes".
WithdrawAnswered(m) ==
    /\ cancelAck[m] \in {"yes", "no", "error"}
    /\ cancelAck' = [cancelAck EXCEPT ![m] = "none"]
    /\ IF cancelAck[m] # "no" /\ m \in queue
       THEN queue' = queue \ {m} /\ withdrawn' = withdrawn \cup {m}
       ELSE UNCHANGED <<queue, withdrawn>>
    /\ UNCHANGED <<ready, loopVars, entryVars, store, queueAck, logged, returned, rejected,
                   dropped, stopWaiting, userVars, toAgent, fromAgent, agentVars>>

-----------------------------------------------------------------------------
\* The agent.  It reads its stdin in order.
AgentReads(kind) ==
    /\ toAgent # <<>> /\ Head(toAgent).kind = kind
    /\ toAgent' = Tail(toAgent)
    /\ UNCHANGED <<ready, loopVars, queue, entryVars, store, fateVars, stopWaiting, userVars>>

AgentStarts ==
    /\ \/ AgentReads("prompt") /\ agentTurn' = "prompt"
       \/ AgentReads("control") /\ agentTurn' = "control"
    /\ agentQueue' = {}
    /\ heard' = Count(heard, Head(toAgent).items)
    /\ UNCHANGED <<queueAck, cancelAck, fromAgent>>

\* _gg/queue: taken while a turn runs, refused otherwise.
AgentQueues ==
    /\ AgentReads("queue")
    /\ \E m \in Head(toAgent).items :
          /\ agentQueue' = IF agentTurn = "prompt" THEN agentQueue \cup {m} ELSE agentQueue
          /\ queueAck' = [queueAck EXCEPT ![m] = IF agentTurn = "prompt" THEN "ok" ELSE "refused"]
    /\ UNCHANGED <<cancelAck, fromAgent, agentTurn, heard>>

\* _gg/queue/cancel: says whether it still had it, or fails and keeps what it has.
AgentUnqueues ==
    /\ AgentReads("unqueue")
    /\ \E m \in Head(toAgent).items :
          \/ /\ agentQueue' = agentQueue \ {m}
             /\ cancelAck' = [cancelAck EXCEPT ![m] = IF m \in agentQueue THEN "yes" ELSE "no"]
          \/ /\ AgentMayFail
             /\ cancelAck' = [cancelAck EXCEPT ![m] = "error"]
             /\ UNCHANGED agentQueue
    /\ UNCHANGED <<queueAck, fromAgent, agentTurn, heard>>

\* session/cancel: hands its queue back; with no turn running it changes nothing.
AgentCancels ==
    /\ AgentReads("cancel")
    /\ agentQueue' = {}
    /\ IF agentQueue = {} THEN UNCHANGED fromAgent ELSE Say("cancelled", agentQueue)
    /\ UNCHANGED <<queueAck, cancelAck, agentTurn, heard>>

\* A steering point: what is queued is folded into the running turn.
AgentDrains ==
    /\ agentTurn = "prompt" /\ agentQueue # {}
    /\ heard' = Count(heard, agentQueue)
    /\ Say("drained", agentQueue)
    /\ agentQueue' = {}
    /\ UNCHANGED <<ready, loopVars, queue, entryVars, store, queueAck, cancelAck, fateVars,
                   stopWaiting, userVars, toAgent, agentTurn>>

\* The last lines of a turn: its answer, and before or after it a note that hands
\* back what is left of the agent's queue.
LastLines(answer, left, noteFirst) ==
    LET reply == <<[kind |-> answer, items |-> {}]>>
        note  == <<[kind |-> "leftover", items |-> left]>>
    IN  IF left = {} THEN reply ELSE IF noteFirst THEN note \o reply ELSE reply \o note

\* The turn ends, with a late answer the agent wants run next among the leftovers.
AgentEnds ==
    /\ agentTurn # "none"
    /\ \E answer \in {"answer"} \cup (IF AgentMayFail THEN {"error"} ELSE {}),
          late \in SUBSET (Late \ used), noteFirst \in BOOLEAN :
          /\ fromAgent' = fromAgent \o LastLines(answer, agentQueue \cup late, noteFirst)
          /\ used' = used \cup late
    /\ agentTurn' = "none" /\ agentQueue' = {}
    /\ UNCHANGED <<ready, loopVars, queue, entryVars, store, queueAck, cancelAck, fateVars,
                   stopWaiting, stops, controls, toAgent, heard>>

-----------------------------------------------------------------------------
User   == (\E m \in Msgs : Prompt(m) \/ Withdraw(m)) \/ PromptControl \/ Stop
Loop   == EchoTurn \/ FirstStoreFails \/ TakenStoreFails \/ SendTurn \/ OpenFails \/ LeaveLoop
Pipe   == TurnAnswered \/ TurnFailed \/ Drained \/ HandedBack \/ LeftOver
Answers == \E m \in Msgs : QueueAnswered(m) \/ WithdrawAnswered(m)
Inbox  == AgentStarts \/ AgentQueues \/ AgentUnqueues \/ AgentCancels
Disk   == \E m \in Msgs : StoreDone(m)

Next == User \/ Loop \/ Pipe \/ Answers \/ Inbox \/ Disk \/ SessionOpens \/ StopReachesAgent
        \/ AgentDrains \/ AgentEnds

Safety == Init /\ [][Next]_vars

\* Nobody owes the daemon a message, a stop or a steering point.  Promise
\* continuations run, writes and connects end, each pipe is read to its end, and
\* an agent does not think for ever.
Fairness ==
    /\ WF_vars(Loop) /\ WF_vars(Pipe) /\ WF_vars(Answers) /\ WF_vars(Inbox) /\ WF_vars(Disk)
    /\ WF_vars(SessionOpens) /\ WF_vars(StopReachesAgent) /\ WF_vars(AgentEnds)

Spec == Safety /\ Fairness

-----------------------------------------------------------------------------
Logged == {m \in Msgs : logged[m] > 0}
Settled == Logged \cup returned \cup withdrawn \cup rejected
InLeftOvers == UNION {fromAgent[i].items : i \in 1..Len(fromAgent)}

\* ACP allows one turn at a time: whatever stops, failures and adopted messages
\* do, one session/prompt is in the pipe, running, or answered for each time the
\* loop is parked on handle.prompt, and none otherwise.
OneTurnAtATime ==
    Cardinality({i \in 1..Len(toAgent) : toAgent[i].kind \in {"prompt", "control"}})
      + (IF agentTurn = "none" THEN 0 ELSE 1)
      + Cardinality({i \in 1..Len(fromAgent) : fromAgent[i].kind \in {"answer", "error"}})
    = (IF pc = "prompting" THEN 1 ELSE 0)

\* A message reaches the agent at most once, whichever of the two queues it
\* travelled by: its own turn, a steering point, or the turn it was left over to.
NeverReadTwice == \A m \in Msgs : heard[m] <= 1

\* A message has one fate: it is a turn of the conversation once, or back in a
\* composer, or withdrawn, or refused, and while it waits it is none of these.
OneFate ==
    /\ \A m \in Msgs : logged[m] <= 1
    /\ Logged \cap (returned \cup withdrawn \cup rejected) = {}
    /\ returned \cap (withdrawn \cup rejected) = {} /\ withdrawn \cap rejected = {}
    /\ queue \cap (Settled \cup turn \cup dropped) = {} /\ Settled \cap dropped = {}

\* A message a phone was told is accepted is somewhere: waiting, about to be
\* sent, settled, or on its way back from the agent, unless the files of the turn
\* it was taken into could not be stored.
NothingLost == used \subseteq queue \cup turn \cup Settled \cup InLeftOvers \cup dropped

\* A message is never left queued on an idle session (prompt-queue.ts:158).
NeverStranded == working \/ queue = {}

\* What the agent has read is a turn of every transcript, whichever queue it
\* travelled by (prompt(), applyAgentQueueUpdate), or the note that it was read is
\* on its way; unless the user was told before that it came back or was withdrawn.
HeardIsShown ==
    \A m \in Msgs : heard[m] > 0 =>
        m \in Logged \cup returned \cup withdrawn \cup
              UNION {fromAgent[i].items : i \in {j \in 1..Len(fromAgent) :
                                                   fromAgent[j].kind = "drained"}}

\* A withdrawal the agent has answered leaves no copy with the agent, and neither
\* does one of a message the agent was not given or has handed back, even if the
\* request for it failed (cancelQueued). It says nothing of the two withdrawals that
\* can leave one: of a message the agent was given and has not named yet, and of one
\* the agent has while the request for it failed, which the code takes for a yes.
WithdrawalIsHonest ==
    [][\A m \in withdrawn' \ withdrawn :
          cancelAck[m] \in {"yes", "no"} \/ m \notin forwarded =>
              m \notin agentQueue' /\ heard'[m] = 0]_vars

=============================================================================
