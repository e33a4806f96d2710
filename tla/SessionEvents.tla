---------------------------- MODULE SessionEvents ----------------------------
(***************************************************************************)
(* How the events of one conversation reach the phones that watch it       *)
(* (packages/daemon/src/session/log.ts; record, markLive, markStreaming,   *)
(* finishStreaming, catchUp in packages/daemon/src/index.ts; hello in      *)
(* packages/daemon/src/server.ts and relay-client.ts; cursors.ts,          *)
(* daemonConnection.ts and daemonFrame.ts in packages/app/src).            *)
(*                                                                         *)
(* An event is its `seq'.  A frame is the set of events it carries: the    *)
(* phone treats session.event and session.replay alike, by the cursor.     *)
(* `Phones' are those that were told of the session and have it on screen; *)
(* each has one socket, which delivers in order until it drops with        *)
(* everything in flight.                                                   *)
(***************************************************************************)
EXTENDS Integers, Sequences, FiniteSets, FiniteSetsExt

CONSTANTS
    Phones,
    MaxEvents,    \* bound: events the conversation has in all
    Keep, Slack,  \* MAX_EVENTS, and how far past it the log grows before a trim
    BatchSize,    \* REPLAY_BATCH_SIZE
    MaxDrops,     \* bound: how often sockets drop
    RelayRoom,    \* phones are in a relay room: a frame reaches every socket of it
    PromptsEarly, \* a phone prompts a resumed session before its history is loaded
    DropsEarly    \* a socket may drop before its phone has seen any event

ASSUME Sizes == /\ MaxEvents \in Nat /\ Keep \in Nat \ {0} /\ Slack \in Nat
                /\ BatchSize \in Nat \ {0} /\ MaxDrops \in Nat
ASSUME Modes == {RelayRoom, PromptsEarly, DropsEarly} \subseteq BOOLEAN

VARIABLES
    next,      \* log.nextSeq
    first,     \* the seq of log.entries[0]
    live,      \* session.live
    streaming, \* session.streamingReplay
    pending,   \* session.pendingReplay
    loading,   \* the resumed session's agent is still being connected
    link,      \* each phone's socket: down, open but not answered, up
    hello,     \* the cursor in the hello on its way, or None
    wire,      \* frames on their way to each phone
    cursor,    \* the phone's cursor of this session, -1 when it has none
    shown,     \* how often each event is in the phone's transcript
    drops

logVars   == <<next, first>>
phoneVars == <<cursor, shown>>
vars == <<logVars, live, streaming, pending, loading, link, hello, wire, phoneVars, drops>>

None == -2
Seqs == 0 .. MaxEvents

\* Types of the daemon's session, of the sockets, and of what phones hold.
TypeOK ==
    /\ next \in Seqs /\ first \in Seqs
    /\ live \in BOOLEAN /\ streaming \in BOOLEAN /\ loading \in BOOLEAN
    /\ pending \subseteq Seqs
    /\ link \in [Phones -> {"down", "open", "up"}]
    /\ hello \in [Phones -> {None} \cup (-1 .. MaxEvents)]
    /\ wire \in [Phones -> Seq(SUBSET Seqs)]
    /\ cursor \in [Phones -> -1 .. MaxEvents]
    /\ shown \in [Phones -> [Seqs -> Nat]]
    /\ drops \in 0 .. MaxDrops

Init ==
    /\ next = 0 /\ first = 0
    /\ live = FALSE /\ streaming = FALSE /\ pending = {} /\ loading = TRUE
    /\ link = [p \in Phones |-> "up"] /\ hello = [p \in Phones |-> None]
    /\ wire = [p \in Phones |-> <<>>]
    /\ cursor = [p \in Phones |-> -1] /\ shown = [p \in Phones |-> [s \in Seqs |-> 0]]
    /\ drops = 0

-----------------------------------------------------------------------------
\* Slip: the log is trimmed before it is full.
AppendTrimmed ==
    /\ next < MaxEvents
    /\ next' = next + 1 /\ first' = next + 1 - Keep

\* SessionLog.append: the oldest entries go once the log is Slack past Keep.
Append1 ==
    /\ next < MaxEvents
    /\ next' = next + 1
    /\ first' = IF next + 1 - first > Keep + Slack THEN next + 1 - Keep ELSE first

\* SessionLog.since, in the state that follows an append too.
Since(c, from, to) == {s \in from .. to - 1 : s > c}

\* Slip: an event sent live while a hello is unanswered reaches that socket.
ReachedEarly == {p \in Phones : link[p] # "down"}

\* Sockets a broadcast reaches.  The LAN server sends to clients whose hello it
\* answered; the relay fans out to every app attached to the room.
Reached == {p \in Phones : link[p] = "up" \/ (RelayRoom /\ link[p] = "open")}

\* One frame to every socket reached.
Broadcast(frame) ==
    wire' = [p \in Phones |-> IF p \in Reached THEN Append(wire[p], frame) ELSE wire[p]]

-----------------------------------------------------------------------------
\* record(): what the agent says or replays.
Record ==
    /\ Append1
    /\ CASE ~live -> UNCHANGED <<pending, wire>>
         [] live /\ ~streaming -> Broadcast({next}) /\ UNCHANGED pending
         [] OTHER ->
              IF Cardinality(pending) + 1 >= BatchSize
              THEN Broadcast(pending \cup {next}) /\ pending' = {}
              ELSE pending' = pending \cup {next} /\ UNCHANGED wire
    /\ UNCHANGED <<live, streaming, loading, link, hello, phoneVars, drops>>

\* logUserMessage(): the echo of a prompt is sent at once, whatever is batched.
LogUserMessage ==
    /\ live /\ (streaming => PromptsEarly)
    /\ Append1
    /\ Broadcast({next})
    /\ UNCHANGED <<live, streaming, pending, loading, link, hello, phoneVars, drops>>

\* openStarted(): the agent is connected, the session announced, its backlog sent.
MarkLive ==
    /\ ~live /\ live' = TRUE /\ loading' = FALSE
    /\ Broadcast(Since(-1, first, next))
    /\ UNCHANGED <<logVars, streaming, pending, link, hello, phoneVars, drops>>

\* openResumed(): announced first; history follows in batches.
MarkStreaming ==
    /\ ~live /\ live' = TRUE /\ streaming' = TRUE
    /\ IF next = first THEN UNCHANGED wire ELSE Broadcast(Since(-1, first, next))
    /\ pending' = {}
    /\ UNCHANGED <<logVars, loading, link, hello, phoneVars, drops>>

\* The 16 ms timer of flushStreamingReplay.
FlushTimer ==
    /\ streaming /\ pending # {}
    /\ Broadcast(pending) /\ pending' = {}
    /\ UNCHANGED <<logVars, live, streaming, loading, link, hello, phoneVars, drops>>

\* The agent is attached (or failed to): the last batch, then plain sending.
FinishStreaming ==
    /\ streaming /\ loading
    /\ Broadcast(pending) /\ pending' = {}
    /\ streaming' = FALSE /\ loading' = FALSE
    /\ UNCHANGED <<logVars, live, link, hello, phoneVars, drops>>

\* Slip: the hello's cursor is ignored and the phone joins at the live edge.
JoinAtLiveEdge(p) ==
    /\ link[p] = "open" /\ hello[p] # None
    /\ link' = [link EXCEPT ![p] = "up"]
    /\ hello' = [hello EXCEPT ![p] = None]
    /\ UNCHANGED <<logVars, live, streaming, pending, loading, wire, phoneVars, drops>>

\* hello: the phone is admitted and catchUp() answers the cursor it named.  Over
\* the relay the answer goes out the way every frame does.
CatchUp(p) ==
    /\ link[p] = "open" /\ hello[p] # None
    /\ link' = [link EXCEPT ![p] = "up"]
    /\ hello' = [hello EXCEPT ![p] = None]
    /\ IF hello[p] = -1 \/ ~live THEN UNCHANGED wire
       ELSE IF RelayRoom THEN Broadcast(Since(hello[p], first, next))
       ELSE wire' = [wire EXCEPT ![p] = Append(@, Since(hello[p], first, next))]
    /\ UNCHANGED <<logVars, live, streaming, pending, loading, phoneVars, drops>>

-----------------------------------------------------------------------------
\* A socket drops with everything in flight either way.
Drop(p) ==
    /\ live /\ link[p] # "down" /\ drops < MaxDrops
    /\ DropsEarly \/ cursor[p] >= 0
    /\ drops' = drops + 1
    /\ link' = [link EXCEPT ![p] = "down"]
    /\ hello' = [hello EXCEPT ![p] = None]
    /\ wire' = [wire EXCEPT ![p] = <<>>]
    /\ UNCHANGED <<logVars, live, streaming, pending, loading, phoneVars>>

\* connect() and onopen: a new socket, and a hello naming the cursor.
Reconnect(p) ==
    /\ link[p] = "down"
    /\ link' = [link EXCEPT ![p] = "open"]
    /\ hello' = [hello EXCEPT ![p] = cursor[p]]
    /\ UNCHANGED <<logVars, live, streaming, pending, loading, wire, phoneVars, drops>>

\* Slip: the duplicate guard lets the last event seen through again.
SeenBefore(p, s) == s < cursor[p]

\* alreadySeen and advance, over the events of a frame in order.
AlreadySeen(p, s) == s <= cursor[p]
Fresh(p, frame) == {s \in frame : ~AlreadySeen(p, s)}
Shown(f, S) == [s \in Seqs |-> IF s \in S THEN f[s] + 1 ELSE f[s]]

\* handleSealedFrame: what is new is shown, and the cursor moves to its end.
Receive(p) ==
    /\ wire[p] # <<>>
    /\ wire' = [wire EXCEPT ![p] = Tail(@)]
    /\ LET new == Fresh(p, Head(wire[p]))
       IN  /\ shown' = [shown EXCEPT ![p] = Shown(@, new)]
           /\ cursor' = [cursor EXCEPT ![p] = IF new = {} THEN @ ELSE Max(new)]
    /\ UNCHANGED <<logVars, live, streaming, pending, loading, link, hello, drops>>

-----------------------------------------------------------------------------
Session == Record \/ LogUserMessage \/ MarkLive \/ MarkStreaming \/ FlushTimer \/ FinishStreaming

Next == Session \/ \E p \in Phones : CatchUp(p) \/ Drop(p) \/ Reconnect(p) \/ Receive(p)

Safety == Init /\ [][Next]_vars

\* Timers fire, connects end, open sockets deliver, a phone keeps reconnecting.
Fairness ==
    /\ WF_vars(FlushTimer) /\ WF_vars(FinishStreaming) /\ WF_vars(MarkLive)
    /\ \A p \in Phones : WF_vars(CatchUp(p)) /\ WF_vars(Reconnect(p)) /\ WF_vars(Receive(p))

Spec == Safety /\ Fairness

-----------------------------------------------------------------------------
\* A transcript has no hole: whatever the sockets did, each event up to the
\* phone's cursor is shown, unless the log had dropped it (wire.ts:81).
NoGap == \A p \in Phones : \A s \in 0 .. cursor[p] : shown[p][s] > 0 \/ s < first

\* No event is in a transcript twice, however replays, batches and live frames
\* overlap (cursors.ts:34).
ShownOnce == \A p \in Phones : \A s \in Seqs : shown[p][s] <= 1

\* A transcript catches up with the log: the tail of an interrupted turn is not
\* lost when its socket was (cursors.ts:5).
CatchesUp == \A p \in Phones : <>[](live => cursor[p] = next - 1)
=============================================================================
