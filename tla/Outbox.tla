------------------------------- MODULE Outbox -------------------------------
(***************************************************************************)
(* Messages typed on the phone, from the composer to the daemon, across    *)
(* sockets that drop, conversations not named yet, and daemon restarts     *)
(* (packages/app/src: outbox.ts, pendingSession.ts, daemonActions.ts,      *)
(* daemonConnection.ts, daemonFrame.ts, agentHistory.ts; on the daemon's   *)
(* side handler.ts and index.ts of packages/daemon/src).                   *)
(*                                                                         *)
(* A conversation (chat) is a number; it is addressed by a name: `Pending' *)
(* until its session.started, then the session id the daemon gave it, one  *)
(* per resume.  A message is the number in which it was typed.             *)
(***************************************************************************)
EXTENDS Integers, Sequences, SequencesExt, FiniteSets, Subsequences

CONSTANTS
    Providers,    \* agents the user can choose
    Nameless,     \* those that report no agentSessionId: nothing to resume by
    MaxQueued,    \* MAX_QUEUED
    MaxMessages,  \* bound: messages typed
    MaxChats,     \* bound: conversations begun, by this phone or another
    MaxDrops,     \* bound: sockets lost
    MaxUpsets,    \* bound: daemon restarts, reaped sessions, starts that fail
    MaxMoves      \* bound: times the user opens a row, or leaves

ASSUME Agents == Nameless \subseteq Providers
ASSUME OutboxBounds == /\ MaxQueued \in Nat /\ MaxMessages \in Nat /\ MaxChats \in Nat
                       /\ MaxDrops \in Nat /\ MaxUpsets \in Nat /\ MaxMoves \in Nat

VARIABLES
    ws,           \* the socket: down, up, or closing (writes fail, in flight arrives)
    outbox,       \* outbox.current
    pendingStart, \* pendingStart.current
    slot,         \* queued.current: the first message of a start already written, or 0
    sessionRef, screen, viewing, \* sessionRef.current, state.sessionId, viewingRef.current
    restoring, awaiting,         \* restoring.current, awaitingResume.current
    live,         \* liveSessions.current
    rows,         \* ids of state.sessions
    up, down,     \* frames on their way to the daemon and to the phone
    sessions,     \* the daemon's sessions, those still connecting included
    opening,      \* starts whose agent is not connected yet
    agent,        \* the provider of each chat begun, in order
    minted,       \* how many ids the daemon has given each chat
    fate,         \* what became of each message typed, in order
    home,         \* history: the chat each message was typed in
    heard,        \* history: what the daemon's sessions took, in order
    overtakers,   \* history: messages sent past an older one that could not go yet
    budget

screenVars == <<sessionRef, screen, viewing, restoring, awaiting>>
phoneVars  == <<ws, outbox, pendingStart, slot, screenVars, live, rows>>
daemonVars == <<sessions, opening, minted>>
history    == <<home, heard, overtakers>>
vars == <<phoneVars, up, down, daemonVars, agent, fate, history, budget>>

Chats == 1 .. MaxChats
Messages == 1 .. MaxMessages
Names == [chat : Chats, gen : Nat]
NoName == [chat |-> 0, gen |-> 0]
\* pendingSessionKey and isPendingSession.
Pending(c) == [chat |-> c, gen |-> 0]
IsPending(n) == n.gen = 0
Fates == {"waiting", "slot", "written", "heard", "refused", "lost", "stopped", "forgotten"}

StartOf(c) == [kind |-> "start", name |-> Pending(c), msg |-> 0]
PromptTo(n, m) == [kind |-> "prompt", name |-> n, msg |-> m]
Entries == [kind : {"start", "prompt"}, name : Names, msg : 0 .. MaxMessages]
Hello == [kind |-> "hello", name |-> NoName, msg |-> 0]
Resume(n) == [kind |-> "resume", name |-> n, msg |-> 0]

\* Types of the phone's refs, the frames in flight, and the daemon's sessions.
TypeOK ==
    /\ ws \in {"down", "up", "closing"}
    /\ outbox \in Seq(Entries) /\ Len(outbox) <= MaxQueued
    /\ pendingStart \in {NoName} \cup {Pending(c) : c \in Chats}
    /\ slot \in 0 .. MaxMessages
    /\ {sessionRef, screen, viewing, restoring} \subseteq Names \cup {NoName}
    /\ awaiting \in BOOLEAN
    /\ live \subseteq Names /\ rows \subseteq Names
    /\ {f.kind : f \in Range(up)} \subseteq {"hello", "start", "prompt", "resume"}
    /\ \A f \in Range(up) : IsPending(f.name) <=> f.kind \in {"hello", "start"}
    /\ {f.kind : f \in Range(down)} \subseteq {"providers", "started"}
    /\ sessions \subseteq Names /\ {n \in sessions : IsPending(n)} = {}
    /\ opening \subseteq sessions
    /\ agent \in Seq(Providers) /\ Len(agent) <= MaxChats
    /\ minted \in [Chats -> Nat]
    /\ fate \in Seq(Fates) /\ Len(fate) = Len(home)
    /\ overtakers \subseteq Messages

Init ==
    /\ ws = "down" /\ outbox = <<>> /\ pendingStart = NoName /\ slot = 0
    /\ sessionRef = NoName /\ screen = NoName /\ viewing = NoName
    /\ restoring = NoName /\ awaiting = FALSE /\ live = {} /\ rows = {}
    /\ up = <<>> /\ down = <<>> /\ sessions = {} /\ opening = {}
    /\ minted = [c \in Chats |-> 0]
    /\ agent = <<>> /\ fate = <<>> /\ home = <<>> /\ heard = <<>> /\ overtakers = {}
    /\ budget = [drops |-> MaxDrops, upsets |-> MaxUpsets, moves |-> MaxMoves]

Spend(what) == /\ budget[what] > 0
               /\ budget' = [budget EXCEPT ![what] = @ - 1]

-----------------------------------------------------------------------------
\* Whether the row carries the agent's own id for the conversation.
Resumable(n) == ~IsPending(n) /\ agent[n.chat] \notin Nameless
\* needsResume.
NeedsResume(n) == Resumable(n) /\ n \notin live

Prompts == {e \in Range(outbox) : e.kind = "prompt"}
\* queuedPendingSessions.
QueuedPending(o) == {e.name : e \in {x \in Range(o) : IsPending(x.name)}}
\* remapSession.
Remap(o, from, to) ==
    [i \in DOMAIN o |-> IF o[i].kind = "prompt" /\ o[i].name \in from
                        THEN [o[i] EXCEPT !.name = to] ELSE o[i]]
\* pendingStartFor.
StartsFor(p) == Keep(outbox, {e \in Range(outbox) : e.kind = "start" /\ agent[e.name.chat] = p})

Typed(m, c, how) == fate' = Append(fate, how) /\ home' = Append(home, c)
Mark(f, S, how) == [m \in DOMAIN f |-> IF m \in S THEN how ELSE f[m]]
\* A message in `queued' whose place is taken or cleared has no other copy.
Forget(f) == Mark(f, {slot}, "forgotten")

\* deliverPrompt: written at once when it can be, queued when it cannot.  A
\* message the full queue refuses stays in the composer: nothing changes.
Deliver(m, n) ==
    /\ IF ~IsPending(n) /\ ws = "up"
       THEN /\ up' = Append(up, PromptTo(n, m))
            /\ Typed(m, n.chat, "written")
            /\ overtakers' = overtakers \cup
                 {m : e \in {x \in Prompts : home[x.msg] = n.chat}}
            /\ UNCHANGED outbox
       ELSE /\ Len(outbox) < MaxQueued
            /\ outbox' = Append(outbox, PromptTo(n, m))
            /\ Typed(m, n.chat, "waiting")
            /\ UNCHANGED <<up, overtakers>>
    /\ UNCHANGED <<ws, pendingStart, slot, screenVars, live, rows, agent>>

\* start, when no start with this agent waits: written now with the message held
\* in `queued', or both queued, or (full) refused with the refs already moved.
Begin(p, m) ==
    LET c == Len(agent) + 1
    IN  /\ c <= MaxChats
        /\ agent' = Append(agent, p)
        /\ pendingStart' = Pending(c) /\ viewing' = Pending(c)
        /\ \/ /\ ws = "up"
              /\ up' = Append(up, StartOf(c)) /\ slot' = m
              /\ fate' = Append(Forget(fate), "slot") /\ home' = Append(home, c)
              /\ rows' = rows \cup {Pending(c)}
              /\ restoring' = NoName /\ awaiting' = FALSE /\ UNCHANGED outbox
           \/ /\ ws # "up" /\ Len(outbox) + 2 <= MaxQueued
              /\ outbox' = outbox \o <<StartOf(c), PromptTo(Pending(c), m)>>
              /\ slot' = 0
              /\ fate' = Append(Forget(fate), "waiting") /\ home' = Append(home, c)
              /\ rows' = rows \cup {Pending(c)}
              /\ restoring' = NoName /\ awaiting' = FALSE /\ UNCHANGED up
           \/ /\ ws # "up" /\ Len(outbox) + 2 > MaxQueued
              /\ slot' = 0 /\ fate' = Forget(fate)
              /\ UNCHANGED <<outbox, home, rows, restoring, awaiting, up>>
        /\ UNCHANGED <<ws, sessionRef, screen, live, overtakers>>

\* send in Pew2Screen: a message typed where no conversation has an id yet.
Start(p) ==
    /\ screen = NoName /\ Len(fate) < MaxMessages
    /\ IF StartsFor(p) # <<>>
       THEN Deliver(Len(fate) + 1, Head(StartsFor(p)).name)
       ELSE Begin(p, Len(fate) + 1)
    /\ UNCHANGED <<down, daemonVars, heard, budget>>

\* prompt: into the conversation on screen, or (a reply to a notification)
\* another that need not be reopened first.
Prompt(n) ==
    /\ Len(fate) < MaxMessages
    /\ n # NoName
    /\ \/ n = sessionRef
       \/ n \in rows /\ ~IsPending(n) /\ ~NeedsResume(n)
    /\ Deliver(Len(fate) + 1, n)
    /\ UNCHANGED <<down, daemonVars, heard, budget>>

\* cancel, before the conversation has an id: the held message is dropped, and
\* the transcript says so.
Stop ==
    /\ sessionRef = NoName /\ slot # 0
    /\ slot' = 0 /\ fate' = Mark(fate, {slot}, "stopped")
    /\ UNCHANGED <<ws, outbox, pendingStart, screenVars, live, rows, up, down,
                   daemonVars, agent, history, budget>>

\* openSession, of a row the daemon no longer holds: it is resumed.
Reopen(n) ==
    /\ n \in rows /\ NeedsResume(n) /\ Spend("moves")
    /\ restoring' = n /\ awaiting' = TRUE
    /\ sessionRef' = NoName /\ screen' = NoName /\ viewing' = n
    /\ slot' = 0 /\ fate' = Forget(fate)
    /\ up' = IF ws = "up" THEN Append(up, Resume(n)) ELSE up
    /\ UNCHANGED <<ws, outbox, pendingStart, live, rows, down, daemonVars, agent, history>>

Shows(n) ==
    /\ restoring' = NoName /\ awaiting' = FALSE
    /\ sessionRef' = (IF IsPending(n) THEN NoName ELSE n) /\ screen' = sessionRef'
    /\ viewing' = n
    /\ slot' = 0 /\ fate' = Forget(fate)
    /\ UNCHANGED <<ws, outbox, pendingStart, live, rows, up, down, daemonVars, agent, history>>

\* openSession, of a row shown from memory, a pending one included.
Open(n) == n \in rows /\ ~NeedsResume(n) /\ Spend("moves") /\ Shows(n)
\* leave and select.
Leave == viewing # NoName /\ Spend("moves") /\ Shows(NoName)

-----------------------------------------------------------------------------
\* Slip: rows of queued requests are dropped with the rest.
OpensForgetting ==
    /\ ws = "down" /\ ws' = "up"
    /\ pendingStart' = NoName /\ awaiting' = FALSE
    /\ rows' = {n \in rows : ~IsPending(n)}
    /\ up' = <<Hello>>
    /\ UNCHANGED <<outbox, slot, sessionRef, screen, viewing, restoring, live, down,
                   daemonVars, agent, fate, history, budget>>

\* connect and onopen: requests written to the old socket are given up.
Opens ==
    /\ ws = "down" /\ ws' = "up"
    /\ pendingStart' = NoName /\ awaiting' = FALSE
    /\ rows' = {n \in rows : IsPending(n) => n \in QueuedPending(outbox)}
    /\ up' = <<Hello>>
    /\ UNCHANGED <<outbox, slot, sessionRef, screen, viewing, restoring, live, down,
                   daemonVars, agent, fate, history, budget>>

\* What is in flight when a socket goes, goes with it.
Loses ==
    /\ ws' = "down" /\ up' = <<>> /\ down' = <<>>
    /\ fate' = Mark(fate, {f.msg : f \in Range(up)}, "lost")
    /\ UNCHANGED <<outbox, pendingStart, slot, screenVars, live, rows, agent, history>>

\* onclose, the liveness probe, or the computer's hello: the socket is let go.
Drop == \/ ws = "up" /\ Spend("drops") /\ Loses /\ UNCHANGED daemonVars
        \/ ws = "closing" /\ Loses /\ UNCHANGED <<daemonVars, budget>>

-----------------------------------------------------------------------------
\* The start that would go out first.
FirstStart(o) == Keep(o, {e \in Range(o) : e.kind = "start"})[1]

\* Slip: a prompt to a conversation nobody has named yet is ready too.
DeliverableUnnamed(e, o, ps, L) ==
    \/ e.kind = "start" /\ ps = NoName
    \/ e.kind = "prompt" /\ (e.name \in L \/ ~(e.name \in rows /\ Resumable(e.name)))

\* Slip: a prompt goes only to a session known to live.
DeliverableLive(e, o, ps, L) ==
    \/ /\ e.kind = "start" /\ ps = NoName
       /\ e = FirstStart(o)
    \/ e.kind = "prompt" /\ e.name \in L

\* What flushOutbox sends: one start at a time; prompts to a session the daemon
\* holds, or to one that nothing will ever rename.
Deliverable(e, o, ps, L) ==
    \/ /\ e.kind = "start" /\ ps = NoName
       /\ e = FirstStart(o)
    \/ /\ e.kind = "prompt" /\ ~IsPending(e.name)
       /\ e.name \in L \/ ~(e.name \in rows /\ Resumable(e.name))

\* Slip: what a dying socket left unwritten is put back one by one, last in front.
PutBackReversed(unsent, held) == Reverse(unsent) \o held
\* Slip: what a dying socket left unwritten is gone.
PutBackNothing(unsent, held) == held
\* The rest of a batch goes back in front of what was held.
PutBack(unsent, held) == unsent \o held

\* Messages that go out past an older one of their conversation, held under another
\* of its names: two reopens in flight leave it with two (see RowFindable).
Passing(ready, held) ==
    {e.msg : e \in {x \in Range(ready) :
       \E y \in Range(held) : /\ x.kind = "prompt" /\ y.kind = "prompt" /\ y.msg < x.msg
                             /\ y.name.chat = x.name.chat /\ y.name # x.name}}

\* flushOutbox, over the queue, pendingStart and live sessions the handler has by
\* then, after what it wrote before.  The socket may die between two writes.
Flush(o, ps, L, f, before) ==
    LET able  == {e \in Range(o) : Deliverable(e, o, ps, L)}
        ready == Keep(o, able)
        held  == Keep(o, Range(o) \ able)
    IN  \E k \in 0 .. Len(ready) :
          LET out == SubSeq(ready, 1, k)
              started == {e \in Range(out) : e.kind = "start"}
          IN  /\ outbox' = PutBack(SubSeq(ready, k + 1, Len(ready)), held)
              /\ up' = up \o before \o out
              /\ pendingStart' = IF started = {} THEN ps ELSE (CHOOSE e \in started : TRUE).name
              /\ fate' = Mark(f, {e.msg : e \in Range(out)}, "written")
              /\ overtakers' = overtakers \cup Passing(ready, held)
              /\ IF k = Len(ready) THEN UNCHANGED <<ws, budget>>
                 ELSE ws' = "closing" /\ Spend("drops")

\* The providers frame, whose activeSessions say which sessions died: the
\* conversation on screen, if it has a row, or the reopen it was waiting for, is
\* resumed.
Announced ==
    LET frame == Head(down)
        stale == IF sessionRef # NoName
                 THEN IF sessionRef \in rows \ frame.live THEN sessionRef ELSE NoName
                 ELSE IF restoring = viewing THEN restoring ELSE NoName
        again == stale # NoName /\ Resumable(stale)
    IN  /\ ws = "up" /\ down # <<>> /\ frame.kind = "providers"
        /\ down' = Tail(down)
        /\ live' = frame.live
        /\ IF again
           THEN restoring' = stale /\ sessionRef' = NoName /\ awaiting' = TRUE
           ELSE UNCHANGED <<restoring, sessionRef, awaiting>>
        /\ Flush(outbox, pendingStart, live', fate, IF again THEN <<Resume(stale)>> ELSE <<>>)
        /\ UNCHANGED <<slot, screen, viewing, rows, daemonVars, agent, home, heard>>

\* Slip: any new session takes the screen, whoever asked for it.
ClaimsAny(f, adopted, reopened) == TRUE
\* claimsScreen: the row of this phone's own request, the reopen the screen waits
\* for, or the empty view.
Claims(f, adopted, reopened) ==
    \/ adopted /\ viewing = Pending(f.name.chat)
    \/ reopened
    \/ viewing = NoName /\ ~f.resumed

\* The names session.started replaces: of this phone's request, and of the row
\* that holds the same agent session.
Renamed(f, adopted) ==
    (IF adopted THEN {Pending(f.name.chat)} ELSE {})
      \cup {n \in rows : n.chat = f.name.chat /\ Resumable(n)}

\* session.started: adopted, shown if the screen waits for it, the held message
\* sent, the waiting ones re-addressed and flushed.
Named ==
    LET f == Head(down)
        adopted == f.asked /\ pendingStart = Pending(f.name.chat)
        reopened == f.resumed /\ awaiting /\ restoring # NoName /\ restoring.chat = f.name.chat
        claims == Claims(f, adopted, reopened)
        sends == claims /\ slot # 0
    IN  /\ ws = "up" /\ down # <<>> /\ f.kind = "started"
        /\ down' = Tail(down)
        /\ IF reopened THEN awaiting' = FALSE /\ restoring' = NoName
                       ELSE UNCHANGED <<awaiting, restoring>>
        /\ IF claims THEN sessionRef' = f.name /\ screen' = f.name /\ viewing' = f.name
                     ELSE UNCHANGED <<sessionRef, screen, viewing>>
        /\ slot' = IF sends THEN 0 ELSE slot
        /\ live' = live \cup {f.name}
        /\ rows' = (rows \ Renamed(f, adopted)) \cup {f.name}
        /\ Flush(Remap(outbox, Renamed(f, adopted), f.name),
                 IF adopted THEN NoName ELSE pendingStart, live',
                 IF sends THEN Mark(fate, {slot}, "written") ELSE fate,
                 IF sends THEN <<PromptTo(f.name, slot)>> ELSE <<>>)
        /\ UNCHANGED <<daemonVars, agent, home, heard>>

-----------------------------------------------------------------------------
\* The next id of a conversation, and the frame that announces it.
Fresh(c) == [chat |-> c, gen |-> minted[c] + 1]
Mint(n) == /\ sessions' = sessions \cup {n}
           /\ minted' = [minted EXCEPT ![n.chat] = @ + 1]
StartedFrame(n, asked, resumed) ==
    [kind |-> "started", name |-> n, live |-> {}, asked |-> asked, resumed |-> resumed]
Welcome == [kind |-> "providers", name |-> NoName, live |-> sessions, asked |-> FALSE, resumed |-> FALSE]

Takes(kind) == /\ up # <<>> /\ Head(up).kind = kind
               /\ up' = Tail(up)
               /\ UNCHANGED <<phoneVars, agent, home, overtakers, budget>>

\* hello: the daemon answers with what it holds.
TakesHello == /\ Takes("hello") /\ down' = Append(down, Welcome)
              /\ UNCHANGED <<daemonVars, fate, heard>>

\* session.start: registered at once, announced when its agent is connected.
TakesStart ==
    /\ Takes("start")
    /\ LET n == Fresh(Head(up).name.chat)
       IN  Mint(n) /\ opening' = opening \cup {n}
    /\ UNCHANGED <<down, fate, heard>>

\* session.resume: a new id, announced at once.
TakesResume ==
    /\ Takes("resume")
    /\ LET n == Fresh(Head(up).name.chat)
       IN  Mint(n) /\ down' = Append(down, StartedFrame(n, FALSE, TRUE))
    /\ UNCHANGED <<opening, fate, heard>>

\* session.prompt: taken by its session, or answered "Unknown session".
TakesPrompt ==
    /\ Takes("prompt")
    /\ LET m == Head(up).msg
           known == Head(up).name \in sessions
       IN  /\ fate' = Mark(fate, {m}, IF known THEN "heard" ELSE "refused")
           /\ heard' = IF known THEN Append(heard, [msg |-> m, chat |-> Head(up).name.chat])
                       ELSE heard
    /\ UNCHANGED <<down, daemonVars>>

\* A broadcast reaches the phone if its hello was answered on this socket.
Joined == ws # "down" /\ Hello \notin Range(up)
Broadcast(f) == down' = IF Joined THEN Append(down, f) ELSE down

\* openStarted: the agent is connected, the session announced.
Started(n) ==
    /\ n \in opening /\ opening' = opening \ {n}
    /\ Broadcast(StartedFrame(n, TRUE, FALSE))
    /\ UNCHANGED <<phoneVars, up, sessions, minted, agent, fate, history, budget>>

\* connectSession failed: the session is removed; the error that is broadcast
\* names no request.
StartFails(n) ==
    /\ n \in opening /\ Spend("upsets")
    /\ opening' = opening \ {n} /\ sessions' = sessions \ {n}
    /\ UNCHANGED <<phoneVars, up, down, minted, agent, fate, history>>

\* Another phone begins a conversation: every phone is told.
Elsewhere(p) ==
    /\ Len(agent) < MaxChats /\ agent' = Append(agent, p)
    /\ LET n == Fresh(Len(agent) + 1) IN Mint(n) /\ Broadcast(StartedFrame(n, FALSE, FALSE))
    /\ UNCHANGED <<phoneVars, up, opening, fate, history, budget>>

\* The reaper, or another phone, closes a session; this phone is not told.
Closes(n) ==
    /\ n \in sessions \ opening /\ Spend("upsets")
    /\ sessions' = sessions \ {n}
    /\ UNCHANGED <<phoneVars, up, down, opening, minted, agent, fate, history>>

\* The daemon restarts: its sessions and every socket are gone.
Restart ==
    /\ Spend("upsets") /\ Loses /\ sessions' = {} /\ opening' = {} /\ UNCHANGED minted

-----------------------------------------------------------------------------
User == \/ \E p \in Providers : Start(p)
        \/ Stop \/ Leave
        \/ \E n \in rows \cup {sessionRef} : Prompt(n)
        \/ \E n \in rows : Reopen(n) \/ Open(n)

Receives == Announced \/ Named
Daemon == \/ TakesHello \/ TakesStart \/ TakesResume \/ TakesPrompt
          \/ \E n \in opening : Started(n)
Upset == \/ Drop \/ Restart
         \/ \E n \in opening : StartFails(n)
         \/ \E n \in sessions : Closes(n)
         \/ \E p \in Providers : Elsewhere(p)

Next == User \/ Opens \/ Receives \/ Daemon \/ Upset

Safety == Init /\ [][Next]_vars

\* The phone keeps reconnecting and handles its frames; the daemon handles its
\* frames, and connects its agents or fails to.  A closing socket closes.
Spec == /\ Safety
        /\ WF_vars(Opens) /\ WF_vars(Receives) /\ WF_vars(Daemon)
        /\ WF_vars(ws = "closing" /\ Drop)
-----------------------------------------------------------------------------
\* A message is taken by a session once, and by the conversation it was typed in,
\* whatever else was announced meanwhile (daemonFrame.ts:344).
HeardOnceAtHome ==
    /\ \A i, j \in DOMAIN heard : heard[i].msg = heard[j].msg => i = j
    /\ \A i \in DOMAIN heard : heard[i].chat = home[heard[i].msg]

\* The agent reads a conversation in the order it was typed (outbox.ts:135), but
\* for a message that went past an older one which could not go with it: written at
\* once while the older one waited, or flushed while the older one was held under
\* another session's name.  Under one name, nothing a dying socket or a new name
\* does to the queue turns two messages round.
InOrder ==
    \A i, j \in DOMAIN heard :
      i < j /\ heard[i].chat = heard[j].chat /\ heard[i].msg > heard[j].msg
        => heard[i].msg \in overtakers

\* The queue holds exactly the messages that wait, each once: none is lost or
\* doubled by a socket that dies inside a batch (daemonConnection.ts:243).
OutboxKeeps ==
    /\ {e.msg : e \in Prompts} = {m \in DOMAIN fate : fate[m] = "waiting"}
    /\ \A i, j \in DOMAIN outbox :
         outbox[i].kind = "prompt" /\ outbox[j].kind = "prompt" /\ outbox[i].msg = outbox[j].msg
           => i = j

\* Every waiting message has a row of its conversation to be found under
\* (outbox.ts:171, pendingSession.ts:133).  Not always the row of its own name: two
\* reopens in flight leave the screen on one session and the row on the other.
RowFindable == \A e \in Prompts : \E n \in rows : n.chat = e.name.chat

\* A message that waits for a conversation's first session.started is waiting for
\* one that can still come (outbox.ts:176: "it is still going to be sent").
StartStillComing ==
    \A e \in Prompts : IsPending(e.name) /\ ws = "up" =>
      StartOf(e.name.chat) \in Range(outbox) \/ pendingStart = e.name

\* Starts the daemon refused, or that went with a socket, hold up the queue.
Unanswered(n) == /\ StartOf(n.chat) \notin Range(up)
                 /\ ~\E s \in opening : s.chat = n.chat
                 /\ ~\E f \in Range(down) : f.kind = "started" /\ f.asked /\ f.name.chat = n.chat
\* What a waiting message may be left waiting for: a start that will not be
\* answered, or the user reopening a conversation that is not on screen.
Parked(e) ==
    \/ IsPending(e.name) /\ StartOf(e.name.chat) \notin Range(outbox) /\ Unanswered(e.name)
    \/ IsPending(e.name) /\ pendingStart # NoName /\ Unanswered(pendingStart)
    \/ NeedsResume(e.name) /\ viewing # e.name

\* What is typed offline is sent once the phone is back (useDaemon's "Sends when
\* you reconnect"), unless parked.
WaitingGoesOut == <>[](\A e \in Prompts : Parked(e))
=============================================================================
