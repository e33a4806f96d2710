# Verification of pew2

pew2 lets a phone drive coding agents that run on a computer. A daemon on the
computer starts ACP agents as child processes, keeps the log of every
conversation, and serves phones over the local network or through a relay that
forwards sealed frames without reading them. This directory holds TLA+ models of
the parts where several actors meet, the TLC configurations that check them, and
TLAPS proofs of what matters most in them.

## Inventory

| Component (under `packages/`) | State | Operations | Hard behaviour | What makes it correct |
|---|---|---|---|---|
| Prompt queue and turn loop (`daemon/src/daemon/prompt-queue.ts`, `cancel` in `daemon/src/index.ts`) | `working`, `cancelling`, `queue`, `sentForwarded`, per entry `forwarded`, `agentId`, `storing` | `prompt`, `enqueue`, `forwardQueued`, `applyAgentQueueUpdate`, `adoptReturned`, `takeQueuedTurn`, `returnQueue`, `cancelQueued`, `cancel` | handlers interleave at every `await`; the same message can be in the daemon's queue and in the agent's; stops, failed turns, failed files | each message has one fate; nothing stranded, lost or read twice; one turn at a time |
| ACP agent (`daemon/src/acp`, reference agent in `daemon/src/testing/gg-agent.ts`) | its running turn and its own queue | `session/prompt`, `session/cancel`, `_gg/queue`, `_gg/queue/cancel` | notifications overtake answers | external: an environment of the queue |
| Session log and replay (`daemon/src/session/log.ts`, `record`, `markLive`, `markStreaming`, `finishStreaming`, `catchUp`) | entries, next seq, `live`, `streamingReplay`, `pendingReplay`, a timer | append, trim, batch, flush, catch up | live events against batches and catch-ups; sockets that drop | a phone's transcript has no hole and no event twice |
| LAN server (`daemon/src/server.ts`) | a client per socket, authenticated or not | hello, broadcast, close | a client is reached only from its hello on | same |
| App connection (`app/src/daemonConnection.ts`, `daemonFrame.ts`, `cursors.ts`) | socket, cursors, transcripts, inbox | connect, hello, frames, reconnect | duplicates, reordering across a reconnect | same |
| Relay client (`daemon/src/relay-client.ts`) | `socket`, two timers, `yielded`, `stopped`, backoff | start, stop, rekey, connect, open, close | late events of replaced sockets | always connected or about to try; one socket |
| Relay room (`relay/src/index.ts`, `admission.ts`) | attached sockets and what each carries | admit, evict, forward, sweep | an `await` between count and decision; half-open sockets | one daemon per room, and the machine gets it back |
| Secure channel (`protocol/src/channel.ts`) | window per sender, proofs, counter | seal, open, prove, accept | frames of two sockets of one device | a frame is accepted once, and an honest phone is not locked out |
| Session lifecycle (`daemon/src/index.ts`, `daemon/src/daemon/connect-session.ts`) | sessions, handles, spares, disabled agents, open permissions | start, resume, close, reap, cap, disable, shutdown | a close while a connect is awaited | no process outlives its session, no work is closed |
| Warm spares and probing (`daemon/src/daemon/spares.ts`, `probing.ts`) | parked processes, `spareReady`, `warming`, `refreshing`, `probes`, `borrowed`, `retiring` | probe, refresh, arm, stash, take, retire | a boot, a probe and a conversation meet in one process across awaits | each process has one holder, ends with its last one, and no tap waits for ever |
| Pairing and device claim (`daemon/src/device-claim.ts`, `pairing.ts`, `pairing-watch.ts`, `cli/pair.ts`) | the pairing file, the token and claim in memory, the reloader | decide, record, rotate, reload | claim written behind the decision; two programs on one file with no lock | one phone per pairing, and the daemon follows the file |
| Push registry (`daemon/src/push.ts`, `push-store.ts`) | targets in memory and on disk | register, forget, persist | the file outlives the pairing | banners only to phones of this pairing, none forgotten |
| App outbox (`app/src/outbox.ts`, `pendingSession.ts`, `daemonActions.ts`) | messages typed offline, sessions not yet named, `pendingStart`, `queued`, the conversation on screen | start, prompt, open, flush, remap, adopt | a socket dying inside a flush; a conversation named, renamed or reopened while messages wait for it | each message to its own conversation, once, in the order typed |
| Agent state mirrored to phones (permissions, asks, plans, goals: `daemon/src/daemon/gg.ts`) | open requests per session | record, answer, close | two phones answer one request | no sheet left open for ever |
| Voice, self update, providers, command line, wire schemas, app interface | files, external services, screens | | mostly I/O | not modelled |

How they interact. A phone's frame reaches the daemon through the LAN server or
the relay, is opened by the secure channel, and is dispatched by `handler.ts` to
the daemon, which is one JavaScript thread: a handler runs until it awaits. The
daemon writes JSON lines to the agent and receives its notifications as
callbacks. What the agent says goes through `record` into the log and out to the
phones. Every phone of a pairing shares one relay room with the daemon.

## Modules

| Module | Models |
|---|---|
| `PromptQueue` | the turn loop, the queue, and the agent with its two pipes |
| `MessageFate` | what the queue promises: a message waits until it is settled, once |
| `MCPromptQueue` | the refinement mapping from `PromptQueue` to `MessageFate` |
| `SessionEvents` | log, batches, live frames, catch-up, and the phones' cursors |
| `RelayLink` | the relay clients of one machine's daemons and the room they share |
| `SecureChannel` | the sealed frames of several phones and one daemon over a relay room |
| `Pairing` | the pairing file and its two writers, the claim, the watcher, the push registry |
| `Outbox` | messages from the composer to the daemon, conversations named and renamed |
| `AgentProcesses` | who holds the processes of an agent: conversations, spares, probes |
| `Subsequences` | the part of a sequence that is kept, as `partitionOutbox` and a filter do; used by the two above |
| `PromptQueueProofs`, `SessionEventsProofs`, `RelayLinkProofs`, `SecureChannelProofs`, `PairingProofs`, `OutboxProofs`, `AgentProcessesProofs`, `SubsequencesProofs` | theorems about the module of that name |

They meet in the code as follows. A session that `AgentProcesses` connects is the
one whose `ready` `PromptQueue` waits for; what `PromptQueue` logs is an event of
`SessionEvents`; what `Outbox` delivers is a `Prompt` of `PromptQueue`; the sockets
of `SessionEvents` and `Outbox` are those of `SecureChannel` and `RelayLink`, and
`Pairing` decides who may open one. Each module keeps what it needs of its
neighbours as an environment that may do more than the neighbour does.

### PromptQueue

One conversation. `pc` names the `await` of `prompt()` the loop is parked on:
`storing` is the write of the first message's files, `opening` is
`session.ready`, `prompting` is `handle.prompt`, `taking` is the files of a
queued turn, and `leaving` stands for the promise of an empty `takeQueuedTurn`.
An action runs from one `await` to the next. Continuations of settled promises
run before the next frame of a phone is read, hence `Runnable`; lines of the
agent are dispatched by continuations of their own and may fall between any two.

Messages never share a text, so one model value stands for the text, the queue
entry and the agent's id of it. `turn`, `queue` and both queues of the agent are
sets: order within one queue is not modelled. `TurnAnswered` and `TurnFailed`
are guarded by `pc = "prompting"` because they are the continuation of that
`await`. The agent follows the reference agent of the tests and may in addition
end a turn at any time, answer with an error, fail a request to withdraw a
message, hand back a text of its own (`Late`), and send its last note before or
after its answer. `cancelQueued` takes a failed request for a withdrawal done
(`prompt-queue.ts:325`): `cancelAck` is then `"error"`, the entry goes as if the
agent had dropped its copy, and the copy stays where it is. The history variable
`dropped` holds messages a failed file write takes off the queue with
no trace (`prompt-queue.ts:285`).

### SessionEvents

One conversation on the screens of a few phones. An event is its `seq`; a frame
is the set of events it carries. `CASE` in `Record` is the three ways an event
leaves `record()`: not yet live, live, and batched. `RelayRoom` chooses who a
broadcast reaches: sockets whose hello was answered (LAN), or every socket
attached to the room (relay). A phone takes a frame's events past its cursor and
moves the cursor to the last of them, as `alreadySeen` and `advance` do.

### RelayLink

A socket has two ends: `conn` at the daemon, `place` at the room, with the close
event of the room or the network in `ending` on its way. `fetch` with a reconnect
key is two actions, `FetchCounts` before the hash and `FetchDecides` after it.
A keepalive is not an event: `FallsSilent` may happen to a socket whose
keepalives no longer reach the room (`Beating`). Backoff is abstracted to a timer
that fires at some time. A malformed relay URL changes nothing and is a stutter.

### SecureChannel

One relay room. A phone's sockets are numbered; the number stands for the time in
its proof (`at`), which assumes a clock that does not go back between two sockets:
one that does gets its hello refused without an answer (`channel.ts:217`). A frame
is its kind and its counter, and on the way up the socket that sealed it, which
the code does not know and only the history variables look at. `rising` is what
the phone's present socket has written, `late` what its earlier sockets wrote and
the network still delivers; both reach the relay at any time, each in its order
per socket. The relay keeps nothing, so its two hops are one step, and a frame for
a socket it no longer holds is gone. An evicted socket of the daemon forwards
nothing more. `overrun` names the phones of which a frame of another socket was
opened since the daemon took their hello, `refused` those a frame of that very
socket was refused as a replay.

The eviction of the least recently used of 64 senders (`trim`) cannot happen with
the phone and the guests one pairing admits and is left out, as is the age limit
of a proof.

### Pairing

`Truncate` and `Fill` are the two halves of `writeFile`: between them a reader
finds half a file (`Torn`), and two writers that overlap may leave it so.
`claimPairing` is three actions of a job (`ClaimReads`, `ClaimOpens`,
`ClaimFills`), `pew2 pair` three of its own, the reloader is idle, reading or
retrying, with the `again` mark and the count of failures the code keeps. Half a
file makes a starting daemon, and `pew2 pair`, throw; so does the model (`Start`
is not enabled until the file is whole). The history variable `missed` records
that the file was rewritten where no event reports it: before the watcher exists
(`server.ts:420`), or during the last read before the reloader gives up, whose
`again` is dropped (`pairing-watch.ts:120`).

`claimPairing` is not told which pairing was claimed; a job remembers it (`under`)
for the history variables only. `interrupted` records that a claim's way to the
disk was disturbed: the phone claimed a pairing the file no longer held, or that
was being rewritten, or `pew2 pair` or a crash came before the claim was written.
`misfiled` is narrower: the phones `ClaimFills` wrote into the file of a pairing
other than the one they had claimed.

A guest is an id let in without a claim: the placeholder every app sent once, and
the watcher of `pew2 pair`.

### Outbox

A conversation is a number and is addressed by a name: `Pending` until its
`session.started`, then the id the daemon gave it, one per resume. `live`, `rows`,
`sessionRef`, `viewing`, `restoring` and `awaiting` are the app's refs; `slot` is
`queued.current`, the first message of a start that was written while online.
`ws = "closing"` is a socket on which writes go nowhere and frames still arrive.
`fate` is what became of each message: besides heard, it can be refused (the
queue is full), lost (written to a socket that died), stopped (by the user), or
forgotten, which is what the code does to a first message when a second one is
typed in the empty view before the first `session.started` (`daemonActions.ts:220`
overwrites `queued` and `pendingStart`), and when its own pending row or another conversation is opened, or the empty view
is gone back to (which clears `queued`; `daemonActions.ts:573` says otherwise of
the pending row). A socket that dies does not touch `queued`. `overtakers` are the messages that were seen to pass
an older one of their conversation: written at once, between the socket's open and
the flush that the list of providers triggers, while the older one still waits; or
flushed while the older one is held under another session's name (`Passing`).

### AgentProcesses

One agent of the registry. A conversation's `stage` is the `await` of
`connectSession` it is parked on; a boot is a `probeRaw`, `refreshCapabilities` or
`warmSpareFor` under way; entries of `spareReady` are numbered and `released`
tells whether they were announced. Processes are numbered and never reused, so
`taken` can tell a spare that a conversation took from one that was retired. The
TTL of a conversation or a spare may run out at any time. `ghosts` are
conversations closed while their agent was still being connected (`index.ts:397`:
only turning the agent off does that, as the cap and the reaper leave connecting
ones alone); `lost` are entries of a probe that found its agent off after reading
the cache, which nothing announces (`probing.ts:104`).

## Runs

| Run | Shows | Bounds | Distinct states |
|---|---|---|---|
| `prompt_plain` | `NeverStranded`, `OneFate`, refinement of `MessageFate` with its liveness | 3 messages, one with a file, 2 stops, 1 control turn, failing agent and connect | 39,878 |
| `prompt_gg` | `NeverReadTwice`, `NothingLost`, `HeardIsShown`, `OneTurnAtATime`, `WithdrawalIsHonest` | 3 messages and a late answer, 1 stop, agent queue, failing agent and disk | 1,113,267 |
| `prompt_stranded` | violated: messages stay queued on an idle session | 2 messages, one with a file that cannot be stored | – |
| `events_lan` | types, `NoGap`, `ShownOnce`, `CatchesUp` | 2 phones, 5 events, a log of 2, batches of 2, 2 drops | 41,886 |
| `events_relay_gap` | violated: a live event overtakes the catch-up | 1 phone, 3 events, 1 drop | – |
| `relay_link` | `OneSocket`, `HoldsOn`, `OnlyTheKeyReplaces`, `NoEvictionWar`, `SomeoneServes` | 2 daemons, 2 remembered sockets each, 1 rotation, 2 upsets | 189,918 |
| `channel` | types, `FramesOpen`, `NoneStaysDeaf` | 2 phones, 2 frames besides hellos and answers, 1 frame on its way to a phone, 1 lost socket | 637,955 |
| `pairing` | types, `OneOwner`, `LinkAdmitsOne`, `ClaimIsEarned`, `BannersStayInside`, `FollowsFile`, `PhonesRemembered` | 2 phones, a guest, 1 rotation, 1 crash or dead token, 1 registration, 1 reload failure tolerated | 454,850 |
| `pairing_resurrect` | violated: a claim writes back the pairing a rotation replaced | the same | – |
| `outbox` | types, `HeardOnceAtHome`, `InOrder`, `OutboxKeeps`, `RowFindable`, `WaitingGoesOut` | 2 agents (one cannot resume), 2 messages, 2 conversations, 1 drop, 1 upset, 1 move | 364,168 |
| `outbox_orphan` | violated: messages wait for a start nobody will send again | 1 agent, 2 messages, 1 conversation, 1 drop | – |
| `processes` | types, `OneHolder`, `RightDirectory`, `ProbeKeepsItsProcess`, `NoneLeftRunning`, `OpensSettle` | 3 conversations in 2 directories, 1 live, 1 spare, 3 events | 225,791 |

Why the bounds are enough to be interesting: three messages give a turn, a queue
and a message whose files are slow; two stops let the second fall into the turn
the first one ended; a late answer is the only text the daemon did not send. A
log of two events out of five makes the trim happen twice, and a batch of two
makes both the size flush and the timer flush happen. Two sockets that some end
still remembers are the current one and the one it replaced. One lost socket of
each kind, on top of the one a phone replaces by itself, gives late frames of an
old socket beside those of the new one, and a daemon's socket replaced under two
phones. One rotation can fall before, into and after each step of a claim, of a
reload and of a start. Two messages and two conversations are what can be mixed
up or overtaken, and a drop, a restart and a move between conversations can fall
between any two steps of either. With one live conversation and one spare, the
second conversation meets the cap and the second directory the full pool. The
theorems cover what the bounds leave out, for the properties they state.

Deadlock is not checked: when the users have nothing left to say, the events are
all delivered, or the daemons are connected, nothing has to happen.

Where a property is left out of a run, or names an exception, it is because it does
not hold there, and the reason is one of these.

* With an agent that keeps its own queue, a text handed back in the one
  continuation between an empty `takeQueuedTurn` and the `finally` waits for the
  user's next message, and a withdrawal that finds no agent id, or whose request
  the agent fails, leaves the agent's copy.
* `OnlyTheKeyReplaces` lets any daemon that shows a reconnect key replace one that is
  heard, whether or not it is the key of that one (below).
* `NoGap` needs a phone to have seen an event before its socket drops (no cursor
  names the session otherwise, `index.ts:775`) and no prompt while the history of
  a resumed session is streamed (its echo is sent ahead of the batch).
* `HoldsOn` and `SomeoneServes` stop at the first rotation: the close event of the
  socket `rekey` replaced clears the timers of the new one (`relay-client.ts:386`,
  against the comment at 399), and if that one had just failed nothing connects
  again.
* `FramesOpen` excepts `overrun`: a frame of a phone's old socket that arrives
  after its new hello raises the fresh window, and the new socket's frames are
  refused until they pass it, which `relay-client.ts:268-272` means to rule out.
* `LinkAdmitsOne` excepts `interrupted`, `ClaimIsEarned` excepts `misfiled`
  (below), `FollowsFile` excepts
  `missed`, `NoneLeftRunning` excepts `ghosts` and `OpensSettle` excepts `lost`,
  all described above. `WaitingGoesOut` excepts what `Parked` names: a start that
  will not be answered (an error does not clear `pendingStart`), and a
  conversation that has to be reopened first.
* With two reopens of one conversation in flight the daemon has two sessions of it
  and the screen may be on the one whose row is gone, so `RowFindable` asks for a
  row of the conversation, not of the name. For the same reason a message typed on
  the screen and a reply to a notification may wait under two names, and a flush may
  find only the newer of them deliverable: `InOrder` excepts it. `remapSession`
  keeps the order of what it re-addresses (`outbox.ts:135`), but it re-addresses
  one name.

### Disagreements found

The four violated properties state what a comment of the code promises:
`prompt-queue.ts:158` (no message stranded on an idle session), `index.ts:770` (the
catch-up answers with the rest), `pairing.ts:212` (a claim never resurrects a
rotated token) and `outbox.ts:176` (a kept start is still going to be sent).

Five more disagreements are not runs of their own. The first three are exceptions of
a property above, and TLC finds each when the exception is dropped from it.

* A withdrawal whose request the agent fails is reported done, and the agent still
  has its copy, which it may read or hand back: `prompt-queue.ts:326` says that the
  agent no longer has it. (`WithdrawalIsHonest` without its condition on `cancelAck`.)
* A phone of the replaced pairing that says hello after the new code is printed and
  before the daemon has reloaded is written into the new pairing as its claim, and the
  phone the code was printed for is refused: `cli/pair.ts:301` says that the code can
  always onboard a phone. (`ClaimIsEarned` without `misfiled`.)
* Two daemons that arrive together are both attached to a room, or the one with a key
  evicts the other, whose key was never compared, because admission counts and
  compares before an `await` and evicts everyone after it
  (`relay/src/index.ts:142-145`): `admission.ts:113` says that the newcomer showed the
  key of the daemon it replaces. (`OnlyTheKeyReplaces` asking for the key of the
  evicted daemon.) The `await` allows it; a runtime may compute the digest without
  yielding.
* A message that a stop handed back to the composer runs all the same if the agent's
  turn ends before it reads the stop (`prompt-queue.ts:234`, against `index.ts:671`).
* A late close event can silence a rotated daemon (above).

## Fairness

Nobody owes the daemon a message, a stop, a drop, a crash, a pairing or a steering
point: those actions have no fairness. Promise continuations run, file writes and
connects end, both pipes are read to their end, timers fire, open sockets deliver,
a closed socket's event arrives, a request is answered, and the relay's alarm
runs; each is weakly fair. An agent is assumed not to think for ever
(`AgentEnds`); without that no queued message has to move. `SomeoneServes` is about
runs without a rotation, for the reason given above. In `SecureChannel` sockets
that were lost are dialled again and deliver; in `Outbox` the phone reconnects and
handles its frames, and the daemon connects its agents or fails to; in `Pairing`
the service manager restarts the daemon and the system reports file events; in
`AgentProcesses` awaited work settles, and no conversation or spare has to expire.

## Proofs

All theorems hold for every set of messages, phones, daemons or sockets and for
every bound, not only for the instances above. Every proof module first proves
type correctness, with one lemma per group of actions (for `PromptQueue` and
`RelayLink` that is where types are shown, and no run repeats it); pipes are handled through
lemmas about their ends.

`Subsequences` holds what the others need of a filter: what `Keep` returns is picked
from the sequence in its order (`KeepPicks`), has the elements that stay and no
others (`KeepElements`), repeats nothing (`KeepApart`), and together with what is
held it is the whole sequence (`KeepHalves`). `SelectSeq` is recursive and cannot be
reasoned about here; `Keep` says the same through cardinalities, so these lemmas rest
on the library's facts about finite sets.

`PromptQueue`:

* `TurnsNeverOverlap`: `OneTurnAtATime` for every agent and disk. `TurnInv` counts
  the prompts written, the turn running and the answers not yet read, and adds that
  a parked loop is marked working; lemmas say how a line written or read changes
  the count of its kind.
* `PlainNeverStrands`: `NeverStranded` for an agent without a queue
  (`GGQueue = FALSE`, `Late = {}`) and a disk that works. The invariant alone is
  not inductive: it needs that such an agent sends nothing but answers and errors
  (`PlainAgent`), that an idle loop is not working and a parked one is
  (`LoopShape`), and that no file write has failed (`StrandInv`).
* `PlainOneFate`: `OneFate` for an agent without a queue and any disk. `FateInv`
  adds that a message not yet used is nowhere, that a turn not yet echoed is
  disjoint from everything settled, and that queue and turn are disjoint.
* `PlainImplementsFate`: the steps of `PromptQueue` are steps of `MessageFate` or
  stutters under the mapping of `MCPromptQueue`, which is `RefinesMessageFate`.
  `FateInv` gives the guards of the abstract actions.
* `ReadAtMostOnce` and `WithdrawnIsGone`: `NeverReadTwice` and `WithdrawalIsHonest`
  for every agent, with a queue of its own or not, and any disk. A message may then be
  in the daemon's queue and in the agent's at once. `OnceInv` says what lines the two
  pipes may hold and in which order (`PipesInv`), that one copy at most travels by the
  agent's queue (`CopyInv`), that the daemon remembers that copy (`EntryInv`), and what
  having read a message excludes (`HeardInv`): a request to queue what has become a
  turn is read before the turn is, and refused (`TooLate`). The agent may fail a
  request to withdraw: what is proved of a withdrawal is that no copy is left once
  the agent answered it, and also when it failed for a message the agent was not
  given or had handed back.
* `NothingIsLost`: `NothingLost` for every agent and disk, from `KeepInv`: an
  accepted message the daemon does not hold is on its way back from the agent.
* `ReadIsShown`: `HeardIsShown` for every agent and disk. `ShownInv` says of a message
  nobody was told about yet that the agent's copy and the note that it was read belong
  to an entry still in the daemon's queue, so the note will find it, and that what left
  the queue for a turn is read as that turn, after any request for it.

`SessionEvents`:

* `NothingShownTwice`: `ShownOnce` on the local network and in a relay room, for
  every switch. `SeenInv` is that a transcript is below its phone's cursor, which
  needs that a set of events has a newest one (`NewestExists`, by well-founded
  induction).
* `NoHoleOnLan`: `NoGap` on the local network, for conversations nobody prompts
  while they load and sockets that do not drop before their phone has seen an
  event. `LanInv` follows an event from the log to the transcript: the log holds
  its last events (`LogInv`), a socket whose hello is unanswered will be caught up
  from the cursor it names (`HelloInv`), every event between a cursor and the log's
  end is on the wire or batched (`WireInv`), and where frames begin and end
  (`EdgeInv`).

`RelayLink`:

* `SocketsNeverRace`: `OneSocket`, from `SocketInv`: a retry is only pending while
  there is no socket.
* `DaemonsHoldOn`: `HoldsOn`, from `HoldInv`: before a rotation, a socket that some
  end still remembers is the daemon's socket, so only its own close event stops its
  timers.
* `LiveDaemonsStay`: `OnlyTheKeyReplaces`, from `HashingInv`: only a newcomer with a
  key is awaited, and one without a key is refused while anyone in the room is heard.

`SecureChannel`:

* `NothingRefused`: `FramesOpen` for any number of phones on one channel. `PipesInv`
  says what the pipes carry: the present socket's frames in counter order below the
  phone's next counter, and frames of earlier sockets, each in order. `WindowsInv`
  says that the daemon's window of a phone is below all that the socket it last
  said hello on has in flight or will seal, until a frame of another one moves it.

`Pairing`:

* `OnePhoneConnected`: `OneOwner`, whatever is rotated, claimed and reloaded
  (`OwnerInv`: who is connected is the claim in memory).
* `OnePhonePerLink`: `LinkAdmitsOne`, from `LinkInv`: while nothing was interrupted, the file (`FileInv`), each claim on its
  way (`JobInv`), what the reloader has read (`ReaderInv`) and the daemon's memory
  (`ClaimInv`) name, for each pairing, the one phone it admitted or nobody.
* `ClaimsAreEarned`: `ClaimIsEarned`, with no assumption on rotations and crashes.
  `EarnedInv` follows a claim to every place that keeps one: the file, what the
  reloader has read, the daemon's memory and the jobs, each of which holds a phone
  that was let in with the pairing it claimed. That nobody is misfiled by a claim that
  went undisturbed (`FiledInv`) rests on `LinkInv`.
* `BannersOnlyInside`: `BannersStayInside` through any rotations and crashes
  (`BannerInv`: the stored targets of each pairing are phones it admitted).

`AgentProcesses`:

* `TypesHold`, `NoTwoMasters` (`OneHolder`), `WorksWhereAsked` (`RightDirectory`),
  `ListsUndisturbed` (`ProbeKeepsItsProcess`) and `NoneAbandoned`
  (`NoneLeftRunning`), for any number of projects, conversations, spares, probes and
  upsets, all from one invariant, `HoldInvariant`. `OneHolder` alone is not inductive.
  A background boot has a process of its own that is neither parked nor taken before
  it is up (`BootsInv`); a parked process has no conversation, and a conversation's
  process no boot unless it was taken from the spares (`AgentInv`); only a probe's
  list borrows, and what retires is borrowed (`BorrowInv`); the pool has one spare a
  directory, booted there (`SparesInv`); and a process that runs is parked, retiring,
  being booted, or held by a conversation that is open or a ghost (`StayInv`).

`Outbox`:

* `TypesHold`, `HeardOnce` (`HeardOnceAtHome`), `QueueKeeps` (`OutboxKeeps`) and
  `RowsStay` (`RowFindable`), from `MailInvariant`. It follows a message: its fate
  says where its only copy is (the queue, the slot, in flight, taken, nowhere), and
  each place holds it under a name of the conversation it was typed in. Two facts make
  it inductive. A message in the slot has the screen, so no announcement but the
  answer to its own start can send it (`SlotInv`). Whatever has a session id has a row
  of its conversation that has one too, so renaming finds it (`RowsInv`).
* `ReadInOrder`: `InOrder`, from `TurnInv`. Three lines, of what was heard, what is in
  flight and what is queued, are each in order, and each is ahead of the next
  (`OrderInv`). A flush takes from the middle of the queue, so this needs that what it
  passes over is not older and of the same name: a name is ready or held as a whole,
  once a conversation whose start is unanswered has no session id anywhere
  (`NamedInv`), which in turn needs that whatever has a name was begun (`KnownInv`).
  The order is a fact of the whole queue: the proof found that it does not hold
  between two names of one conversation (above).
* `MessagesMoveOn`: every step moves each message forward along one path, from waiting
  or held to written, from written to heard, refused or lost, with stopping and
  forgetting only while it is held. Nothing that was written is written again, through
  any number of flushes, resumes and reconnects. `HeardMeansTaken` adds that the fates
  agree with what the daemon's sessions took. No run checks these two; they follow
  from `MailInvariant` and the steps that send.

Assumptions: those the modules name (`MessageSets`, `Switches`, `Bounds`, `Sizes`,
`Limits`, `ChannelBounds`, `DistinctIds`, `PairingBounds`, `Agents`, `OutboxBounds`,
and those of `AgentProcesses`), which TLC evaluates on every run, and the ones each
theorem states. The bounds of `Outbox` and `AgentProcesses` are any natural numbers:
the theorems do not need them small.

Only model-checked: liveness (`NoneWaitsForEver`, `CatchesUp`, `NoEvictionWar`,
`SomeoneServes`, `NoneStaysDeaf`, `FollowsFile`, `PhonesRemembered`,
`WaitingGoesOut`, `OpensSettle`), which is outside the prover's reach under fairness;
so is the liveness half of the refinement of `MessageFate`. The four violated
properties are false, and stay with TLC too.

## Not modelled

In the parts that are modelled: the order of messages within a queue and messages
with equal texts; the agent's plans, asks and goals; attachments' contents; the
LAN server's HTTP routes and version check; the app's backoff, probes, frame inbox
and background sessions; relay admission of apps, the room cap and hibernation;
a claim whose write to the pairing file fails
(`server.ts:122`, which only logs it), setting a relay in that file and tokens from
the environment; sockets of
paired phones that close on their own; goal calls, shutdown and overlapping
refreshes of the provider list; what a probe answers; resumed conversations whose
agent failed, which nothing reaps; ids of two sessions opened in the same
millisecond (`index.ts:598`, the second replaces the first); project selection,
attachment sizes and the agent's own history in the outbox.

Left out as a whole: voice calls (audio and an external realtime service), self
update (file and process I/O behind one check, `busyReason`), provider discovery
and the registry (read once, no interacting state), the command line but for
`pew2 pair`, the wire schemas (stateless), and everything on the screen: rendering,
animation, widgets and audio, which is most of the source.

## Plan

1. Proofs: every safety invariant a run checks is a theorem. What is left is to state
   more of them: that a flush delivers a queue's conversations whole (`Outbox`), and
   `NoGap` in a relay room for sockets that are greeted before anything is sent.
2. Asks, permissions and plans (`gg.ts`): two phones answering one request, and the
   agent withdrawing it meanwhile.
3. Self update against `busyReason`, with the sessions of `AgentProcesses`.
4. The app's probes and backoff, and background sessions, as part of
   `SecureChannel` and `SessionEvents`.
