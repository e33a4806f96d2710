--------------------------- MODULE AgentProcesses ---------------------------
(***************************************************************************)
(* Who holds the processes of one agent: conversations being opened, idle, *)
(* working or closed; warm spares; and capability probes                   *)
(* (packages/daemon/src: index.ts, daemon/connect-session.ts,              *)
(* daemon/spares.ts, daemon/probing.ts).                                   *)
(*                                                                         *)
(* A step runs from one await of connectSession, probeRaw or warmSpareFor  *)
(* to the next.  Time is abstract: the TTL of an idle conversation or of a *)
(* spare may have run out at any moment.  Processes, conversations and     *)
(* entries of spareReady are numbers, in the order they were made.         *)
(***************************************************************************)
EXTENDS Integers, Sequences, SequencesExt, FiniteSets, FiniteSetsExt, Subsequences

CONSTANTS
    Home,       \* resolveWorkspace(): where probes boot
    Projects,   \* other directories conversations open in
    MaxLive,    \* MAX_LIVE_SESSIONS
    MaxSpares,  \* MAX_SPARES_PER_PROVIDER
    MaxOpens,   \* bound: conversations opened
    MaxEvents   \* bound: conversations opened, prompts, provider.capabilities requests,
                \* switches of the agent off or on, TTLs that run out, processes that
                \* exit by themselves and boots that fail, all together

ASSUME Places == Home \notin Projects
ASSUME ProcessBounds == /\ MaxLive \in Nat \ {0} /\ MaxSpares \in Nat \ {0}
                        /\ MaxOpens \in Nat /\ MaxEvents \in Nat

VARIABLES
    proc,      \* each process: booting, up, closed by the daemon, or dead by itself
    chats,     \* each conversation opened: see Chat
    recent,    \* the keys of `sessions', least recently used first
    spares,    \* parked processes with their directory, oldest first
    boots,     \* background boots under way: see Boot
    borrowed,  \* how many probes hold each process
    retiring,  \* processes to close when their last borrower is done
    enabled,   \* the agent is not in `disabled'
    armed,     \* the entry of spareReady, or 0
    released,  \* for each entry made, whether it was announced
    warming,   \* `warming' has an entry, on top of refreshing
    refreshing,\* `refreshing' has an entry
    probed,    \* `probes' has an entry
    reads,     \* probes reading the disk cache, by the entry they armed
    taken,     \* history: processes a conversation has taken from the spares
    ghosts,    \* history: conversations closed before their agent answered
    lost,      \* history: entries armed by a probe that then found the agent off
    budget

chatVars  == <<chats, recent, ghosts>>
poolVars  == <<spares, borrowed, retiring, taken>>
probeVars == <<armed, released, warming, refreshing, probed, reads, lost>>
vars == <<proc, chatVars, boots, poolVars, enabled, probeVars, budget>>

Dirs == Projects \cup {Home}
Procs == DOMAIN proc
Ids == DOMAIN chats
Stages == {"loading", "waiting", "adopting", "spawning", "restoring", "done", "failed"}
\* An ActiveSession, whether `sessions' holds it, and how far connectSession is.
\* `agent' is the process it is being connected to, session.handle once named.
Chat == [dir : Dirs, resumed : BOOLEAN, held : BOOLEAN, stage : Stages, awaits : Nat,
         agent : Nat, working : BOOLEAN, blocked : BOOLEAN]
\* A boot for a spare, a first probe or a refresh, and then the probe's list.
Boot == [kind : {"warm", "probe", "refresh"}, proc : Nat, dir : Dirs, entry : Nat,
         listing : BOOLEAN]

Parked == {spares[i].proc : i \in DOMAIN spares}
Open == {i \in Ids : chats[i].held}
Running(p) == proc[p].state \in {"booting", "up"}
\* session.agentSessionId is set with session.handle.
Named(i) == chats[i].stage \in {"restoring", "done"}

\* Types of the daemon's maps; spares are bounded, and no two share a directory;
\* `recent' orders exactly the open conversations.
TypeOK ==
    /\ \A p \in Procs : proc[p] \in [state : {"booting", "up", "closed", "dead"}, dir : Dirs]
    /\ \A i \in Ids : chats[i] \in Chat
    /\ ToSet(recent) = Open /\ Len(recent) = Cardinality(Open)
    /\ Parked \subseteq Procs /\ Len(spares) <= MaxSpares
    /\ \A i, j \in DOMAIN spares : spares[i].dir = spares[j].dir => i = j
    /\ boots \subseteq Boot
    /\ DOMAIN borrowed = Procs /\ retiring \subseteq {p \in Procs : borrowed[p] > 0}
    /\ armed \in 0 .. Len(released)
    /\ ToSet(released) \cup {enabled, warming, refreshing, probed} \subseteq BOOLEAN
    /\ taken \subseteq Procs /\ ghosts \subseteq Ids /\ lost \subseteq 1 .. Len(released)

Init ==
    /\ proc = <<>> /\ chats = <<>> /\ recent = <<>> /\ spares = <<>> /\ boots = {}
    /\ borrowed = <<>> /\ retiring = {} /\ enabled = TRUE
    /\ armed = 0 /\ released = <<>>
    /\ warming = FALSE /\ refreshing = FALSE /\ probed = FALSE /\ reads = <<>>
    /\ taken = {} /\ ghosts = {} /\ lost = {}
    /\ budget = MaxEvents

Spend == budget > 0 /\ budget' = budget - 1

-----------------------------------------------------------------------------
Next1 == Len(proc) + 1
Booting(dir) == [state |-> "booting", dir |-> dir]
\* connectProvider: a new process, booting in dir.
Spawn(dir) == proc' = Append(proc, Booting(dir)) /\ borrowed' = Append(borrowed, 0)
Closed(S) ==
    [p \in Procs |-> IF p \in S /\ Running(p) THEN [proc[p] EXCEPT !.state = "closed"] ELSE proc[p]]
Comes(p) == proc' = [proc EXCEPT ![p].state = "up"]
Dies(p) == proc' = [proc EXCEPT ![p].state = "dead"]

\* Slip: a spare is closed under whoever borrows it.
RetireNow(S, b) == S
\* retire: what of S is closed now; the rest goes when its borrowers are done.
Retire(S, b) == {p \in S : b[p] = 0}

\* Slip: whichever spare is parked, whatever its directory.
SpareAnywhere(dir) == spares
\* takeSpare looks for a spare already in this directory.
SpareFor(dir) == Keep(spares, {s \in ToSet(spares) : s.dir = dir})

\* Slip: the spare stays parked.
TakeOutNot(p) == spares
\* takeSpare takes it out of the map.
TakeOut(p) == Keep(spares, {s \in ToSet(spares) : s.proc # p})

\* Slip: a spare that replaces another leaves it running.
StashOver(p, dir) ==
    [pool |-> <<[proc |-> p, dir |-> dir]>>, out |-> {}]
\* Slip: the spares of other directories all stay.
StashBeside(p, dir) ==
    [pool |-> Append(Keep(spares, {s \in ToSet(spares) : s.dir # dir}), [proc |-> p, dir |-> dir]),
     out  |-> {s.proc : s \in {x \in ToSet(spares) : x.dir = dir}}]
\* stashSpare: the old spare of this directory and the oldest ones make room.
\* `pool' is what is parked then, `out' what is retired.
Stash(p, dir) ==
    LET others == Keep(spares, {s \in ToSet(spares) : s.dir # dir})
        kept   == SubSeq(others, Max({1, Len(others) + 2 - MaxSpares}), Len(others))
    IN  [pool |-> Append(kept, [proc |-> p, dir |-> dir]),
         out  |-> Parked \ {kept[i].proc : i \in DOMAIN kept}]

\* closeSession of the conversations in S: `sessions' forgets them and the handles
\* they have close.  A connection still being made is not stopped.
Closing(S) ==
    [i \in Ids |-> IF i \in S THEN [chats[i] EXCEPT !.held = FALSE, !.working = FALSE,
                                                    !.blocked = FALSE]
                   ELSE chats[i]]
Handles(S) == {chats[i].agent : i \in {x \in S : Named(x)}}
Without(S) == Keep(recent, Open \ S)
Touch(i) == recent' = IF chats[i].held THEN Append(Without({i}), i) ELSE recent

\* enforceSessionCap: of those it may close, the least recently used.
Closable(i) == ~chats[i].working /\ Named(i)
Excess(size) ==
    LET may == Keep(recent, {i \in Open : Closable(i)})
    IN  ToSet(SubSeq(may, 1, Min({Len(may), Max({0, size - MaxLive})})))

-----------------------------------------------------------------------------
\* connectSession: a spare of this directory, else a boot that is awaited (unless it
\* was already), else a process of its own.
Source(dir, waited) ==
    IF SpareFor(dir) # <<>>
    THEN [stage |-> "adopting", agent |-> SpareFor(dir)[1].proc, awaits |-> 0]
    ELSE IF ~waited /\ armed # 0 /\ ~released[armed]
    THEN [stage |-> "waiting", agent |-> 0, awaits |-> armed]
    ELSE [stage |-> "spawning", agent |-> Next1, awaits |-> 0]

\* The effect of that choice on processes and spares, past what `procs' says.
Uses(src, dir, procs) ==
    /\ IF src.stage = "spawning"
       THEN proc' = Append(procs, Booting(dir)) /\ borrowed' = Append(borrowed, 0)
       ELSE proc' = procs /\ UNCHANGED borrowed
    /\ IF src.stage = "adopting"
       THEN spares' = TakeOut(src.agent) /\ taken' = taken \cup {src.agent}
       ELSE UNCHANGED <<spares, taken>>
    /\ UNCHANGED retiring

With(c, src) == [c EXCEPT !.stage = src.stage, !.agent = src.agent, !.awaits = src.awaits]
NewChat(dir, resumed) ==
    [dir |-> dir, resumed |-> resumed, held |-> TRUE, stage |-> "loading", awaits |-> 0,
     agent |-> 0, working |-> FALSE, blocked |-> FALSE]

\* startSession and beginResumeSession: registered, the cap enforced, connectSession
\* begun.  A resume reads local history before it looks for a process.
Opens(dir, resumed) ==
    LET cut == Excess(Cardinality(Open) + 1)
        new == NewChat(dir, resumed)
        src == Source(dir, FALSE)
    IN  /\ enabled /\ Len(chats) < MaxOpens /\ Spend
        /\ recent' = Append(Without(cut), Len(chats) + 1)
        /\ IF resumed
           THEN /\ chats' = Append(Closing(cut), new)
                /\ proc' = Closed(Handles(cut)) /\ UNCHANGED poolVars
           ELSE /\ chats' = Append(Closing(cut), With(new, src))
                /\ Uses(src, dir, Closed(Handles(cut)))
        /\ UNCHANGED <<ghosts, boots, enabled, probeVars>>

\* History is loaded, or the awaited boot was announced.
Connects(i) ==
    LET c == chats[i]
        src == Source(c.dir, c.stage = "waiting")
    IN  /\ \/ c.stage = "loading"
           \/ c.stage = "waiting" /\ released[c.awaits]
        /\ chats' = [chats EXCEPT ![i] = With(c, src)]
        /\ Uses(src, c.dir, proc)
        /\ UNCHANGED <<recent, ghosts, boots, enabled, probeVars, budget>>

\* The process answers: session.handle is set, and the agent has named the session.
Answers(i) ==
    /\ chats[i].stage \in {"adopting", "spawning"} /\ Running(chats[i].agent)
    /\ chats' = [chats EXCEPT ![i].stage = "restoring"]
    /\ Comes(chats[i].agent)
    /\ UNCHANGED <<recent, ghosts, boots, poolVars, enabled, probeVars, budget>>

\* adopt() rejects, because the spare is dead or for a reason of its own: it is
\* closed, and a process spawned.
AdoptFails(i) ==
    LET p == chats[i].agent
    IN  /\ chats[i].stage = "adopting"
        /\ IF Running(p) THEN Spend ELSE UNCHANGED budget
        /\ proc' = Append(Closed({p}), Booting(chats[i].dir))
        /\ borrowed' = Append(borrowed, 0)
        /\ chats' = [chats EXCEPT ![i].stage = "spawning", ![i].agent = Next1]
        /\ UNCHANGED <<recent, ghosts, boots, spares, retiring, taken, enabled, probeVars>>

\* connectProvider rejects.  A start is forgotten; the session of a resume stays.
OpenFails(i) ==
    /\ chats[i].stage = "spawning" /\ Spend
    /\ chats' = [chats EXCEPT ![i].stage = "failed", ![i].agent = 0,
                              ![i].held = @ /\ chats[i].resumed, ![i].working = FALSE]
    /\ recent' = IF chats[i].resumed THEN recent ELSE Without({i})
    /\ Dies(chats[i].agent)
    /\ UNCHANGED <<ghosts, boots, poolVars, enabled, probeVars>>

\* Selectors are restored, the conversation is announced, and the next spare booted
\* in its directory unless one is parked there (warmSpareFor).
Restored(i) ==
    /\ chats[i].stage = "restoring"
    /\ chats' = [chats EXCEPT ![i].stage = "done"]
    /\ IF SpareFor(chats[i].dir) # <<>> THEN UNCHANGED <<proc, borrowed, boots>>
       ELSE /\ Spawn(chats[i].dir)
            /\ boots' = boots \cup {[kind |-> "warm", proc |-> Next1, dir |-> chats[i].dir,
                                     entry |-> 0, listing |-> FALSE]}
    /\ UNCHANGED <<recent, ghosts, spares, retiring, taken, enabled, probeVars, budget>>

-----------------------------------------------------------------------------
\* prompt: a turn begins, on a resumed session before it is ready too.
Works(i) ==
    /\ chats[i].held /\ ~chats[i].working
    /\ chats[i].stage = "done" \/ (chats[i].resumed /\ chats[i].stage # "failed")
    /\ Spend /\ Touch(i)
    /\ chats' = [chats EXCEPT ![i].working = TRUE]
    /\ UNCHANGED <<ghosts, proc, boots, poolVars, enabled, probeVars>>
\* onPermissionRequest: the turn stops on an approval.
AsksApproval(i) ==
    /\ chats[i].held /\ chats[i].working /\ ~chats[i].blocked /\ chats[i].stage = "done"
    /\ chats' = [chats EXCEPT ![i].blocked = TRUE] /\ Touch(i)
    /\ UNCHANGED <<ghosts, proc, boots, poolVars, enabled, probeVars, budget>>
\* The turn is over, or answered and then over.
TurnEnds(i) ==
    /\ chats[i].working /\ chats[i].stage = "done"
    /\ chats' = [chats EXCEPT ![i].working = FALSE, ![i].blocked = FALSE] /\ Touch(i)
    /\ UNCHANGED <<ghosts, proc, boots, poolVars, enabled, probeVars, budget>>

\* reapIdleSessions: idle too long, or stopped on an approval nobody answered.
Reaps(i) ==
    /\ chats[i].held /\ Named(i) /\ (chats[i].working => chats[i].blocked) /\ Spend
    /\ chats' = Closing({i}) /\ recent' = Without({i})
    /\ proc' = Closed(Handles({i}))
    /\ UNCHANGED <<ghosts, boots, poolVars, enabled, probeVars>>

\* refreshProviders once the agent is turned off: closeDisabled retires the spares
\* and closes every conversation that is not mid-turn.
TurnedOff ==
    LET cut == {i \in Open : ~chats[i].working}
        now == Retire(Parked, borrowed)
    IN  /\ enabled /\ Spend /\ enabled' = FALSE
        /\ chats' = Closing(cut) /\ recent' = Without(cut)
        /\ ghosts' = ghosts \cup {i \in cut : ~Named(i)}
        /\ proc' = Closed(Handles(cut) \cup now)
        /\ spares' = <<>> /\ retiring' = retiring \cup (Parked \ now)
        /\ UNCHANGED <<boots, borrowed, taken, probeVars>>
TurnedOn == /\ ~enabled /\ Spend /\ enabled' = TRUE
            /\ UNCHANGED <<proc, chatVars, boots, poolVars, probeVars>>

-----------------------------------------------------------------------------
\* armSpare, over the entry there is after `a': kept, announced or not, or made.
Entry(a) == IF a = 0 THEN Len(released) + 1 ELSE a
Arm(a) == /\ armed' = Entry(a)
          /\ released' = IF a = 0 THEN Append(released, FALSE) ELSE released
Announced(e) == IF e = 0 THEN released ELSE [released EXCEPT ![e] = TRUE]

\* refreshCapabilities and the refresh it runs, deduplicated.
Refresh(a) ==
    /\ refreshing' = TRUE
    /\ IF refreshing THEN UNCHANGED <<proc, borrowed, boots>>
       ELSE /\ Spawn(Home)
            /\ boots' = boots \cup {[kind |-> "refresh", proc |-> Next1, dir |-> Home,
                                     entry |-> Entry(a), listing |-> FALSE]}

\* provider.capabilities, answered from memory and refreshed behind when stale.
AskedAgain ==
    /\ enabled /\ probed /\ ~refreshing /\ Spend
    /\ Arm(armed) /\ Refresh(armed)
    /\ UNCHANGED <<chatVars, spares, retiring, taken, enabled, warming, probed, reads, lost>>

\* provider.capabilities, not answered yet: armed, then the disk cache is read.
Asked ==
    /\ enabled /\ ~probed /\ Spend
    /\ Arm(armed) /\ reads' = Append(reads, Entry(armed))
    /\ UNCHANGED <<proc, chatVars, boots, poolVars, enabled, warming, refreshing, probed, lost>>

\* The cache file has an answer: warmProvider boots a spare behind it, unless the
\* agent is off by now, a spare is parked (then a stale answer is refreshed), or one
\* is being warmed.
ReadHit ==
    /\ reads # <<>> /\ reads' = Tail(reads) /\ probed' = TRUE
    /\ lost' = IF enabled THEN lost ELSE lost \cup {Head(reads)}
    /\ \/ /\ ~enabled \/ (spares = <<>> /\ warming)
          /\ UNCHANGED <<proc, borrowed, boots, armed, released, warming, refreshing>>
       \/ /\ enabled /\ spares # <<>>
          /\ UNCHANGED warming
          /\ \/ armed' = 0 /\ released' = Announced(armed)
                /\ UNCHANGED <<proc, borrowed, boots, refreshing>>
             \/ ~refreshing /\ Refresh(0)
                /\ armed' = Len(released) + 1 /\ released' = Append(Announced(armed), FALSE)
       \/ /\ enabled /\ spares = <<>> /\ ~warming
          /\ warming' = TRUE /\ Arm(armed) /\ Refresh(armed)
    /\ UNCHANGED <<chatVars, spares, retiring, taken, enabled, budget>>

\* No cache file: this probe boots a process itself.
ReadMiss ==
    /\ reads # <<>> /\ reads' = Tail(reads) /\ probed' = TRUE
    /\ Spawn(Home)
    /\ boots' = boots \cup {[kind |-> "probe", proc |-> Next1, dir |-> Home,
                             entry |-> Head(reads), listing |-> FALSE]}
    /\ UNCHANGED <<chatVars, spares, retiring, taken, enabled, armed, released, warming,
                   refreshing, lost, budget>>

\* Slip: the boot of a spare for waiting conversations is never announced.
BootsSilently(e) == released
\* announceSpare.
AnnounceSpare(e) == Announced(e)

\* A background boot is up: it is parked, and a probe borrows it for its list.
Boots(b) ==
    LET lists == b.kind # "warm"
        held  == IF lists THEN [borrowed EXCEPT ![b.proc] = @ + 1] ELSE borrowed
        st    == Stash(b.proc, b.dir)
    IN  /\ ~b.listing
        /\ spares' = st.pool /\ borrowed' = held
        /\ retiring' = retiring \cup (st.out \ Retire(st.out, held))
        /\ proc' = [Closed(Retire(st.out, held)) EXCEPT ![b.proc].state = "up"]
        /\ boots' = (boots \ {b}) \cup (IF lists THEN {[b EXCEPT !.listing = TRUE]} ELSE {})
        /\ released' = AnnounceSpare(b.entry)
        /\ UNCHANGED <<chatVars, taken, enabled, armed, warming, refreshing, probed, reads, lost, budget>>

\* What follows a probe: a failed one lets its waiters go and is withdrawn; after a
\* warming refresh nobody waits any more.
Ends(b, ok) ==
    /\ boots' = boots \ {b}
    /\ probed' = (ok \/ (probed /\ b.kind # "probe"))
    /\ IF b.kind = "refresh" /\ warming
       THEN armed' = 0 /\ released' = [released EXCEPT ![b.entry] = TRUE, ![armed] = TRUE]
       ELSE UNCHANGED armed /\ released' = IF ok THEN released ELSE Announced(b.entry)
    /\ IF b.kind = "refresh" THEN refreshing' = FALSE /\ warming' = FALSE
       ELSE UNCHANGED <<refreshing, warming>>

\* A background boot fails.
BootFails(b) ==
    /\ ~b.listing /\ Spend
    /\ Dies(b.proc) /\ Ends(b, FALSE)
    /\ UNCHANGED <<chatVars, poolVars, enabled, reads, lost>>

\* session/list answered, or failed with its process.  The last borrower of a
\* retired process closes it.
Lists(b) ==
    /\ b.listing
    /\ Ends(b, proc[b.proc].state = "up")
    /\ borrowed' = [borrowed EXCEPT ![b.proc] = @ - 1]
    /\ IF borrowed[b.proc] = 1 /\ b.proc \in retiring
       THEN proc' = Closed({b.proc}) /\ retiring' = retiring \ {b.proc}
       ELSE UNCHANGED <<proc, retiring>>
    /\ UNCHANGED <<chatVars, spares, taken, enabled, reads, lost, budget>>

\* A spare's TTL; a process that exits by itself.
Expires(s) ==
    /\ Spend
    /\ spares' = Keep(spares, ToSet(spares) \ {s})
    /\ proc' = Closed(Retire({s.proc}, borrowed))
    /\ retiring' = retiring \cup ({s.proc} \ Retire({s.proc}, borrowed))
    /\ UNCHANGED <<chatVars, boots, borrowed, taken, enabled, probeVars>>
Crashes(p) ==
    /\ proc[p].state = "up" /\ Spend /\ Dies(p)
    /\ UNCHANGED <<chatVars, boots, poolVars, enabled, probeVars>>

-----------------------------------------------------------------------------
Connecting == \E i \in Ids : Connects(i) \/ Answers(i) \/ AdoptFails(i) \/ Restored(i)
Probing == ReadHit \/ ReadMiss \/ \E b \in boots : Boots(b) \/ Lists(b)
Client == \/ \E d \in Dirs, r \in BOOLEAN : Opens(d, r)
          \/ \E i \in Ids : Works(i)
          \/ Asked \/ AskedAgain \/ TurnedOff \/ TurnedOn
Agent == \E i \in Ids : AsksApproval(i) \/ TurnEnds(i) \/ OpenFails(i)
Clocks == (\E i \in Ids : Reaps(i)) \/ \E s \in ToSet(spares) : Expires(s)
Faults == (\E b \in boots : BootFails(b)) \/ \E p \in Procs : Crashes(p)

Next == Connecting \/ Probing \/ Client \/ Agent \/ Clocks \/ Faults

Safety == Init /\ [][Next]_vars
\* Awaited work settles: processes boot or fail, probes and reads end.
Spec == Safety /\ WF_vars(Connecting) /\ WF_vars(Probing)

-----------------------------------------------------------------------------
HoldersOf(p) == {i \in Ids : chats[i].agent = p}

\* No process serves two masters: two conversations, or one and the spares.
OneHolder ==
    \A p \in Procs : Running(p) =>
      Cardinality(HoldersOf(p)) + (IF p \in Parked THEN 1 ELSE 0) <= 1

\* An agent works where its conversation is, not in whatever directory its process
\* was booted for (spares.ts:240-245).
RightDirectory == \A i \in Ids : chats[i].agent # 0 => proc[chats[i].agent].dir = chats[i].dir

\* A probe's list is not cut off by a spare that takes its place (probing.ts:197-200);
\* only a conversation that took the process may close it.
ProbeKeepsItsProcess ==
    \A b \in boots : b.listing /\ proc[b.proc].state = "closed" => b.proc \in taken

\* Somebody still holds p, and so will close it or hand it on.
Held(p) == \/ p \in Parked \cup retiring
           \/ \E b \in boots : b.proc = p
           \/ \E i \in HoldersOf(p) : chats[i].held
\* No process outlives its last holder (state.ts:70 "does not run forever"), but for
\* the agent of a conversation closed while it was still being connected.
NoneLeftRunning ==
    \A p \in Procs : Running(p) => Held(p) \/ HoldersOf(p) \cap ghosts # {}

\* Every conversation is connected, or fails to be, in the end: none waits for a boot
\* that was announced, replaced or given up, but for one whose probe read its answer
\* when the agent was off (probing.ts:104).
OpensSettle ==
    <>[](\A i \in Ids : \/ chats[i].stage \in {"done", "failed"}
                        \/ chats[i].stage = "waiting" /\ chats[i].awaits \in lost)
=============================================================================
