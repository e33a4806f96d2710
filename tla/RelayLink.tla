------------------------------ MODULE RelayLink ------------------------------
(***************************************************************************)
(* The daemons of one machine and the relay room they share                *)
(* (packages/daemon/src/relay-client.ts; PairingRoom in                    *)
(* packages/relay/src/index.ts, admission.ts).                             *)
(*                                                                         *)
(* Every daemon of the machine holds the same reconnect key.  A socket has *)
(* two ends that learn of each other's fate at their own pace: `conn' is   *)
(* the client's, `place' the room's.  A socket that neither end remembers  *)
(* is used again for a later connection.                                   *)
(***************************************************************************)
EXTENDS Naturals

CONSTANTS
    Daemons,
    MaxSockets,  \* bound: sockets of one daemon that some end still remembers
    MaxRekeys,   \* bound: how often the pairing is rotated
    MaxUpsets    \* bound: broken networks, restarts, and daemons told of a rotation

ASSUME Limits == MaxSockets \in Nat \ {0} /\ MaxRekeys \in Nat /\ MaxUpsets \in Nat

Sockets == Daemons \X (1 .. MaxSockets)
Owner(s) == s[1]
None == "none"
NoSocket == << >>

VARIABLES
    token,       \* options.token: which pairing, and so which room
    socket,      \* this.socket
    retryTimer, heartbeat, yielded,
    conn,        \* each socket at its daemon
    ending,      \* the close event on its way to the daemon: its code
    place,       \* each socket at the relay
    pairing,     \* the token it was opened with
    key,         \* it carries the reconnect key
    saw,         \* the daemons its request counted before it hashed the key
    silent,      \* no keepalive for DAEMON_STALE_MS
    upsets

clientVars == <<token, socket, retryTimer, heartbeat, yielded, conn>>
roomVars   == <<place, saw, silent>>
dialVars   == <<pairing, key>>
vars == <<clientVars, ending, roomVars, dialVars, upsets>>

\* Types of the clients' fields, of the sockets and of the room's attachments.
TypeOK ==
    /\ token \in [Daemons -> 0 .. MaxRekeys]
    /\ socket \in [Daemons -> Sockets \cup {NoSocket}]
    /\ retryTimer \in [Daemons -> BOOLEAN] /\ heartbeat \in [Daemons -> BOOLEAN]
    /\ yielded \in [Daemons -> BOOLEAN]
    /\ conn \in [Sockets -> {"free", "connecting", "answered", "open", "closing"}]
    /\ ending \in [Sockets -> {None, "1012", "other"}]
    /\ place \in [Sockets -> {"none", "asked", "hashing", "attached"}]
    /\ pairing \in [Sockets -> 0 .. MaxRekeys] /\ key \in [Sockets -> BOOLEAN]
    /\ saw \in [Sockets -> SUBSET Sockets] /\ silent \in [Sockets -> BOOLEAN]
    /\ upsets \in 0 .. MaxUpsets

\* Every daemon has just been started.
Init ==
    /\ token = [d \in Daemons |-> 0] /\ socket = [d \in Daemons |-> <<d, 1>>]
    /\ retryTimer = [d \in Daemons |-> FALSE] /\ heartbeat = [d \in Daemons |-> FALSE]
    /\ yielded = [d \in Daemons |-> FALSE]
    /\ conn = [s \in Sockets |-> IF s[2] = 1 THEN "connecting" ELSE "free"]
    /\ ending = [s \in Sockets |-> None]
    /\ place = [s \in Sockets |-> IF s[2] = 1 THEN "asked" ELSE "none"]
    /\ pairing = [s \in Sockets |-> 0] /\ key = [s \in Sockets |-> s[2] = 1]
    /\ saw = [s \in Sockets |-> {}] /\ silent = [s \in Sockets |-> FALSE]
    /\ upsets = 0

-----------------------------------------------------------------------------
(* The client. *)

Forgotten(s) ==
    conn[s] = "free" /\ place[s] = "none" /\ \A t \in Sockets : s \notin saw[t]

\* connect(): a new socket, whose request is on its way to the room.
Connect(d, s) ==
    /\ Owner(s) = d /\ Forgotten(s)
    /\ socket' = [socket EXCEPT ![d] = s]
    /\ place' = [place EXCEPT ![s] = "asked"]
    /\ pairing' = [pairing EXCEPT ![s] = token'[d]]
    /\ key' = [key EXCEPT ![s] = ~yielded'[d]]
    /\ silent' = [silent EXCEPT ![s] = FALSE]
    /\ UNCHANGED saw

\* The retry timer fires.
RetryFires(d) ==
    /\ retryTimer[d]
    /\ retryTimer' = [retryTimer EXCEPT ![d] = FALSE]
    /\ UNCHANGED <<token, yielded, heartbeat, ending, upsets>>
    /\ \E s \in Sockets : Connect(d, s) /\ conn' = [conn EXCEPT ![s] = "connecting"]

\* Slip: the keepalive is not started.
OpensSilently(s) ==
    /\ conn[s] = "answered"
    /\ conn' = [conn EXCEPT ![s] = "open"]
    /\ UNCHANGED <<token, socket, retryTimer, heartbeat, yielded, ending, roomVars, dialVars, upsets>>

\* onopen.
Opens(s) ==
    /\ conn[s] = "answered"
    /\ conn' = [conn EXCEPT ![s] = "open"]
    /\ heartbeat' = [heartbeat EXCEPT ![Owner(s)] = TRUE]
    /\ UNCHANGED <<token, socket, retryTimer, yielded, ending, roomVars, dialVars, upsets>>

\* The close event of s reaches its daemon.
CloseEvent(s) ==
    /\ ending[s] # None /\ conn[s] \in {"connecting", "open", "closing"}
    /\ conn' = [conn EXCEPT ![s] = "free"] /\ ending' = [ending EXCEPT ![s] = None]
    /\ UNCHANGED <<token, roomVars, dialVars, upsets>>

\* Slip: the socket is not compared with the current one.
ClosedAny(s) ==
    LET d == Owner(s)
    IN  /\ CloseEvent(s)
        /\ heartbeat' = [heartbeat EXCEPT ![d] = FALSE]
        /\ retryTimer' = [retryTimer EXCEPT ![d] = TRUE]
        /\ socket' = [socket EXCEPT ![d] = NoSocket]
        /\ yielded' = [yielded EXCEPT ![d] = @ \/ ending[s] = "1012"]

\* Slip: being replaced is taken for a dropped network.
ClosedUnyielding(s) ==
    LET d == Owner(s)
        current == socket[d] = s
    IN  /\ CloseEvent(s)
        /\ heartbeat' = [heartbeat EXCEPT ![d] = FALSE]
        /\ retryTimer' = [retryTimer EXCEPT ![d] = current]
        /\ socket' = [socket EXCEPT ![d] = IF current THEN NoSocket ELSE @]
        /\ UNCHANGED yielded

\* Slip: the close of the current socket schedules no retry.
ClosedForGood(s) ==
    LET d == Owner(s)
        current == socket[d] = s
    IN  /\ CloseEvent(s)
        /\ heartbeat' = [heartbeat EXCEPT ![d] = FALSE]
        /\ retryTimer' = [retryTimer EXCEPT ![d] = FALSE]
        /\ socket' = [socket EXCEPT ![d] = IF current THEN NoSocket ELSE @]
        /\ yielded' = [yielded EXCEPT ![d] = @ \/ (current /\ ending[s] = "1012")]

\* onclose: timers go first, whichever socket closed.
Closed(s) ==
    LET d == Owner(s)
        current == socket[d] = s
    IN  /\ CloseEvent(s)
        /\ heartbeat' = [heartbeat EXCEPT ![d] = FALSE]
        /\ retryTimer' = [retryTimer EXCEPT ![d] = current]
        /\ socket' = [socket EXCEPT ![d] = IF current THEN NoSocket ELSE @]
        /\ yielded' = [yielded EXCEPT ![d] = @ \/ (current /\ ending[s] = "1012")]

\* rekey(): stop() and start() in one turn; the close event comes later.
Rekey(d) ==
    /\ token[d] < MaxRekeys /\ upsets < MaxUpsets /\ upsets' = upsets + 1
    /\ token' = [token EXCEPT ![d] = @ + 1]
    /\ retryTimer' = [retryTimer EXCEPT ![d] = FALSE]
    /\ heartbeat' = [heartbeat EXCEPT ![d] = FALSE]
    /\ UNCHANGED yielded
    /\ LET old == {socket[d]} \ {NoSocket}
       IN  /\ ending' = [s \in Sockets |-> IF s \in old /\ ending[s] = None
                                           THEN "other" ELSE ending[s]]
           /\ \E s \in Sockets :
                 /\ Connect(d, s)
                 /\ conn' = [[t \in Sockets |-> IF t \in old THEN "closing" ELSE conn[t]]
                               EXCEPT ![s] = "connecting"]

\* The daemon's process ends and is started again.
Restart(d) ==
    /\ upsets < MaxUpsets /\ upsets' = upsets + 1
    /\ retryTimer' = [retryTimer EXCEPT ![d] = FALSE]
    /\ heartbeat' = [heartbeat EXCEPT ![d] = FALSE]
    /\ yielded' = [yielded EXCEPT ![d] = FALSE]
    /\ ending' = [s \in Sockets |-> IF Owner(s) = d THEN None ELSE ending[s]]
    /\ UNCHANGED token
    /\ \E s \in Sockets :
          /\ Connect(d, s)
          /\ conn' = [[t \in Sockets |-> IF Owner(t) = d THEN "free" ELSE conn[t]]
                        EXCEPT ![s] = "connecting"]

-----------------------------------------------------------------------------
(* The network and the room. *)

Connected(s) == conn[s] \in {"connecting", "answered", "open"}

\* The close events the room's decisions send: none to an end that is closing.
CloseSent(S, code) ==
    ending' = [s \in Sockets |-> IF s \in S /\ Connected(s) /\ ending[s] = None
                                 THEN code ELSE ending[s]]

\* The daemon loses the connection; the room is not told.  A request on its way
\* may be lost with it.
NetworkBreaks(s) ==
    /\ Connected(s) /\ ending[s] = None
    /\ upsets < MaxUpsets /\ upsets' = upsets + 1
    /\ ending' = [ending EXCEPT ![s] = "other"]
    /\ place' \in {place} \cup (IF place[s] = "asked" THEN {[place EXCEPT ![s] = "none"]} ELSE {})
    /\ UNCHANGED <<clientVars, saw, silent, dialVars>>

\* peers("daemon") of a room.
Attached(t) == {s \in Sockets : place[s] = "attached" /\ pairing[s] = t}

\* Slip: a room is as alive as the daemon that was quiet for longest.
EachHeard(daemons) == daemons # {} /\ \A x \in daemons : ~silent[x]

\* daemonLastSeen: the room was heard of as late as the last of its daemons.
Heard(daemons) == \E x \in daemons : ~silent[x]

\* What fetch does once it knows the hash: admit(), and the eviction.
Admit(s, daemons) ==
    LET resumes == key[s] /\ daemons # {} /\ \A x \in daemons : key[x]
        evicted == IF daemons = {} THEN {} ELSE Attached(pairing[s])
    IN  IF daemons # {} /\ ~resumes /\ Heard(daemons)
        THEN /\ place' = [place EXCEPT ![s] = "none"]
             /\ CloseSent({s}, "other")
             /\ UNCHANGED conn
        ELSE /\ place' = [x \in Sockets |-> IF x = s THEN "attached"
                                            ELSE IF x \in evicted THEN "none" ELSE place[x]]
             /\ conn' = [conn EXCEPT ![s] = IF @ = "connecting" THEN "answered" ELSE @]
             /\ CloseSent(evicted, "1012")

\* fetch of a request without a key: counted and decided in one step.
FetchPlain(s) ==
    /\ place[s] = "asked" /\ ~key[s]
    /\ Admit(s, Attached(pairing[s]))
    /\ UNCHANGED <<token, socket, retryTimer, heartbeat, yielded, saw, silent, dialVars, upsets>>

\* fetch of a request with a key: the daemons are counted before the hash is awaited.
FetchCounts(s) ==
    /\ place[s] = "asked" /\ key[s]
    /\ place' = [place EXCEPT ![s] = "hashing"]
    /\ saw' = [saw EXCEPT ![s] = Attached(pairing[s])]
    /\ UNCHANGED <<clientVars, ending, silent, dialVars, upsets>>

FetchDecides(s) ==
    /\ place[s] = "hashing"
    /\ Admit(s, saw[s])
    /\ saw' = [saw EXCEPT ![s] = {}]
    /\ UNCHANGED <<token, socket, retryTimer, heartbeat, yielded, silent, dialVars, upsets>>

\* The runtime notices that the far end closed.
Detach(s) ==
    /\ place[s] = "attached" /\ conn[s] \in {"free", "closing"}
    /\ place' = [place EXCEPT ![s] = "none"]
    /\ UNCHANGED <<clientVars, ending, saw, silent, dialVars, upsets>>

\* Keepalives of s reach the room.
Beating(s) ==
    /\ ending[s] = None
    /\ conn[s] = "answered" \/ (conn[s] = "open" /\ heartbeat[Owner(s)] /\ socket[Owner(s)] = s)

\* DAEMON_STALE_MS pass without one.
FallsSilent(s) ==
    /\ place[s] = "attached" /\ ~silent[s] /\ ~Beating(s)
    /\ silent' = [silent EXCEPT ![s] = TRUE]
    /\ UNCHANGED <<clientVars, ending, place, saw, dialVars, upsets>>

\* alarm(): a silent daemon is closed.
Sweep(s) ==
    /\ place[s] = "attached" /\ silent[s]
    /\ place' = [place EXCEPT ![s] = "none"]
    /\ CloseSent({s}, "other")
    /\ UNCHANGED <<clientVars, saw, silent, dialVars, upsets>>

-----------------------------------------------------------------------------
Client(d) == RetryFires(d) \/ Rekey(d) \/ Restart(d)
Wire(s)   == Opens(s) \/ Closed(s) \/ NetworkBreaks(s)
Room(s)   == FetchPlain(s) \/ FetchCounts(s) \/ FetchDecides(s) \/ Detach(s)
             \/ FallsSilent(s) \/ Sweep(s)

Next == (\E d \in Daemons : Client(d)) \/ (\E s \in Sockets : Wire(s) \/ Room(s))

Safety == Init /\ [][Next]_vars

\* Timers fire, events arrive, requests are answered, the runtime notices closed
\* sockets, and alarms find silent ones.
Fairness ==
    /\ \A d \in Daemons : WF_vars(RetryFires(d))
    /\ \A s \in Sockets : WF_vars(Opens(s)) /\ WF_vars(Closed(s)) /\ WF_vars(Room(s))

Spec == Safety /\ Fairness

-----------------------------------------------------------------------------
\* No two connections of one daemon race: every socket but the current one is
\* closing or gone (relay-client.ts:399).
OneSocket == \A s \in Sockets : Connected(s) => socket[Owner(s)] = s

\* Until its pairing is rotated, a daemon keeps trying, and never sits in a room
\* without sending the keepalives that hold its place there.
HoldsOn == \A d \in Daemons : token[d] = 0 =>
    /\ socket[d] # NoSocket \/ retryTimer[d]
    /\ socket[d] # NoSocket /\ conn[socket[d]] = "open" => heartbeat[d]

\* A daemon whose keepalives arrive keeps its place against everyone who does not show
\* the reconnect key, a broken socket beside it in the room included
\* (admission.ts:150, index.ts:155 of the relay).
Replaced(s) == place[s] = "attached" /\ ~silent[s] /\ Beating(s) /\ place'[s] # "attached"
OnlyTheKeyReplaces ==
    [][\A s \in Sockets : Replaced(s) =>
          \E x \in Sockets : place[x] # "attached" /\ place'[x] = "attached" /\ key[x]]_vars

\* Two daemons of one machine do not evict each other in turn for ever
\* (relay-client.ts:388).
NoEvictionWar == <>[][\A s \in Sockets : ending'[s] = "1012" => ending[s] = "1012"]_vars

\* Whatever broke, once networks and processes hold, a daemon ends up in the room and stays.
SomeoneServes ==
    [](\A d \in Daemons : token[d] = 0)
      => <>[](\E s \in Attached(0) : conn[s] = "open" /\ ending[s] = None)
=============================================================================
