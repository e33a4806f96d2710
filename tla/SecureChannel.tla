----------------------------- MODULE SecureChannel -----------------------------
(***************************************************************************)
(* Sealed frames between phones and the daemon of a relay room             *)
(* (packages/protocol/src/channel.ts and ReplayWindow of crypto.ts;        *)
(* onopen and onmessage of packages/daemon/src/relay-client.ts and of      *)
(* packages/app/src/daemonConnection.ts; webSocketMessage of               *)
(* packages/relay/src/index.ts).                                           *)
(*                                                                         *)
(* Every socket is sealed with counters of its own, and one socket of the  *)
(* daemon carries all phones.  A socket a phone lets go of may deliver     *)
(* what was written to it for a while yet (`late').  The relay forwards    *)
(* and keeps nothing; a frame to or from a socket it no longer holds is    *)
(* gone.  The relay's two hops of a frame are one step.                    *)
(***************************************************************************)
EXTENDS Integers, Sequences, FiniteSets

CONSTANTS
    Phones,
    MaxSends,   \* bound: frames the phones and the daemon seal of their own accord
    MaxPipe,    \* bound: frames on their way to one phone
    MaxDrops    \* bound: sockets lost, of phones and of the daemon

ASSUME ChannelBounds == MaxSends \in Nat /\ MaxPipe \in Nat \ {0} /\ MaxDrops \in Nat

VARIABLES
    stage,    \* each phone's socket: dialing (or waiting to), held by the relay, open
    number,   \* which of its sockets that is, in order; its proof's `at' as well
    sealed,   \* the phone's channel: its next counter
    highest,  \* the phone's channel: the newest counter opened
    rising,   \* written to the phone's socket, not at the relay yet
    late,     \* written to sockets it let go of, not at the relay yet
    falling,  \* forwarded to the phone's socket, not read yet
    daemon,   \* the daemon's socket: down (the relay may not know yet) or open
    counter,  \* the daemon's channel: its next counter
    senders,  \* the daemon's channel: devices with a window
    window,   \* the daemon's channel: the newest counter opened from each
    lastProofAt, \* the daemon's channel: the socket whose hello it accepted last
    overrun,  \* history: phones of which another socket's frame was opened since
    refused,  \* history: phones refused a frame of that socket
    left      \* what is left of the bounds

phoneVars   == <<stage, number, sealed, highest>>
channelVars == <<counter, senders, window, lastProofAt>>
history     == <<overrun, refused>>
vars == <<phoneVars, rising, late, falling, daemon, channelVars, history, left>>

Hello == [kind |-> "hello", ctr |-> 0]
Frame(c) == [kind |-> "e", ctr |-> c]
Falls == [kind : {"hello", "e"}, ctr : Nat]
Rises == [kind : {"hello", "e"}, ctr : Nat, of : Nat]

\* Types of the sockets, the pipes and both ends' channels; a device has moved its
\* window only if it is in the map, which is the verified flag.
TypeOK ==
    /\ stage \in [Phones -> {"dialing", "held", "open"}]
    /\ {number, sealed, lastProofAt} \subseteq [Phones -> Nat]
    /\ {highest, window} \subseteq [Phones -> Nat \cup {-1}]
    /\ {rising, late} \subseteq [Phones -> Seq(Rises)] /\ falling \in [Phones -> Seq(Falls)]
    /\ daemon \in {"down", "open"} /\ counter \in Nat
    /\ senders \cup overrun \cup refused \subseteq Phones
    /\ \A p \in Phones : window[p] # -1 => p \in senders
    /\ left \in [sends : Nat, drops : Nat]

Init ==
    /\ stage = [p \in Phones |-> "dialing"] /\ number = [p \in Phones |-> 1]
    /\ sealed = [p \in Phones |-> 0] /\ lastProofAt = sealed
    /\ highest = [p \in Phones |-> -1] /\ window = highest
    /\ rising = [p \in Phones |-> <<>>] /\ late = rising /\ falling = rising
    /\ daemon = "down" /\ counter = 0 /\ senders = {} /\ overrun = {} /\ refused = {}
    /\ left = [sends |-> MaxSends, drops |-> MaxDrops]

-----------------------------------------------------------------------------
(* The phone. *)

\* connect(): a new socket and a fresh channel; at once, or after a retry's delay.
Connect(p) ==
    /\ stage' = [stage EXCEPT ![p] = "dialing"]
    /\ number' = [number EXCEPT ![p] = @ + 1]
    /\ sealed' = [sealed EXCEPT ![p] = 0]
    /\ highest' = [highest EXCEPT ![p] = -1]
    /\ rising' = [rising EXCEPT ![p] = <<>>]
    /\ falling' = [falling EXCEPT ![p] = <<>>]

\* The relay attaches the socket; the phone does not know yet.
Attaches(p) ==
    /\ stage[p] = "dialing" /\ stage' = [stage EXCEPT ![p] = "held"]
    /\ UNCHANGED <<number, sealed, highest, rising, late, falling, daemon, channelVars, history, left>>

Write(p, kind) ==
    /\ rising' = [rising EXCEPT ![p] = Append(@, [kind |-> kind, ctr |-> sealed[p], of |-> number[p]])]
    /\ sealed' = [sealed EXCEPT ![p] = @ + 1]

\* onopen: hello, with a proof sealed on the new channel.
Opens(p) ==
    /\ stage[p] = "held" /\ stage' = [stage EXCEPT ![p] = "open"]
    /\ Write(p, "hello")
    /\ UNCHANGED <<number, highest, late, falling, daemon, channelVars, history, left>>

Seals(p) ==
    /\ stage[p] = "open" /\ left.sends > 0
    /\ left' = [left EXCEPT !.sends = @ - 1]
    /\ Write(p, "e")
    /\ UNCHANGED <<stage, number, highest, late, falling, daemon, channelVars, history>>

\* Slip: the daemon's hello is one more cleartext frame.
ReadsOn(p) ==
    LET f == Head(falling[p])
    IN  /\ stage[p] = "open" /\ falling[p] # <<>>
        /\ falling' = [falling EXCEPT ![p] = Tail(@)]
        /\ highest' = [highest EXCEPT ![p] = IF f.kind = "e" /\ f.ctr > @ THEN f.ctr ELSE @]
        /\ UNCHANGED <<stage, number, sealed, rising, late, daemon, channelVars, history, left>>

\* onmessage: the computer's own hello means that it holds a new socket, to which
\* this one is deaf, and the phone lets its socket go for another (replace); a
\* sealed frame is opened if its counter advances.
Reads(p) ==
    LET f == Head(falling[p])
    IN  /\ stage[p] = "open" /\ falling[p] # <<>>
        /\ \/ /\ f.kind = "hello"
              /\ Connect(p) /\ late' = [late EXCEPT ![p] = @ \o rising[p]]
           \/ /\ f.kind = "e"
              /\ falling' = [falling EXCEPT ![p] = Tail(@)]
              /\ highest' = [highest EXCEPT ![p] = IF f.ctr > @ THEN f.ctr ELSE @]
              /\ UNCHANGED <<stage, number, sealed, rising, late>>
        /\ UNCHANGED <<daemon, channelVars, history, left>>

\* A phone's socket is lost, and after a while it dials again.  What had been
\* written may arrive all the same.
Drops(p) ==
    /\ stage[p] # "dialing" /\ left.drops > 0
    /\ left' = [left EXCEPT !.drops = @ - 1]
    /\ \E k \in 0 .. Len(rising[p]) : late' = [late EXCEPT ![p] = @ \o SubSeq(rising[p], 1, k)]
    /\ Connect(p)
    /\ UNCHANGED <<daemon, channelVars, history>>

-----------------------------------------------------------------------------
(* The daemon. *)

\* The relay forwards a frame of the daemon to every app it holds.
FanOut(f) ==
    /\ \A p \in Phones : Len(falling[p]) < MaxPipe
    /\ falling' = [p \in Phones |-> IF stage[p] \in {"held", "open"} THEN Append(falling[p], f)
                                 ELSE falling[p]]

\* onopen, once the relay has accepted the daemon's socket in place of any it had:
\* a fresh channel, whose first counter seals the proof in the hello.  What phones
\* write between the two waits for it.
DaemonOpens ==
    /\ daemon = "down" /\ daemon' = "open"
    /\ counter' = 1 /\ senders' = {}
    /\ window' = [p \in Phones |-> -1] /\ lastProofAt' = [p \in Phones |-> 0]
    /\ overrun' = {} /\ refused' = {}
    /\ FanOut(Hello)
    /\ UNCHANGED <<phoneVars, rising, late, left>>

DaemonSends ==
    /\ daemon = "open" /\ left.sends > 0
    /\ left' = [left EXCEPT !.sends = @ - 1]
    /\ FanOut(Frame(counter)) /\ counter' = counter + 1
    /\ UNCHANGED <<phoneVars, rising, late, daemon, senders, window, lastProofAt, history>>

\* The daemon's socket is lost; the relay may not know.
DaemonDrops ==
    /\ daemon = "open" /\ left.drops > 0
    /\ left' = [left EXCEPT !.drops = @ - 1]
    /\ daemon' = "down"
    /\ UNCHANGED <<phoneVars, rising, late, falling, channelVars, history>>

\* verifyProof: each proof of a device is newer than the last.
VerifyProof(p, f) == f.of > lastProofAt[p]

\* Slip: the window of the last connection stays.
AcceptKeeping(p) == senders' = senders \cup {p} /\ UNCHANGED window

\* acceptHandshake: the device's counters restart.
AcceptHandshake(p) ==
    /\ senders' = senders \cup {p}
    /\ window' = [window EXCEPT ![p] = -1]

\* Slip: a label no device proved gets a window.
AdvancesUnproven(p, f) == f.ctr > window[p]

\* open(): known senders only, and the counter must advance.
Advances(p, f) == p \in senders /\ f.ctr > window[p]

\* onmessage.  A hello is answered to the whole room; a proof that is not newer is not.
Handles(p, f) ==
    \/ /\ f.kind = "hello" /\ VerifyProof(p, f)
       /\ lastProofAt' = [lastProofAt EXCEPT ![p] = f.of]
       /\ AcceptHandshake(p)
       /\ FanOut(Frame(counter)) /\ counter' = counter + 1
       /\ overrun' = overrun \ {p} /\ refused' = refused \ {p}
    \/ /\ f.kind = "hello" /\ ~VerifyProof(p, f)
       /\ UNCHANGED <<falling, channelVars, history>>
    \/ /\ f.kind = "e" /\ Advances(p, f)
       /\ window' = [window EXCEPT ![p] = f.ctr]
       /\ overrun' = IF f.of # lastProofAt[p] THEN overrun \cup {p} ELSE overrun
       /\ UNCHANGED <<falling, counter, senders, lastProofAt, refused>>
    \/ /\ f.kind = "e" /\ ~Advances(p, f)
       /\ refused' = IF f.of = lastProofAt[p] THEN refused \cup {p} ELSE refused
       /\ UNCHANGED <<falling, channelVars, overrun>>

\* The relay stamps a frame with its device and passes it to the daemon's socket.
Forward(p, f) ==
    \/ daemon = "open" /\ Handles(p, f)
    \/ daemon = "down" /\ UNCHANGED <<falling, channelVars, history>>

Rise(p) ==
    /\ rising[p] # <<>> /\ rising' = [rising EXCEPT ![p] = Tail(@)]
    /\ Forward(p, Head(rising[p]))
    /\ UNCHANGED <<phoneVars, late, daemon, left>>
RiseLate(p) ==
    /\ late[p] # <<>> /\ late' = [late EXCEPT ![p] = Tail(@)]
    /\ Forward(p, Head(late[p]))
    /\ UNCHANGED <<phoneVars, rising, daemon, left>>

-----------------------------------------------------------------------------
Phone(p) == Attaches(p) \/ Opens(p) \/ Seals(p) \/ Reads(p) \/ Drops(p)
Daemon == DaemonOpens \/ DaemonSends \/ DaemonDrops
Next == Daemon \/ \E p \in Phones : Phone(p) \/ Rise(p) \/ RiseLate(p)

Safety == Init /\ [][Next]_vars

\* Sockets are dialled again, open, and deliver what was written to them.
Fairness ==
    /\ WF_vars(DaemonOpens)
    /\ \A p \in Phones : /\ WF_vars(Attaches(p)) /\ WF_vars(Opens(p))
                         /\ WF_vars(Reads(p)) /\ WF_vars(Rise(p)) /\ WF_vars(RiseLate(p))

Spec == Safety /\ Fairness

-----------------------------------------------------------------------------
\* Nothing a phone writes after a hello the daemon took is refused as a replay,
\* whatever its earlier sockets and the other phones of the room had counted up to
\* (relay-client.ts:268-272), unless a frame of another of its sockets came in between.
FramesOpen == refused \subseteq overrun

\* Neither end stays deaf to the other (daemonConnection.ts:376-381): once sockets
\* hold, the daemon knows every phone and no phone is ahead of its counter.
NoneStaysDeaf ==
    <>[](\A p \in Phones : stage[p] = "open" /\ p \in senders /\ highest[p] < counter)
=============================================================================
