--------------------------- MODULE RelayLinkProofs ---------------------------
(***************************************************************************)
(* Theorems about the relay client: for any number of daemons in a room,   *)
(* of sockets, rotations, restarts and broken networks.                    *)
(***************************************************************************)
EXTENDS RelayLink, TLAPS

\* A connection is a daemon's and a number, so it tells its daemon; none is NoSocket.
LEMMA SocketOwner == \A s \in Sockets : Owner(s) \in Daemons /\ s # NoSocket
  BY DEF Sockets, Owner, NoSocket

\* The first socket of each daemon exists.
LEMMA FirstSocket == \A d \in Daemons : <<d, 1>> \in Sockets /\ Owner(<<d, 1>>) = d
  BY Limits DEF Sockets, Owner

-----------------------------------------------------------------------------
(***************************************************************************)
(* Types.                                                                  *)
(***************************************************************************)
LEMMA ConnectType ==
  ASSUME TypeOK, NEW d \in Daemons, NEW s \in Sockets, Connect(d, s), token' \in [Daemons -> 0 .. MaxRekeys],
         yielded' \in [Daemons -> BOOLEAN]
  PROVE  /\ socket' \in [Daemons -> Sockets \cup {NoSocket}]
         /\ place' \in [Sockets -> {"none", "asked", "hashing", "attached"}]
         /\ pairing' \in [Sockets -> 0 .. MaxRekeys] /\ key' \in [Sockets -> BOOLEAN]
         /\ saw' \in [Sockets -> SUBSET Sockets] /\ silent' \in [Sockets -> BOOLEAN]
  BY DEF Connect, TypeOK

LEMMA AdmitType ==
  ASSUME TypeOK, NEW s \in Sockets, NEW S, Admit(s, S)
  PROVE  /\ place' \in [Sockets -> {"none", "asked", "hashing", "attached"}]
         /\ conn' \in [Sockets -> {"free", "connecting", "answered", "open", "closing"}]
         /\ ending' \in [Sockets -> {None, "1012", "other"}]
  BY DEF Admit, CloseSent, TypeOK

LEMMA TypeStep == TypeOK /\ [Next]_vars => TypeOK'
<1> SUFFICES ASSUME TypeOK, [Next]_vars PROVE TypeOK'
  OBVIOUS
<1> USE DEF clientVars, roomVars, dialVars
<1>1. CASE UNCHANGED vars
  BY <1>1 DEF vars, TypeOK
<1>2. ASSUME NEW d \in Daemons, RetryFires(d) PROVE TypeOK'
  <2>1. PICK s \in Sockets : Connect(d, s) /\ conn' = [conn EXCEPT ![s] = "connecting"]
    BY <1>2 DEF RetryFires
  <2>2. token' = token /\ yielded' = yielded /\ heartbeat' = heartbeat /\ ending' = ending /\ upsets' = upsets
        /\ retryTimer' = [retryTimer EXCEPT ![d] = FALSE]
    BY <1>2 DEF RetryFires
  <2> QED
    BY <2>1, <2>2, ConnectType DEF TypeOK
<1>3. ASSUME NEW d \in Daemons, Rekey(d) PROVE TypeOK'
  <2> DEFINE old == {socket[d]} \ {NoSocket}
  <2>1. PICK s \in Sockets :
           Connect(d, s) /\ conn' = [[t \in Sockets |-> IF t \in old THEN "closing" ELSE conn[t]]
                                       EXCEPT ![s] = "connecting"]
    BY <1>3 DEF Rekey
  <2>2. token' \in [Daemons -> 0 .. MaxRekeys] /\ upsets' \in 0 .. MaxUpsets /\ yielded' = yielded
    BY <1>3, Limits DEF Rekey, TypeOK
  <2>3. retryTimer' \in [Daemons -> BOOLEAN] /\ heartbeat' \in [Daemons -> BOOLEAN]
    BY <1>3 DEF Rekey, TypeOK
  <2>4. ending' \in [Sockets -> {None, "1012", "other"}]
    BY <1>3 DEF Rekey, TypeOK
  <2> QED
    BY <2>1, <2>2, <2>3, <2>4, ConnectType DEF TypeOK
<1>4. ASSUME NEW d \in Daemons, Restart(d) PROVE TypeOK'
  <2>1. PICK s \in Sockets :
           Connect(d, s) /\ conn' = [[t \in Sockets |-> IF Owner(t) = d THEN "free" ELSE conn[t]]
                                       EXCEPT ![s] = "connecting"]
    BY <1>4 DEF Restart
  <2>2. token' = token /\ upsets' \in 0 .. MaxUpsets
    BY <1>4, Limits DEF Restart, TypeOK
  <2>3. /\ retryTimer' \in [Daemons -> BOOLEAN] /\ heartbeat' \in [Daemons -> BOOLEAN]
        /\ yielded' \in [Daemons -> BOOLEAN]
    BY <1>4 DEF Restart, TypeOK
  <2>4. ending' \in [Sockets -> {None, "1012", "other"}]
    BY <1>4 DEF Restart, TypeOK
  <2> QED
    BY <2>1, <2>2, <2>3, <2>4, ConnectType DEF TypeOK
<1>5. ASSUME NEW s \in Sockets, Opens(s) PROVE TypeOK'
  BY <1>5, SocketOwner DEF Opens, TypeOK
<1>6. ASSUME NEW s \in Sockets, Closed(s) PROVE TypeOK'
  BY <1>6, SocketOwner DEF Closed, CloseEvent, TypeOK
<1>7. ASSUME NEW s \in Sockets, NetworkBreaks(s) PROVE TypeOK'
  <2>1. place' \in [Sockets -> {"none", "asked", "hashing", "attached"}]
    BY <1>7 DEF NetworkBreaks, TypeOK
  <2>2. ending' \in [Sockets -> {None, "1012", "other"}]
    BY <1>7 DEF NetworkBreaks, TypeOK
  <2>3. upsets' \in 0 .. MaxUpsets
    BY <1>7, Limits DEF NetworkBreaks, TypeOK
  <2>4. UNCHANGED <<clientVars, saw, silent, dialVars>>
    BY <1>7 DEF NetworkBreaks
  <2> QED
    BY <2>1, <2>2, <2>3, <2>4 DEF TypeOK
<1>8. ASSUME NEW s \in Sockets, FetchPlain(s) PROVE TypeOK'
  BY <1>8, AdmitType DEF FetchPlain, TypeOK
<1>9. ASSUME NEW s \in Sockets, FetchCounts(s) PROVE TypeOK'
  BY <1>9 DEF FetchCounts, Attached, TypeOK
<1>10. ASSUME NEW s \in Sockets, FetchDecides(s) PROVE TypeOK'
  BY <1>10, AdmitType DEF FetchDecides, TypeOK
<1>11. ASSUME NEW s \in Sockets, Detach(s) \/ FallsSilent(s) PROVE TypeOK'
  BY <1>11 DEF Detach, FallsSilent, TypeOK
<1>12. ASSUME NEW s \in Sockets, Sweep(s) PROVE TypeOK'
  BY <1>12 DEF Sweep, CloseSent, TypeOK
<1> QED
  BY <1>1, <1>2, <1>3, <1>4, <1>5, <1>6, <1>7, <1>8, <1>9, <1>10, <1>11, <1>12
     DEF Next, Client, Wire, Room

\* The clients, their sockets and the room keep their types.
THEOREM TypeCorrect == Safety => []TypeOK
<1>1. Init => TypeOK
  BY FirstSocket, Limits DEF Init, TypeOK
<1> QED
  BY <1>1, TypeStep, PTL DEF Safety

-----------------------------------------------------------------------------
(***************************************************************************)
(* One connection at a time, and none given up.                            *)
(***************************************************************************)

\* A retry is only pending while there is no socket: what the timer opens races
\* with nothing.
SocketInv ==
  /\ OneSocket
  /\ \A d \in Daemons : retryTimer[d] => socket[d] = NoSocket

LEMMA SocketStep == TypeOK /\ SocketInv /\ [Next]_vars => SocketInv'
<1> SUFFICES ASSUME TypeOK, SocketInv, [Next]_vars PROVE SocketInv'
  OBVIOUS
<1> USE DEF SocketInv, OneSocket, Connected, TypeOK, clientVars, roomVars, dialVars
<1>1. CASE UNCHANGED vars
  BY <1>1 DEF vars
<1>2. ASSUME NEW d \in Daemons, RetryFires(d) PROVE SocketInv'
  <2>1. PICK s \in Sockets : Connect(d, s) /\ conn' = [conn EXCEPT ![s] = "connecting"]
    BY <1>2 DEF RetryFires
  <2>2. \A t \in Sockets : Owner(t) = d => ~Connected(t)
    BY <1>2, SocketOwner DEF RetryFires
  <2> QED
    BY <1>2, <2>1, <2>2, SocketOwner DEF RetryFires, Connect
<1>3. ASSUME NEW d \in Daemons, Rekey(d) PROVE SocketInv'
  <2> DEFINE old == {socket[d]} \ {NoSocket}
  <2>1. PICK s \in Sockets :
           Connect(d, s) /\ conn' = [[t \in Sockets |-> IF t \in old THEN "closing" ELSE conn[t]]
                                       EXCEPT ![s] = "connecting"]
    BY <1>3 DEF Rekey
  <2>2. \A t \in Sockets : Owner(t) = d /\ Connected(t) => t \in old
    BY SocketOwner
  <2> QED
    BY <1>3, <2>1, <2>2, SocketOwner DEF Rekey, Connect
<1>4. ASSUME NEW d \in Daemons, Restart(d) PROVE SocketInv'
  <2>1. PICK s \in Sockets :
           Connect(d, s) /\ conn' = [[t \in Sockets |-> IF Owner(t) = d THEN "free" ELSE conn[t]]
                                       EXCEPT ![s] = "connecting"]
    BY <1>4 DEF Restart
  <2> QED
    BY <1>4, <2>1, SocketOwner DEF Restart, Connect
<1>5. ASSUME NEW s \in Sockets, Closed(s) PROVE SocketInv'
  <2>1. \A t \in Sockets : t # s /\ Connected(t) => socket'[Owner(t)] = t
    BY <1>5, SocketOwner DEF Closed, CloseEvent
  <2>2. \A t \in Sockets : Connected(t)' => t # s /\ Connected(t)
    BY <1>5 DEF Closed, CloseEvent
  <2>3. \A d \in Daemons : retryTimer'[d] => socket'[d] = NoSocket
    BY <1>5, SocketOwner DEF Closed
  <2> QED
    BY <2>1, <2>2, <2>3
<1>6. ASSUME NEW s \in Sockets, NEW S, Admit(s, S), UNCHANGED <<socket, retryTimer>> PROVE SocketInv'
  <2>1. \A t \in Sockets : Connected(t)' => Connected(t)
    BY <1>6 DEF Admit
  <2> QED
    BY <1>6, <2>1
<1>7. ASSUME NEW s \in Sockets, Opens(s) \/ NetworkBreaks(s) PROVE SocketInv'
  BY <1>7 DEF Opens, NetworkBreaks
<1>8. ASSUME NEW s \in Sockets, FetchCounts(s) \/ Detach(s) \/ FallsSilent(s) \/ Sweep(s) PROVE SocketInv'
  BY <1>8 DEF FetchCounts, Detach, FallsSilent, Sweep
<1>9. ASSUME NEW s \in Sockets, FetchPlain(s) \/ FetchDecides(s) PROVE SocketInv'
  BY <1>6, <1>9 DEF FetchPlain, FetchDecides
<1> QED
  BY <1>1, <1>2, <1>3, <1>4, <1>5, <1>7, <1>8, <1>9 DEF Next, Client, Wire, Room

LEMMA SocketInit == Init => SocketInv
<1> SUFFICES ASSUME Init PROVE SocketInv
  OBVIOUS
<1>1. /\ socket = [d \in Daemons |-> <<d, 1>>] /\ retryTimer = [d \in Daemons |-> FALSE]
      /\ conn = [s \in Sockets |-> IF s[2] = 1 THEN "connecting" ELSE "free"]
  BY DEF Init
<1>2. ASSUME NEW s \in Sockets, Connected(s) PROVE socket[Owner(s)] = s
  <2>1. s[2] = 1
    BY <1>1, <1>2 DEF Connected
  <2>2. Owner(s) \in Daemons /\ s = <<Owner(s), 1>>
    BY <2>1, SocketOwner DEF Sockets, Owner
  <2> QED
    BY <1>1, <2>2
<1>3. \A d \in Daemons : ~ retryTimer[d]
  BY <1>1
<1> QED
  BY <1>2, <1>3 DEF SocketInv, OneSocket

\* No two connections of one daemon race (relay-client.ts:399), with any number of
\* daemons, through rotations, restarts and retries.
THEOREM SocketsNeverRace == Safety => []OneSocket
<1>1. SocketInv => OneSocket
  BY DEF SocketInv
<1> QED
  BY <1>1, SocketInit, TypeCorrect, SocketStep, PTL DEF Safety

-----------------------------------------------------------------------------
\* A daemon whose pairing was never rotated has one socket at most, so only its own
\* close event stops its timers.
HoldInv ==
  /\ HoldsOn
  /\ \A d \in Daemons : socket[d] # NoSocket => Owner(socket[d]) = d
  /\ \A s \in Sockets : token[Owner(s)] = 0 /\ conn[s] # "free" => socket[Owner(s)] = s

LEMMA HoldStep == TypeOK /\ SocketInv /\ HoldInv /\ [Next]_vars => HoldInv'
<1> SUFFICES ASSUME TypeOK, SocketInv, HoldInv, [Next]_vars PROVE HoldInv'
  OBVIOUS
<1> USE DEF HoldInv, HoldsOn, TypeOK, clientVars, roomVars, dialVars
<1>1. CASE UNCHANGED vars
  BY <1>1 DEF vars
<1>2. ASSUME NEW d \in Daemons, RetryFires(d) PROVE HoldInv'
  <2>1. PICK s \in Sockets : Connect(d, s) /\ conn' = [conn EXCEPT ![s] = "connecting"]
    BY <1>2 DEF RetryFires
  <2>2. token[d] = 0 => \A t \in Sockets : Owner(t) = d => conn[t] = "free"
    BY <1>2, SocketOwner DEF RetryFires, SocketInv
  <2> QED
    BY <1>2, <2>1, <2>2, SocketOwner DEF RetryFires, Connect
<1>3. ASSUME NEW d \in Daemons, Rekey(d) PROVE HoldInv'
  <2> DEFINE old == {socket[d]} \ {NoSocket}
  <2>1. PICK s \in Sockets :
           Connect(d, s) /\ conn' = [[t \in Sockets |-> IF t \in old THEN "closing" ELSE conn[t]]
                                       EXCEPT ![s] = "connecting"]
    BY <1>3 DEF Rekey
  <2>2. token'[d] # 0 /\ \A e \in Daemons : e # d => token'[e] = token[e]
    BY <1>3 DEF Rekey
  <2>3. \A t \in Sockets : Owner(t) # d => conn'[t] = conn[t] /\ t # s
    BY <2>1, SocketOwner DEF Connect
  <2>4. \A e \in Daemons : e # d =>
           socket'[e] = socket[e] /\ retryTimer'[e] = retryTimer[e] /\ heartbeat'[e] = heartbeat[e]
    BY <1>3, <2>1 DEF Rekey, Connect
  <2>5. socket'[d] = s /\ Owner(s) = d
    BY <2>1 DEF Connect
  <2> QED
    BY <2>2, <2>3, <2>4, <2>5, SocketOwner
<1>4. ASSUME NEW d \in Daemons, Restart(d) PROVE HoldInv'
  <2>1. PICK s \in Sockets :
           Connect(d, s) /\ conn' = [[t \in Sockets |-> IF Owner(t) = d THEN "free" ELSE conn[t]]
                                       EXCEPT ![s] = "connecting"]
    BY <1>4 DEF Restart
  <2> QED
    BY <1>4, <2>1, SocketOwner DEF Restart, Connect
<1>5. ASSUME NEW s \in Sockets, Closed(s) PROVE HoldInv'
  <2> DEFINE d == Owner(s)
  <2>1. d \in Daemons /\ conn[s] # "free" /\ token' = token /\ conn' = [conn EXCEPT ![s] = "free"]
    BY <1>5, SocketOwner DEF Closed, CloseEvent
  <2>2. /\ heartbeat' = [heartbeat EXCEPT ![d] = FALSE]
        /\ retryTimer' = [retryTimer EXCEPT ![d] = (socket[d] = s)]
        /\ socket' = [socket EXCEPT ![d] = IF socket[d] = s THEN NoSocket ELSE @]
    BY <1>5 DEF Closed
  <2>3. token[d] = 0 => socket[d] = s
    BY <2>1
  <2>4. \A e \in Daemons : e # d =>
           socket'[e] = socket[e] /\ retryTimer'[e] = retryTimer[e] /\ heartbeat'[e] = heartbeat[e]
    BY <2>1, <2>2
  <2>5. token[d] = 0 => retryTimer'[d] /\ socket'[d] = NoSocket
    BY <2>1, <2>2, <2>3
  <2>6. \A t \in Sockets : token[Owner(t)] = 0 /\ conn'[t] # "free" => socket'[Owner(t)] = t
    BY <2>1, <2>3, <2>4, SocketOwner
  <2>7. \A e \in Daemons : socket'[e] # NoSocket => Owner(socket'[e]) = e
    BY <2>1, <2>2
  <2>8. \A e \in Daemons : socket'[e] # NoSocket => socket'[e] = socket[e]
    BY <2>1, <2>2
  <2> QED
    BY <2>1, <2>4, <2>5, <2>6, <2>7, <2>8, SocketOwner
<1>6. ASSUME NEW s \in Sockets, NEW S, Admit(s, S), UNCHANGED <<token, socket, retryTimer, heartbeat>>
      PROVE  HoldInv'
  <2>1. \A t \in Sockets : (conn'[t] = "open" => conn[t] = "open") /\ (conn'[t] # "free" => conn[t] # "free")
    BY <1>6 DEF Admit
  <2> QED
    BY <1>6, <2>1
<1>7. ASSUME NEW s \in Sockets, Opens(s) PROVE HoldInv'
  BY <1>7, SocketOwner DEF Opens, SocketInv
<1>8. ASSUME NEW s \in Sockets,
             NetworkBreaks(s) \/ FetchCounts(s) \/ Detach(s) \/ FallsSilent(s) \/ Sweep(s)
      PROVE  HoldInv'
  BY <1>8 DEF NetworkBreaks, FetchCounts, Detach, FallsSilent, Sweep
<1>9. ASSUME NEW s \in Sockets, FetchPlain(s) \/ FetchDecides(s) PROVE HoldInv'
  BY <1>6, <1>9 DEF FetchPlain, FetchDecides
<1> QED
  BY <1>1, <1>2, <1>3, <1>4, <1>5, <1>7, <1>8, <1>9 DEF Next, Client, Wire, Room

LEMMA HoldInit == Init => HoldInv
<1> SUFFICES ASSUME Init PROVE HoldInv
  OBVIOUS
<1>1. /\ socket = [d \in Daemons |-> <<d, 1>>]
      /\ conn = [s \in Sockets |-> IF s[2] = 1 THEN "connecting" ELSE "free"]
  BY DEF Init
<1>2. ASSUME NEW s \in Sockets, conn[s] # "free" PROVE socket[Owner(s)] = s
  <2>1. s[2] = 1
    BY <1>1, <1>2
  <2>2. Owner(s) \in Daemons /\ s = <<Owner(s), 1>>
    BY <2>1, SocketOwner DEF Sockets, Owner
  <2> QED
    BY <1>1, <2>2
<1>3. ASSUME NEW d \in Daemons
      PROVE  socket[d] # NoSocket /\ Owner(socket[d]) = d /\ conn[socket[d]] = "connecting"
  <2>1. socket[d] = <<d, 1>> /\ <<d, 1>> \in Sockets
    BY <1>1, FirstSocket
  <2> QED
    BY <1>1, <2>1, SocketOwner, FirstSocket
<1> QED
  BY <1>2, <1>3 DEF HoldInv, HoldsOn

\* Until its pairing is rotated a daemon keeps trying, and sends the keepalives that
\* hold its place (relay-client.ts onclose and scheduleRetry).
THEOREM DaemonsHoldOn == Safety => []HoldsOn
<1>1. HoldInv => HoldsOn
  BY DEF HoldInv
<1> QED
  BY <1>1, SocketInit, HoldInit, TypeCorrect, SocketStep, HoldStep, PTL DEF Safety

-----------------------------------------------------------------------------
(***************************************************************************)
(* Who may take the room.                                                  *)
(***************************************************************************)
\* Only a request that showed the key is decided after an await.
HashingInv == \A s \in Sockets : place[s] = "hashing" => key[s]

\* Admission attaches the newcomer and nobody else, and asks nobody for a key.
LEMMA AdmitPlaces ==
  ASSUME TypeOK, NEW s \in Sockets, NEW S, Admit(s, S), key' = key, HashingInv
  PROVE  HashingInv'
  BY DEF Admit, HashingInv, TypeOK

LEMMA HashingStep == TypeOK /\ HashingInv /\ [Next]_vars => HashingInv'
<1> SUFFICES ASSUME TypeOK, HashingInv, [Next]_vars PROVE HashingInv'
  OBVIOUS
<1> USE DEF clientVars, roomVars, dialVars
<1>1. CASE UNCHANGED vars
  BY <1>1 DEF vars, HashingInv
<1>2. ASSUME NEW d \in Daemons, NEW s \in Sockets, Connect(d, s) PROVE HashingInv'
  BY <1>2 DEF Connect, HashingInv, TypeOK
<1>3. ASSUME NEW d \in Daemons, Client(d) PROVE HashingInv'
  BY <1>2, <1>3 DEF Client, RetryFires, Rekey, Restart
<1>4. ASSUME NEW s \in Sockets, Wire(s) PROVE HashingInv'
  BY <1>4 DEF Wire, Opens, Closed, CloseEvent, NetworkBreaks, HashingInv, TypeOK
<1>5. ASSUME NEW s \in Sockets, FetchPlain(s) \/ FetchDecides(s) PROVE HashingInv'
  BY <1>5, AdmitPlaces DEF FetchPlain, FetchDecides
<1>6. ASSUME NEW s \in Sockets, FetchCounts(s) \/ Detach(s) \/ FallsSilent(s) \/ Sweep(s) PROVE HashingInv'
  BY <1>6 DEF FetchCounts, Detach, FallsSilent, Sweep, HashingInv, TypeOK
<1> QED
  BY <1>1, <1>3, <1>4, <1>5, <1>6 DEF Next, Room

\* A live daemon loses its place to a newcomer with the key only.
LEMMA LiveReplaced ==
  ASSUME TypeOK, HashingInv, NEW s \in Sockets, place[s] = "attached", place'[s] # "attached", ~silent[s],
         conn[s] \in {"answered", "open"}, [Next]_vars
  PROVE  \E x \in Sockets : place[x] # "attached" /\ place'[x] = "attached" /\ key[x]
<1> USE DEF clientVars, roomVars, dialVars
<1>1. CASE UNCHANGED vars
  BY <1>1 DEF vars
<1>2. ASSUME NEW d \in Daemons, Client(d) PROVE place'[s] = "attached"
  <2>1. ASSUME NEW t \in Sockets, Connect(d, t) PROVE place'[s] = "attached"
    BY <2>1 DEF Connect, Forgotten, TypeOK
  <2>2. \E t \in Sockets : Connect(d, t)
    BY <1>2 DEF Client, RetryFires, Rekey, Restart
  <2> QED
    BY <2>1, <2>2
<1>3. ASSUME NEW t \in Sockets, Wire(t) PROVE place'[s] = "attached"
  <2>1. CASE Opens(t) \/ Closed(t)
    BY <2>1 DEF Opens, Closed, CloseEvent
  <2>2. CASE NetworkBreaks(t)
    BY <2>2 DEF NetworkBreaks, TypeOK
  <2> QED
    BY <1>3, <2>1, <2>2 DEF Wire
<1>4. ASSUME NEW t \in Sockets, FetchCounts(t) \/ Detach(t) \/ FallsSilent(t) \/ Sweep(t)
      PROVE  place'[s] = "attached"
  <2>1. CASE FetchCounts(t)
    BY <2>1 DEF FetchCounts, TypeOK
  <2>2. CASE Detach(t) \/ FallsSilent(t) \/ Sweep(t)
    BY <2>2 DEF Detach, FallsSilent, Sweep, TypeOK
  <2> QED
    BY <1>4, <2>1, <2>2
\* Without a key the room is counted and judged in one step: s is among those heard.
<1>5. ASSUME NEW t \in Sockets, FetchPlain(t) PROVE place'[s] = "attached"
  <2> DEFINE here == Attached(pairing[t])
  <2>1. t # s /\ Admit(t, here) /\ ~key[t] /\ place[t] = "asked"
    BY <1>5 DEF FetchPlain
  <2>2. CASE s \in here
    <3>1. here # {} /\ Heard(here)
      BY <2>2 DEF Heard
    <3>2. place' = [place EXCEPT ![t] = "none"]
      BY <2>1, <3>1 DEF Admit
    <3> QED
      BY <2>1, <3>2 DEF TypeOK
  <2>3. CASE s \notin here
    <3> DEFINE evicted == IF here = {} THEN {} ELSE here
    <3>1. \/ place' = [place EXCEPT ![t] = "none"]
          \/ place' = [x \in Sockets |-> IF x = t THEN "attached" ELSE IF x \in evicted THEN "none" ELSE place[x]]
      BY <2>1 DEF Admit
    <3> QED
      BY <2>1, <2>3, <3>1 DEF TypeOK
  <2> QED
    BY <2>2, <2>3
<1>6. ASSUME NEW t \in Sockets, FetchDecides(t)
      PROVE  place'[s] = "attached" \/ (place[t] # "attached" /\ place'[t] = "attached" /\ key[t])
  <2>1. t # s /\ Admit(t, saw[t]) /\ place[t] = "hashing" /\ key[t]
    BY <1>6 DEF FetchDecides, HashingInv
  <2>2. place' = [place EXCEPT ![t] = "none"] \/ place'[t] = "attached"
    BY <2>1 DEF Admit
  <2> QED
    BY <2>1, <2>2 DEF TypeOK
<1> QED
  BY <1>1, <1>2, <1>3, <1>4, <1>5, <1>6 DEF Next, Room

\* A daemon whose keepalives arrive keeps its place against everyone who does not show
\* the reconnect key, whatever else is in the room (fetch and admit of the relay).
THEOREM LiveDaemonsStay == Safety => OnlyTheKeyReplaces
<1> DEFINE Stays == \A s \in Sockets : Replaced(s) =>
                      \E x \in Sockets : place[x] # "attached" /\ place'[x] = "attached" /\ key[x]
<1>1. TypeOK /\ HashingInv /\ [Next]_vars => Stays
  BY LiveReplaced DEF Replaced, Beating
<1>2. Init => HashingInv
  BY DEF Init, HashingInv
<1>3. TypeOK /\ HashingInv /\ [Next]_vars => [Stays]_vars
  BY <1>1
<1> QED
  BY <1>2, <1>3, TypeCorrect, HashingStep, PTL DEF Safety, OnlyTheKeyReplaces

=============================================================================
