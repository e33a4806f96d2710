-------------------------- MODULE SecureChannelProofs --------------------------
(***************************************************************************)
(* Theorems about sealed frames in a relay room: for any number of phones, *)
(* of frames, of lost sockets and of frames on their way.                  *)
(***************************************************************************)
EXTENDS SecureChannel, TLAPS

-----------------------------------------------------------------------------
(***************************************************************************)
(* Pipes: what is said of all frames of one, and what that says of its     *)
(* ends.                                                                   *)
(***************************************************************************)

\* Frames of one socket carry counters that grow.
Ordered(s) ==
    \A i, j \in 1 .. Len(s) : i < j /\ s[i].of = s[j].of => s[i].ctr < s[j].ctr

\* What a socket carries was sealed on its own channel.
OfSocket(s, n, next) ==
    Ordered(s) /\ \A i \in 1 .. Len(s) : s[i].of = n /\ s[i].ctr < next

\* What arrives late was sealed on channels before this one.
OfEarlier(s, n) ==
    Ordered(s) /\ \A i \in 1 .. Len(s) : s[i].of >= 1 /\ s[i].of < n

\* The window does not stand in the way of the frames of a socket.
Ahead(s, at, w) ==
    \A i \in 1 .. Len(s) : s[i].of = at => s[i].ctr > w

\* The first frame, and those behind it.
LEMMA FirstAndRest ==
  ASSUME NEW s \in Seq(Rises), s # <<>>
  PROVE  /\ Head(s) \in Rises /\ Tail(s) \in Seq(Rises) /\ Len(Tail(s)) = Len(s) - 1
         /\ Len(s) \in Nat /\ Len(s) >= 1 /\ Head(s) = s[1]
         /\ \A i \in 1 .. Len(Tail(s)) : Tail(s)[i] = s[i + 1] /\ i + 1 \in 1 .. Len(s) /\ s[i + 1] \in Rises
<1>1. Len(s) \in Nat /\ Len(s) >= 1 /\ Head(s) = s[1]
  OBVIOUS
<1>2. Len(Tail(s)) = Len(s) - 1 /\ Tail(s) \in Seq(Rises) /\ Head(s) \in Rises
  OBVIOUS
<1>3. \A i \in 1 .. Len(Tail(s)) : Tail(s)[i] = s[i + 1] /\ i + 1 \in 1 .. Len(s)
  BY <1>1, <1>2
<1> QED
  BY <1>1, <1>2, <1>3

LEMMA RestOrdered ==
  ASSUME NEW s \in Seq(Rises), s # <<>>, Ordered(s)
  PROVE  Ordered(Tail(s)) /\ \A i \in 1 .. Len(Tail(s)) : Tail(s)[i].of = Head(s).of => Tail(s)[i].ctr > Head(s).ctr
<1> DEFINE t == Tail(s)
<1>1. /\ Len(s) \in Nat /\ Len(s) >= 1 /\ Head(s) = s[1] /\ s[1] \in Rises /\ Len(t) = Len(s) - 1
      /\ \A i \in 1 .. Len(t) : t[i] = s[i + 1] /\ i + 1 \in 1 .. Len(s) /\ s[i + 1] \in Rises
  BY FirstAndRest
<1> HIDE DEF t
<1>2. ASSUME NEW i \in 1 .. Len(t), t[i].of = Head(s).of PROVE t[i].ctr > Head(s).ctr
  <2>1. 1 \in 1 .. Len(s) /\ 1 < i + 1 /\ i + 1 \in 1 .. Len(s) /\ s[1].of = s[i + 1].of
    BY <1>1, <1>2
  <2>2. s[1].ctr < s[i + 1].ctr
    BY <2>1 DEF Ordered
  <2>3. s[1].ctr \in Nat /\ s[i + 1].ctr \in Nat
    BY <1>1 DEF Rises
  <2> QED
    BY <1>1, <2>2, <2>3
<1>3. ASSUME NEW i \in 1 .. Len(t), NEW j \in 1 .. Len(t), i < j, t[i].of = t[j].of
      PROVE  t[i].ctr < t[j].ctr
  <2>1. i + 1 \in 1 .. Len(s) /\ j + 1 \in 1 .. Len(s) /\ i + 1 < j + 1 /\ s[i + 1].of = s[j + 1].of
    BY <1>1, <1>3
  <2>2. s[i + 1].ctr < s[j + 1].ctr
    BY <2>1 DEF Ordered
  <2> QED
    BY <1>1, <2>2
<1>4. Ordered(t)
  BY <1>3 DEF Ordered
<1> QED
  BY <1>2, <1>4 DEF t

LEMMA RestOfSocket ==
  ASSUME NEW s \in Seq(Rises), s # <<>>, NEW n, NEW next, OfSocket(s, n, next)
  PROVE  OfSocket(Tail(s), n, next) /\ Head(s).of = n /\ Head(s).ctr < next
  BY FirstAndRest, RestOrdered DEF OfSocket

LEMMA RestOfEarlier ==
  ASSUME NEW s \in Seq(Rises), s # <<>>, NEW n, OfEarlier(s, n)
  PROVE  OfEarlier(Tail(s), n) /\ Head(s).of >= 1 /\ Head(s).of < n
  BY FirstAndRest, RestOrdered DEF OfEarlier

LEMMA RestAhead ==
  ASSUME NEW s \in Seq(Rises), s # <<>>, NEW at, NEW w, Ahead(s, at, w)
  PROVE  Ahead(Tail(s), at, w) /\ (Head(s).of = at => Head(s).ctr > w)
  BY FirstAndRest DEF Ahead

\* Behind a frame that was opened the window is still ahead of none of its socket.
LEMMA RestAheadOfHead ==
  ASSUME NEW s \in Seq(Rises), s # <<>>, Ordered(s)
  PROVE  Ahead(Tail(s), Head(s).of, Head(s).ctr)
  BY RestOrdered DEF Ahead

\* One more frame.
LEMMA OneMore ==
  ASSUME NEW s \in Seq(Rises), NEW f \in Rises
  PROVE  /\ Append(s, f) \in Seq(Rises) /\ Len(Append(s, f)) = Len(s) + 1 /\ Len(s) \in Nat
         /\ \A i \in 1 .. Len(s) : Append(s, f)[i] = s[i] /\ s[i] \in Rises
         /\ Append(s, f)[Len(s) + 1] = f
  OBVIOUS

LEMMA OneMoreOfSocket ==
  ASSUME NEW s \in Seq(Rises), NEW n \in Nat, NEW next \in Nat, NEW f \in Rises,
         OfSocket(s, n, next), f.of = n, f.ctr = next
  PROVE  OfSocket(Append(s, f), n, next + 1)
<1> DEFINE t == Append(s, f)
<1>1. /\ Len(t) = Len(s) + 1 /\ Len(s) \in Nat /\ t[Len(s) + 1] = f
      /\ \A i \in 1 .. Len(s) : t[i] = s[i] /\ s[i] \in Rises
  BY OneMore
<1> HIDE DEF t
<1>2. \A i \in 1 .. Len(t) : i \in 1 .. Len(s) \/ i = Len(s) + 1
  BY <1>1
<1>3. \A i \in 1 .. Len(s) : t[i].of = n /\ t[i].ctr < next /\ t[i].ctr \in Nat
  BY <1>1 DEF OfSocket, Rises
<1>4. \A i \in 1 .. Len(t) : t[i].of = n /\ t[i].ctr < next + 1
  BY <1>1, <1>2, <1>3
<1>5. ASSUME NEW i \in 1 .. Len(t), NEW j \in 1 .. Len(t), i < j PROVE t[i].ctr < t[j].ctr
  <2>1. i \in 1 .. Len(s)
    BY <1>1, <1>5
  <2>2. CASE j \in 1 .. Len(s)
    BY <1>1, <1>5, <2>1, <2>2 DEF OfSocket, Ordered
  <2>3. CASE j = Len(s) + 1
    BY <1>1, <1>3, <2>1, <2>3
  <2> QED
    BY <1>2, <2>2, <2>3
<1> QED
  BY <1>4, <1>5 DEF OfSocket, Ordered, t

LEMMA OneMoreAhead ==
  ASSUME NEW s \in Seq(Rises), NEW f \in Rises, NEW at, NEW w, Ahead(s, at, w),
         f.of = at => f.ctr > w
  PROVE  Ahead(Append(s, f), at, w)
<1>1. \A i \in 1 .. Len(Append(s, f)) : i \in 1 .. Len(s) \/ i = Len(s) + 1
  BY OneMore
<1> QED
  BY <1>1, OneMore DEF Ahead

\* What is still to arrive of a socket that was let go of joins what is late already.
LEMMA Joined ==
  ASSUME NEW s \in Seq(Rises), NEW r \in Seq(Rises), NEW k \in 0 .. Len(r)
  PROVE  LET t == s \o SubSeq(r, 1, k)
         IN  /\ t \in Seq(Rises) /\ Len(t) = Len(s) + k /\ Len(s) \in Nat /\ Len(r) \in Nat /\ k \in Nat
             /\ \A i \in 1 .. Len(s) : t[i] = s[i] /\ s[i] \in Rises
             /\ \A i \in 1 .. Len(t) : i \notin 1 .. Len(s) =>
                   /\ i - Len(s) \in 1 .. k /\ i - Len(s) \in 1 .. Len(r)
                   /\ t[i] = r[i - Len(s)] /\ r[i - Len(s)] \in Rises
<1> DEFINE q == SubSeq(r, 1, k)
<1>1. Len(s) \in Nat /\ Len(r) \in Nat /\ k \in Nat /\ k <= Len(r)
  OBVIOUS
<1>2. q \in Seq(Rises) /\ Len(q) = k /\ \A i \in 1 .. k : q[i] = r[i]
  BY <1>1
<1> HIDE DEF q
<1>3. s \o q \in Seq(Rises) /\ Len(s \o q) = Len(s) + k
  BY <1>1, <1>2
<1>4. \A i \in 1 .. Len(s) : (s \o q)[i] = s[i]
  BY <1>1, <1>2
<1>5. ASSUME NEW i \in 1 .. Len(s \o q), i \notin 1 .. Len(s)
      PROVE  /\ i - Len(s) \in 1 .. k /\ i - Len(s) \in 1 .. Len(r)
             /\ (s \o q)[i] = r[i - Len(s)]
  <2>1. i - Len(s) \in 1 .. k /\ i - Len(s) \in 1 .. Len(r)
    BY <1>1, <1>3, <1>5
  <2>2. (s \o q)[i] = q[i - Len(s)]
    BY <1>1, <1>2, <1>3, <1>5
  <2> QED
    BY <1>2, <2>1, <2>2
<1> QED
  BY <1>1, <1>3, <1>4, <1>5 DEF q

LEMMA JoinedOfEarlier ==
  ASSUME NEW s \in Seq(Rises), NEW r \in Seq(Rises), NEW k \in 0 .. Len(r), NEW n \in Nat, NEW next,
         n >= 1, OfEarlier(s, n), OfSocket(r, n, next)
  PROVE  OfEarlier(s \o SubSeq(r, 1, k), n + 1)
<1> DEFINE t == s \o SubSeq(r, 1, k)
<1>1. /\ Len(t) = Len(s) + k /\ Len(s) \in Nat /\ Len(r) \in Nat /\ k \in Nat
      /\ \A i \in 1 .. Len(s) : t[i] = s[i] /\ s[i] \in Rises
      /\ \A i \in 1 .. Len(t) : i \notin 1 .. Len(s) =>
            /\ i - Len(s) \in 1 .. k /\ i - Len(s) \in 1 .. Len(r)
            /\ t[i] = r[i - Len(s)] /\ r[i - Len(s)] \in Rises
  BY Joined
<1> HIDE DEF t
<1>2. \A i \in 1 .. Len(t) : /\ i \in 1 .. Len(s) => t[i].of >= 1 /\ t[i].of < n /\ t[i].of \in Nat
                             /\ i \notin 1 .. Len(s) => t[i].of = n
  <2>1. ASSUME NEW i \in 1 .. Len(s) PROVE t[i].of >= 1 /\ t[i].of < n /\ t[i].of \in Nat
    <3>1. t[i] = s[i] /\ s[i].of \in Nat
      BY <1>1 DEF Rises
    <3>2. s[i].of >= 1 /\ s[i].of < n
      BY DEF OfEarlier
    <3> QED
      BY <3>1, <3>2
  <2>2. ASSUME NEW i \in 1 .. Len(t), i \notin 1 .. Len(s) PROVE t[i].of = n
    <3>1. i - Len(s) \in 1 .. Len(r) /\ t[i] = r[i - Len(s)]
      BY <1>1, <2>2
    <3> QED
      BY <3>1 DEF OfSocket
  <2> QED
    BY <2>1, <2>2
<1>3. \A i \in 1 .. Len(t) : t[i].of >= 1 /\ t[i].of < n + 1
  BY <1>2
<1>4. ASSUME NEW i \in 1 .. Len(t), NEW j \in 1 .. Len(t), i < j, t[i].of = t[j].of
      PROVE  t[i].ctr < t[j].ctr
  <2>1. CASE i \in 1 .. Len(s) /\ j \in 1 .. Len(s)
    BY <1>1, <1>4, <2>1 DEF OfEarlier, Ordered
  <2>2. CASE i \notin 1 .. Len(s) /\ j \notin 1 .. Len(s)
    <3>1. /\ t[i] = r[i - Len(s)] /\ t[j] = r[j - Len(s)]
          /\ i - Len(s) \in 1 .. Len(r) /\ j - Len(s) \in 1 .. Len(r) /\ i - Len(s) < j - Len(s)
      BY <1>1, <1>4, <2>2
    <3> QED
      BY <1>4, <3>1 DEF OfSocket, Ordered
  <2>3. ~ (i \in 1 .. Len(s) /\ j \notin 1 .. Len(s)) /\ ~ (i \notin 1 .. Len(s) /\ j \in 1 .. Len(s))
    BY <1>2, <1>4
  <2> QED
    BY <2>1, <2>2, <2>3
<1> QED
  BY <1>3, <1>4 DEF OfEarlier, Ordered, t

LEMMA JoinedAhead ==
  ASSUME NEW s \in Seq(Rises), NEW r \in Seq(Rises), NEW k \in 0 .. Len(r), NEW at, NEW w,
         Ahead(s, at, w), Ahead(r, at, w)
  PROVE  Ahead(s \o SubSeq(r, 1, k), at, w)
  BY Joined DEF Ahead

-----------------------------------------------------------------------------
(***************************************************************************)
(* Types.                                                                  *)
(***************************************************************************)
LEMMA InitType == Init => TypeOK
  BY ChannelBounds DEF Init, TypeOK

LEMMA ConnectType ==
  ASSUME TypeOK, NEW p \in Phones, Connect(p)
  PROVE  /\ stage' \in [Phones -> {"dialing", "held", "open"}]
         /\ number' \in [Phones -> Nat] /\ sealed' \in [Phones -> Nat]
         /\ highest' \in [Phones -> Nat \cup {-1}]
         /\ rising' \in [Phones -> Seq(Rises)] /\ falling' \in [Phones -> Seq(Falls)]
<1>1. <<>> \in Seq(Rises) /\ <<>> \in Seq(Falls)
  OBVIOUS
<1> QED
  BY <1>1 DEF Connect, TypeOK

LEMMA WriteType ==
  ASSUME TypeOK, NEW p \in Phones, NEW kind \in {"hello", "e"}, Write(p, kind)
  PROVE  /\ rising' \in [Phones -> Seq(Rises)] /\ sealed' \in [Phones -> Nat]
         /\ [kind |-> kind, ctr |-> sealed[p], of |-> number[p]] \in Rises
<1> DEFINE f == [kind |-> kind, ctr |-> sealed[p], of |-> number[p]]
<1>1. f \in Rises /\ rising[p] \in Seq(Rises)
  BY DEF TypeOK, Rises
<1>2. Append(rising[p], f) \in Seq(Rises)
  BY <1>1
<1>3. rising' = [rising EXCEPT ![p] = Append(rising[p], f)]
  BY DEF Write
<1> HIDE DEF f
<1>4. rising' \in [Phones -> Seq(Rises)]
  BY <1>2, <1>3 DEF TypeOK
<1> QED
  BY <1>1, <1>4 DEF Write, TypeOK, f

LEMMA FanOutType ==
  ASSUME TypeOK, NEW f \in Falls, FanOut(f)
  PROVE  falling' \in [Phones -> Seq(Falls)]
<1>1. \A p \in Phones : Append(falling[p], f) \in Seq(Falls) /\ falling[p] \in Seq(Falls)
  BY DEF TypeOK
<1> QED
  BY <1>1 DEF FanOut

\* What taking a frame from a phone leaves.
LEMMA ForwardType ==
  ASSUME TypeOK, NEW p \in Phones, NEW f \in Rises, Forward(p, f)
  PROVE  /\ falling' \in [Phones -> Seq(Falls)] /\ counter' \in Nat /\ lastProofAt' \in [Phones -> Nat]
         /\ window' \in [Phones -> Nat \cup {-1}]
         /\ senders' \cup overrun' \cup refused' \subseteq Phones
         /\ \A q \in Phones : window'[q] # -1 => q \in senders'
<1> USE DEF channelVars, history
<1>1. f.of \in Nat /\ f.ctr \in Nat /\ Frame(counter) \in Falls
  BY DEF Rises, Falls, Frame, TypeOK
<1>2. CASE daemon = "down" /\ UNCHANGED <<falling, channelVars, history>>
  BY <1>2 DEF TypeOK
<1>3. CASE f.kind = "hello" /\ VerifyProof(p, f) /\ Handles(p, f)
  <2>1. /\ lastProofAt' = [lastProofAt EXCEPT ![p] = f.of] /\ AcceptHandshake(p) /\ FanOut(Frame(counter))
        /\ counter' = counter + 1 /\ overrun' = overrun \ {p} /\ refused' = refused \ {p}
    BY <1>3 DEF Handles
  <2>2. lastProofAt' \in [Phones -> Nat] /\ falling' \in [Phones -> Seq(Falls)] /\ counter' \in Nat
    <3>1. lastProofAt \in [Phones -> Nat] /\ counter \in Nat
      BY DEF TypeOK
    <3>2. falling' \in [Phones -> Seq(Falls)]
      BY <1>1, <2>1, FanOutType
    <3> QED
      BY <1>1, <2>1, <3>1, <3>2
  <2>3. window' = [window EXCEPT ![p] = -1] /\ senders' = senders \cup {p}
    BY <2>1 DEF AcceptHandshake
  <2>4. window \in [Phones -> Nat \cup {-1}] /\ \A q \in Phones : window[q] # -1 => q \in senders
    BY DEF TypeOK
  <2>5. window' \in [Phones -> Nat \cup {-1}] /\ \A q \in Phones : window'[q] # -1 => q \in senders'
    BY <2>3, <2>4
  <2>6. senders' \cup overrun' \cup refused' \subseteq Phones
    BY <2>1, <2>3 DEF TypeOK
  <2> QED
    BY <2>2, <2>5, <2>6
<1>4. CASE f.kind = "hello" /\ ~VerifyProof(p, f) /\ Handles(p, f)
  BY <1>4 DEF Handles, TypeOK
<1>5. CASE f.kind = "e" /\ Advances(p, f) /\ Handles(p, f)
  BY <1>1, <1>5 DEF Handles, Advances, TypeOK
<1>6. CASE f.kind = "e" /\ ~Advances(p, f) /\ Handles(p, f)
  BY <1>6 DEF Handles, TypeOK
<1> QED
  BY <1>2, <1>3, <1>4, <1>5, <1>6 DEF Forward, Handles

\* What is left of a bound.
LEMMA LeftType ==
  ASSUME TypeOK,
         \/ left.sends > 0 /\ left' = [left EXCEPT !.sends = @ - 1]
         \/ left.drops > 0 /\ left' = [left EXCEPT !.drops = @ - 1]
  PROVE  left' \in [sends : Nat, drops : Nat]
<1>1. left \in [sends : Nat, drops : Nat]
  BY DEF TypeOK
<1> QED
  BY <1>1

LEMMA PhoneTypes ==
  ASSUME TypeOK, NEW p \in Phones, Phone(p)
  PROVE  TypeOK'
<1> USE DEF channelVars, history
<1>1. CASE Attaches(p)
  BY <1>1 DEF Attaches, TypeOK
<1>2. CASE Opens(p)
  BY <1>2, WriteType DEF Opens, TypeOK
<1>3. CASE Seals(p)
  <2>1. left' \in [sends : Nat, drops : Nat]
    BY <1>3, LeftType DEF Seals
  <2> QED
    BY <1>3, <2>1, WriteType DEF Seals, TypeOK
<1>4. CASE Reads(p)
  <2>1. UNCHANGED <<daemon, channelVars, history, left>>
    BY <1>4 DEF Reads
  <2>2. CASE Connect(p) /\ late' = [late EXCEPT ![p] = @ \o rising[p]]
    <3>1. late[p] \o rising[p] \in Seq(Rises)
      BY DEF TypeOK
    <3>2. late' \in [Phones -> Seq(Rises)]
      BY <2>2, <3>1 DEF TypeOK
    <3> QED
      BY <2>1, <2>2, <3>2, ConnectType DEF TypeOK
  <2>3. CASE /\ Head(falling[p]).kind = "e" /\ falling[p] # <<>>
             /\ falling' = [falling EXCEPT ![p] = Tail(@)]
             /\ highest' = [highest EXCEPT ![p] = IF Head(falling[p]).ctr > @ THEN Head(falling[p]).ctr ELSE @]
             /\ UNCHANGED <<stage, number, sealed, rising, late>>
    <3>1. Tail(falling[p]) \in Seq(Falls) /\ Head(falling[p]) \in Falls
      BY <2>3 DEF TypeOK
    <3>2. Head(falling[p]).ctr \in Nat
      BY <3>1 DEF Falls
    <3> QED
      BY <2>1, <2>3, <3>1, <3>2 DEF TypeOK
  <2> QED
    BY <1>4, <2>2, <2>3 DEF Reads
<1>5. CASE Drops(p)
  <2>1. PICK k \in 0 .. Len(rising[p]) : late' = [late EXCEPT ![p] = @ \o SubSeq(rising[p], 1, k)]
    BY <1>5 DEF Drops
  <2>2. late[p] \o SubSeq(rising[p], 1, k) \in Seq(Rises)
    BY Joined DEF TypeOK
  <2>3. late' \in [Phones -> Seq(Rises)]
    BY <2>1, <2>2 DEF TypeOK
  <2>4. left' \in [sends : Nat, drops : Nat]
    BY <1>5, LeftType DEF Drops
  <2> QED
    BY <1>5, <2>3, <2>4, ConnectType DEF Drops, TypeOK
<1> QED
  BY <1>1, <1>2, <1>3, <1>4, <1>5 DEF Phone

LEMMA DaemonTypes ==
  ASSUME TypeOK, Daemon
  PROVE  TypeOK'
<1> USE DEF phoneVars, channelVars, history
<1>1. CASE DaemonOpens
  <2>1. falling' \in [Phones -> Seq(Falls)]
    BY <1>1, FanOutType DEF DaemonOpens, Hello, Falls
  <2> QED
    BY <1>1, <2>1 DEF DaemonOpens, TypeOK
<1>2. CASE DaemonSends
  <2>1. falling' \in [Phones -> Seq(Falls)]
    BY <1>2, FanOutType DEF DaemonSends, Frame, Falls, TypeOK
  <2>2. left' \in [sends : Nat, drops : Nat]
    BY <1>2, LeftType DEF DaemonSends
  <2> QED
    BY <1>2, <2>1, <2>2 DEF DaemonSends, TypeOK
<1>3. CASE DaemonDrops
  <2>1. left' \in [sends : Nat, drops : Nat]
    BY <1>3, LeftType DEF DaemonDrops
  <2> QED
    BY <1>3, <2>1 DEF DaemonDrops, TypeOK
<1> QED
  BY <1>1, <1>2, <1>3 DEF Daemon

LEMMA TypeStep == TypeOK /\ [Next]_vars => TypeOK'
<1> SUFFICES ASSUME TypeOK, [Next]_vars PROVE TypeOK'
  OBVIOUS
<1> USE DEF phoneVars, channelVars, history
<1>1. CASE UNCHANGED vars
  BY <1>1 DEF vars, TypeOK
<1>2. ASSUME NEW p \in Phones, Rise(p) PROVE TypeOK'
  <2>1. Head(rising[p]) \in Rises /\ Tail(rising[p]) \in Seq(Rises)
    BY <1>2, FirstAndRest DEF Rise, TypeOK
  <2>2. rising' \in [Phones -> Seq(Rises)]
    BY <1>2, <2>1 DEF Rise, TypeOK
  <2>3. Forward(p, Head(rising[p])) /\ UNCHANGED <<phoneVars, late, daemon, left>>
    BY <1>2 DEF Rise
  <2> QED
    BY <2>1, <2>2, <2>3, ForwardType DEF TypeOK
<1>3. ASSUME NEW p \in Phones, RiseLate(p) PROVE TypeOK'
  <2>1. Head(late[p]) \in Rises /\ Tail(late[p]) \in Seq(Rises)
    BY <1>3, FirstAndRest DEF RiseLate, TypeOK
  <2>2. late' \in [Phones -> Seq(Rises)]
    BY <1>3, <2>1 DEF RiseLate, TypeOK
  <2>3. Forward(p, Head(late[p])) /\ UNCHANGED <<phoneVars, rising, daemon, left>>
    BY <1>3 DEF RiseLate
  <2> QED
    BY <2>1, <2>2, <2>3, ForwardType DEF TypeOK
<1> QED
  BY <1>1, <1>2, <1>3, PhoneTypes, DaemonTypes DEF Next

\* The sockets, the pipes and the channels at both ends keep their types.
THEOREM TypeCorrect == Safety => []TypeOK
  BY InitType, TypeStep, PTL DEF Safety

-----------------------------------------------------------------------------
(***************************************************************************)
(* Nothing is refused as a replay.                                         *)
(***************************************************************************)

\* A phone's pipes carry what its sockets sealed, and no hello but one of them is
\* known to the daemon.
PipesInv ==
    \A p \in Phones :
        /\ number[p] >= 1 /\ lastProofAt[p] <= number[p]
        /\ OfSocket(rising[p], number[p], sealed[p])
        /\ OfEarlier(late[p], number[p])

\* The daemon knows whose hello it took, and its window is behind all that the same
\* socket has written and will write, until another socket's frame moves it.
WindowsInv ==
    \A p \in Phones :
        /\ lastProofAt[p] # 0 => p \in senders
        /\ p \notin overrun =>
              /\ Ahead(rising[p], lastProofAt[p], window[p])
              /\ Ahead(late[p], lastProofAt[p], window[p])
              /\ lastProofAt[p] = number[p] => window[p] < sealed[p]

ChannelInv == PipesInv /\ WindowsInv /\ FramesOpen

\* Before any frame is opened, and where no frame is of that socket, nothing is in
\* the way.
LEMMA FreshWindow ==
  ASSUME NEW s \in Seq(Rises), NEW at
  PROVE  Ahead(s, at, -1)
<1>1. \A i \in 1 .. Len(s) : s[i] \in Rises
  OBVIOUS
<1>2. \A i \in 1 .. Len(s) : s[i].ctr \in Nat
  BY <1>1 DEF Rises
<1> QED
  BY <1>2 DEF Ahead

LEMMA EarlierAhead ==
  ASSUME NEW s \in Seq(Rises), NEW n \in Nat, NEW at, NEW w, OfEarlier(s, n), at = n \/ at = 0 \/ at = n + 1
  PROVE  Ahead(s, at, w)
<1>1. \A i \in 1 .. Len(s) : s[i] \in Rises
  OBVIOUS
<1>2. \A i \in 1 .. Len(s) : s[i].of \in Nat
  BY <1>1 DEF Rises
<1> QED
  BY <1>2 DEF Ahead, OfEarlier

LEMMA SocketAhead ==
  ASSUME NEW s \in Seq(Rises), NEW n, NEW next, NEW at, NEW w, OfSocket(s, n, next), at # n
  PROVE  Ahead(s, at, w)
  BY DEF Ahead, OfSocket

\* The daemon takes a frame f of phone p off a pipe.
LEMMA TakesFrame ==
  ASSUME TypeOK, ChannelInv, NEW p \in Phones, NEW f \in Rises, Forward(p, f),
         f.of >= 1, f.of <= number[p], f.of = number[p] => f.ctr < sealed[p],
         p \notin overrun /\ f.of = lastProofAt[p] => f.ctr > window[p],
         UNCHANGED <<number, sealed>>,
         \A q \in Phones : q # p => rising'[q] = rising[q] /\ late'[q] = late[q],
         rising'[p] \in Seq(Rises), late'[p] \in Seq(Rises),
         Ahead(rising'[p], f.of, f.ctr), Ahead(late'[p], f.of, f.ctr),
         Ahead(rising[p], lastProofAt[p], window[p]) => Ahead(rising'[p], lastProofAt[p], window[p]),
         Ahead(late[p], lastProofAt[p], window[p]) => Ahead(late'[p], lastProofAt[p], window[p])
  PROVE  WindowsInv' /\ FramesOpen' /\ \A q \in Phones : lastProofAt'[q] <= number'[q]
<1> USE DEF channelVars, history
<1>1. /\ f.of \in Nat /\ f.ctr \in Nat /\ sealed[p] \in Nat /\ number[p] \in Nat
      /\ lastProofAt \in [Phones -> Nat] /\ window \in [Phones -> Nat \cup {-1}]
  BY DEF TypeOK, Rises
<1>2. WindowsInv /\ FramesOpen /\ \A q \in Phones : lastProofAt[q] <= number[q]
  BY DEF ChannelInv, PipesInv
\* Nothing but the pipes has changed.
<1>3. CASE UNCHANGED <<channelVars, overrun>> /\ FramesOpen'
  <2>1. /\ \A q \in Phones : lastProofAt'[q] <= number'[q]
        /\ \A q \in Phones : q # p => rising'[q] = rising[q] /\ late'[q] = late[q]
    BY <1>2, <1>3
  <2>2. ASSUME NEW q \in Phones, q \notin overrun
        PROVE  /\ Ahead(rising'[q], lastProofAt[q], window[q])
               /\ Ahead(late'[q], lastProofAt[q], window[q])
    BY <1>2, <2>1, <2>2 DEF WindowsInv
  <2>3. WindowsInv'
    BY <1>2, <1>3, <2>2 DEF WindowsInv
  <2> QED
    BY <1>3, <2>1, <2>3
<1>4. CASE f.kind = "hello" /\ VerifyProof(p, f) /\ Handles(p, f)
  <2>1. /\ lastProofAt' = [lastProofAt EXCEPT ![p] = f.of] /\ AcceptHandshake(p)
        /\ overrun' = overrun \ {p} /\ refused' = refused \ {p}
    BY <1>4 DEF Handles
  <2>2. window' = [window EXCEPT ![p] = -1] /\ senders' = senders \cup {p}
    BY <2>1 DEF AcceptHandshake
  <2>3. Ahead(rising'[p], f.of, -1) /\ Ahead(late'[p], f.of, -1)
    BY FreshWindow
  <2>4. lastProofAt'[p] = f.of /\ window'[p] = -1 /\ -1 < sealed[p]
    BY <1>1, <2>1, <2>2
  <2>5. \A q \in Phones : q # p => lastProofAt'[q] = lastProofAt[q] /\ window'[q] = window[q]
    BY <1>1, <2>1, <2>2
  <2>6. ASSUME NEW q \in Phones
        PROVE  /\ lastProofAt'[q] # 0 => q \in senders'
               /\ q \notin overrun' =>
                     /\ Ahead(rising'[q], lastProofAt'[q], window'[q])
                     /\ Ahead(late'[q], lastProofAt'[q], window'[q])
                     /\ lastProofAt'[q] = number'[q] => window'[q] < sealed'[q]
    <3>1. CASE q = p
      BY <2>2, <2>3, <2>4, <3>1
    <3>2. CASE q # p
      BY <1>2, <2>1, <2>2, <2>5, <3>2 DEF WindowsInv
    <3> QED
      BY <3>1, <3>2
  <2>7. FramesOpen'
    BY <1>2, <2>1 DEF FramesOpen
  <2>8. \A q \in Phones : lastProofAt'[q] <= number'[q]
    BY <1>2, <2>4, <2>5
  <2> QED
    BY <2>6, <2>7, <2>8 DEF WindowsInv
<1>5. CASE f.kind = "e" /\ Advances(p, f) /\ Handles(p, f)
  <2>1. /\ window' = [window EXCEPT ![p] = f.ctr] /\ UNCHANGED <<senders, lastProofAt, refused>>
        /\ overrun' = IF f.of # lastProofAt[p] THEN overrun \cup {p} ELSE overrun
    BY <1>5 DEF Handles, Advances
  <2>2. window'[p] = f.ctr /\ \A q \in Phones : q # p => window'[q] = window[q]
    BY <1>1, <2>1
  <2>3. ASSUME NEW q \in Phones
        PROVE  /\ lastProofAt'[q] # 0 => q \in senders'
               /\ q \notin overrun' =>
                     /\ Ahead(rising'[q], lastProofAt'[q], window'[q])
                     /\ Ahead(late'[q], lastProofAt'[q], window'[q])
                     /\ lastProofAt'[q] = number'[q] => window'[q] < sealed'[q]
    <3>1. CASE q = p
      BY <1>2, <2>1, <2>2, <3>1 DEF WindowsInv
    <3>2. CASE q # p
      BY <1>2, <2>1, <2>2, <3>2 DEF WindowsInv
    <3> QED
      BY <3>1, <3>2
  <2>4. FramesOpen' /\ \A q \in Phones : lastProofAt'[q] <= number'[q]
    BY <1>2, <2>1 DEF FramesOpen
  <2> QED
    BY <2>3, <2>4 DEF WindowsInv
<1>6. CASE f.kind = "e" /\ ~Advances(p, f) /\ Handles(p, f)
  <2>1. UNCHANGED <<channelVars, overrun>>
        /\ refused' = IF f.of = lastProofAt[p] THEN refused \cup {p} ELSE refused
    BY <1>6 DEF Handles
  <2>2. ASSUME f.of = lastProofAt[p] PROVE p \in overrun
    <3>1. p \in senders
      BY <1>1, <1>2, <2>2 DEF WindowsInv
    <3>2. ~ (f.ctr > window[p])
      BY <1>6, <3>1 DEF Advances
    <3> QED
      BY <2>2, <3>2
  <2>3. FramesOpen'
    BY <1>2, <2>1, <2>2 DEF FramesOpen
  <2> QED
    BY <1>3, <2>1, <2>3
<1>7. CASE UNCHANGED <<channelVars, history>>
  BY <1>2, <1>3, <1>7 DEF FramesOpen
<1> QED
  BY <1>4, <1>5, <1>6, <1>7 DEF Forward, Handles

LEMMA RiseStep ==
  ASSUME TypeOK, ChannelInv, NEW p \in Phones, Rise(p)
  PROVE  ChannelInv'
<1> DEFINE s == rising[p]
           f == Head(rising[p])
<1>1. /\ s \in Seq(Rises) /\ s # <<>> /\ f \in Rises /\ late[p] \in Seq(Rises) /\ number[p] \in Nat
      /\ Tail(s) \in Seq(Rises)
  BY FirstAndRest DEF Rise, TypeOK
<1>2. /\ rising' = [rising EXCEPT ![p] = Tail(s)] /\ Forward(p, f)
      /\ UNCHANGED <<number, sealed, late>>
  BY DEF Rise, phoneVars
<1>3. rising'[p] = Tail(s) /\ \A q \in Phones : q # p => rising'[q] = rising[q] /\ late'[q] = late[q]
  BY <1>2 DEF TypeOK
<1>4. OfSocket(s, number[p], sealed[p]) /\ OfEarlier(late[p], number[p]) /\ number[p] >= 1 /\ WindowsInv
  BY DEF ChannelInv, PipesInv
<1>5. OfSocket(Tail(s), number[p], sealed[p]) /\ f.of = number[p] /\ f.ctr < sealed[p]
  BY <1>1, <1>4, RestOfSocket
<1>6. Ahead(Tail(s), f.of, f.ctr)
  BY <1>1, <1>4, RestAheadOfHead DEF OfSocket
<1>7. Ahead(late[p], f.of, f.ctr)
  BY <1>1, <1>4, <1>5, EarlierAhead
<1>8. Ahead(s, lastProofAt[p], window[p]) =>
         Ahead(Tail(s), lastProofAt[p], window[p]) /\ (f.of = lastProofAt[p] => f.ctr > window[p])
  BY <1>1, RestAhead
<1>9. p \notin overrun /\ f.of = lastProofAt[p] => f.ctr > window[p]
  BY <1>4, <1>8 DEF WindowsInv
<1> HIDE DEF s, f
<1>10. WindowsInv' /\ FramesOpen' /\ \A q \in Phones : lastProofAt'[q] <= number'[q]
  <2>1. f.of >= 1 /\ f.of <= number[p] /\ (f.of = number[p] => f.ctr < sealed[p])
    BY <1>1, <1>4, <1>5
  <2>2. rising'[p] \in Seq(Rises) /\ late'[p] \in Seq(Rises) /\ UNCHANGED <<number, sealed>>
    BY <1>1, <1>2, <1>3
  <2>3. Ahead(rising'[p], f.of, f.ctr) /\ Ahead(late'[p], f.of, f.ctr)
    BY <1>2, <1>3, <1>6, <1>7
  <2>4. /\ Ahead(rising[p], lastProofAt[p], window[p]) => Ahead(rising'[p], lastProofAt[p], window[p])
        /\ Ahead(late[p], lastProofAt[p], window[p]) => Ahead(late'[p], lastProofAt[p], window[p])
    BY <1>2, <1>3, <1>8 DEF s
  <2> QED
    BY <1>1, <1>2, <1>3, <1>9, <2>1, <2>2, <2>3, <2>4, TakesFrame
<1>11. PipesInv'
  BY <1>2, <1>3, <1>5, <1>10 DEF PipesInv, ChannelInv
<1> QED
  BY <1>10, <1>11 DEF ChannelInv

LEMMA RiseLateStep ==
  ASSUME TypeOK, ChannelInv, NEW p \in Phones, RiseLate(p)
  PROVE  ChannelInv'
<1> DEFINE s == late[p]
           f == Head(late[p])
<1>1. /\ s \in Seq(Rises) /\ s # <<>> /\ f \in Rises /\ rising[p] \in Seq(Rises) /\ number[p] \in Nat
      /\ Tail(s) \in Seq(Rises) /\ f.of \in Nat
  BY FirstAndRest DEF RiseLate, TypeOK, Rises
<1>2. /\ late' = [late EXCEPT ![p] = Tail(s)] /\ Forward(p, f)
      /\ UNCHANGED <<number, sealed, rising>>
  BY DEF RiseLate, phoneVars
<1>3. late'[p] = Tail(s) /\ \A q \in Phones : q # p => rising'[q] = rising[q] /\ late'[q] = late[q]
  BY <1>2 DEF TypeOK
<1>4. OfSocket(rising[p], number[p], sealed[p]) /\ OfEarlier(s, number[p]) /\ number[p] >= 1 /\ WindowsInv
  BY DEF ChannelInv, PipesInv
<1>5. OfEarlier(Tail(s), number[p]) /\ f.of >= 1 /\ f.of < number[p]
  BY <1>1, <1>4, RestOfEarlier
<1>6. Ahead(Tail(s), f.of, f.ctr)
  BY <1>1, <1>4, RestAheadOfHead DEF OfEarlier
<1>7. Ahead(rising[p], f.of, f.ctr)
  BY <1>1, <1>4, <1>5, SocketAhead
<1>8. Ahead(s, lastProofAt[p], window[p]) =>
         Ahead(Tail(s), lastProofAt[p], window[p]) /\ (f.of = lastProofAt[p] => f.ctr > window[p])
  BY <1>1, RestAhead
<1>9. p \notin overrun /\ f.of = lastProofAt[p] => f.ctr > window[p]
  BY <1>4, <1>8 DEF WindowsInv
<1> HIDE DEF s, f
<1>10. WindowsInv' /\ FramesOpen' /\ \A q \in Phones : lastProofAt'[q] <= number'[q]
  <2>1. f.of >= 1 /\ f.of <= number[p] /\ (f.of = number[p] => f.ctr < sealed[p])
    BY <1>1, <1>4, <1>5
  <2>2. rising'[p] \in Seq(Rises) /\ late'[p] \in Seq(Rises) /\ UNCHANGED <<number, sealed>>
    BY <1>1, <1>2, <1>3
  <2>3. Ahead(rising'[p], f.of, f.ctr) /\ Ahead(late'[p], f.of, f.ctr)
    BY <1>2, <1>3, <1>6, <1>7
  <2>4. /\ Ahead(rising[p], lastProofAt[p], window[p]) => Ahead(rising'[p], lastProofAt[p], window[p])
        /\ Ahead(late[p], lastProofAt[p], window[p]) => Ahead(late'[p], lastProofAt[p], window[p])
    BY <1>2, <1>3, <1>8 DEF s
  <2> QED
    BY <1>1, <1>2, <1>3, <1>9, <2>1, <2>2, <2>3, <2>4, TakesFrame
<1>11. PipesInv'
  BY <1>2, <1>3, <1>5, <1>10 DEF PipesInv, ChannelInv
<1> QED
  BY <1>10, <1>11 DEF ChannelInv

\* A phone seals one more frame of its socket.
LEMMA WriteStep ==
  ASSUME TypeOK, ChannelInv, NEW p \in Phones, NEW kind \in {"hello", "e"}, Write(p, kind),
         UNCHANGED <<number, late, channelVars, history>>
  PROVE  ChannelInv'
<1> DEFINE f == [kind |-> kind, ctr |-> sealed[p], of |-> number[p]]
<1>1. f \in Rises /\ f.of = number[p] /\ f.ctr = sealed[p]
  BY WriteType
<1>2. rising' = [rising EXCEPT ![p] = Append(rising[p], f)] /\ sealed' = [sealed EXCEPT ![p] = sealed[p] + 1]
  BY DEF Write
<1> HIDE DEF f
<1>3. /\ rising[p] \in Seq(Rises) /\ sealed[p] \in Nat /\ number[p] \in Nat
      /\ window[p] \in Nat \cup {-1}
  BY DEF TypeOK
<1>4. /\ rising'[p] = Append(rising[p], f) /\ sealed'[p] = sealed[p] + 1
      /\ \A q \in Phones : q # p => rising'[q] = rising[q] /\ sealed'[q] = sealed[q]
  BY <1>2 DEF TypeOK
<1>5. PipesInv /\ WindowsInv /\ FramesOpen /\ UNCHANGED <<number, late, senders, window, lastProofAt, overrun, refused>>
  BY DEF ChannelInv, channelVars, history
<1>6. OfSocket(rising'[p], number[p], sealed'[p])
  BY <1>1, <1>3, <1>4, <1>5, OneMoreOfSocket DEF PipesInv
<1>7. ASSUME p \notin overrun
      PROVE  /\ Ahead(rising'[p], lastProofAt[p], window[p])
             /\ lastProofAt[p] = number[p] => window[p] < sealed'[p]
  <2>1. /\ Ahead(rising[p], lastProofAt[p], window[p])
        /\ lastProofAt[p] = number[p] => window[p] < sealed[p]
    BY <1>5, <1>7 DEF WindowsInv
  <2>2. f.of = lastProofAt[p] => f.ctr > window[p]
    BY <1>1, <1>3, <2>1
  <2> QED
    BY <1>1, <1>3, <1>4, <2>1, <2>2, OneMoreAhead
<1>8. PipesInv'
  BY <1>4, <1>5, <1>6 DEF PipesInv
<1>9. WindowsInv'
  BY <1>4, <1>5, <1>7 DEF WindowsInv
<1> QED
  BY <1>5, <1>8, <1>9 DEF ChannelInv, FramesOpen

\* A phone lets its socket go, and a beginning of what it had written may be late.
LEMMA ConnectStep ==
  ASSUME TypeOK, ChannelInv, NEW p \in Phones, NEW k \in 0 .. Len(rising[p]), Connect(p),
         late' = [late EXCEPT ![p] = late[p] \o SubSeq(rising[p], 1, k)],
         UNCHANGED <<channelVars, history>>
  PROVE  ChannelInv'
<1> DEFINE t == late[p] \o SubSeq(rising[p], 1, k)
<1>1. /\ rising[p] \in Seq(Rises) /\ late[p] \in Seq(Rises) /\ number[p] \in Nat /\ lastProofAt[p] \in Nat
  BY DEF TypeOK
<1>2. PipesInv /\ WindowsInv /\ FramesOpen /\ UNCHANGED <<senders, window, lastProofAt, overrun, refused>>
  BY DEF ChannelInv, channelVars, history
<1>3. OfEarlier(t, number[p] + 1)
  BY <1>1, <1>2, JoinedOfEarlier DEF PipesInv
<1>4. p \notin overrun => Ahead(t, lastProofAt[p], window[p])
  BY <1>1, <1>2, JoinedAhead DEF WindowsInv
<1> HIDE DEF t
<1>5. /\ late'[p] = t /\ rising'[p] = <<>> /\ number'[p] = number[p] + 1
      /\ \A q \in Phones : q # p => /\ late'[q] = late[q] /\ rising'[q] = rising[q]
                                   /\ number'[q] = number[q] /\ sealed'[q] = sealed[q]
  BY DEF Connect, TypeOK, t
<1>6. OfSocket(<<>>, number[p] + 1, sealed'[p]) /\ Ahead(<<>>, lastProofAt[p], window[p])
  BY DEF OfSocket, Ordered, Ahead
<1>7. lastProofAt[p] <= number[p] /\ number[p] >= 1
  BY <1>2 DEF PipesInv
<1>8. PipesInv'
  <2>1. ASSUME NEW q \in Phones, q # p
        PROVE  /\ number'[q] >= 1 /\ lastProofAt'[q] <= number'[q]
               /\ OfSocket(rising'[q], number'[q], sealed'[q]) /\ OfEarlier(late'[q], number'[q])
    BY <1>2, <1>5, <2>1 DEF PipesInv
  <2>2. /\ number'[p] >= 1 /\ lastProofAt'[p] <= number'[p]
        /\ OfSocket(rising'[p], number'[p], sealed'[p]) /\ OfEarlier(late'[p], number'[p])
    <3>1. number'[p] >= 1 /\ lastProofAt'[p] <= number'[p]
      BY <1>1, <1>2, <1>5, <1>7
    <3>2. OfSocket(rising'[p], number'[p], sealed'[p]) /\ OfEarlier(late'[p], number'[p])
      BY <1>3, <1>5, <1>6
    <3> QED
      BY <3>1, <3>2
  <2> QED
    BY <2>1, <2>2 DEF PipesInv
<1>9. WindowsInv'
  <2>1. ASSUME NEW q \in Phones, q # p, q \notin overrun
        PROVE  /\ Ahead(rising'[q], lastProofAt[q], window[q]) /\ Ahead(late'[q], lastProofAt[q], window[q])
               /\ lastProofAt[q] = number'[q] => window[q] < sealed'[q]
    BY <1>2, <1>5, <2>1 DEF WindowsInv
  <2>2. p \notin overrun => /\ Ahead(rising'[p], lastProofAt[p], window[p])
                           /\ Ahead(late'[p], lastProofAt[p], window[p])
    BY <1>4, <1>5, <1>6
  <2>3. lastProofAt[p] # number'[p]
    BY <1>1, <1>5, <1>7
  <2>4. \A q \in Phones : lastProofAt'[q] # 0 => q \in senders'
    BY <1>2 DEF WindowsInv
  <2> QED
    BY <1>2, <2>1, <2>2, <2>3, <2>4 DEF WindowsInv
<1> QED
  BY <1>2, <1>8, <1>9 DEF ChannelInv, FramesOpen

LEMMA PhoneStep ==
  ASSUME TypeOK, ChannelInv, NEW p \in Phones, Phone(p)
  PROVE  ChannelInv'
<1>1. ASSUME UNCHANGED <<number, sealed, rising, late, channelVars, history>> PROVE ChannelInv'
  BY <1>1 DEF ChannelInv, PipesInv, WindowsInv, FramesOpen, channelVars, history
<1>2. CASE Attaches(p)
  BY <1>1, <1>2 DEF Attaches
<1>3. CASE Opens(p)
  BY <1>3, WriteStep DEF Opens
<1>4. CASE Seals(p)
  BY <1>4, WriteStep DEF Seals
<1>5. CASE Reads(p)
  <2>1. UNCHANGED <<channelVars, history>>
    BY <1>5 DEF Reads
  <2>2. CASE Connect(p) /\ late' = [late EXCEPT ![p] = @ \o rising[p]]
    <3>1. rising[p] \in Seq(Rises) /\ late[p] \in Seq(Rises)
      BY DEF TypeOK
    <3>2. Len(rising[p]) \in 0 .. Len(rising[p]) /\ SubSeq(rising[p], 1, Len(rising[p])) = rising[p]
      BY <3>1
    <3>3. late' = [late EXCEPT ![p] = late[p] \o SubSeq(rising[p], 1, Len(rising[p]))]
      BY <2>2, <3>2
    <3> QED
      BY <2>1, <2>2, <3>2, <3>3, ConnectStep
  <2>3. CASE UNCHANGED <<stage, number, sealed, rising, late>>
    BY <1>1, <2>1, <2>3
  <2> QED
    BY <1>5, <2>2, <2>3 DEF Reads
<1>6. CASE Drops(p)
  <2>1. PICK k \in 0 .. Len(rising[p]) : late' = [late EXCEPT ![p] = late[p] \o SubSeq(rising[p], 1, k)]
    BY <1>6 DEF Drops
  <2> QED
    BY <1>6, <2>1, ConnectStep DEF Drops
<1> QED
  BY <1>2, <1>3, <1>4, <1>5, <1>6 DEF Phone

\* A new socket of the daemon knows no device; no phone's socket has number 0.
LEMMA DaemonOpensStep ==
  ASSUME TypeOK, ChannelInv, DaemonOpens
  PROVE  ChannelInv'
<1>1. /\ window' = [p \in Phones |-> -1] /\ lastProofAt' = [p \in Phones |-> 0]
      /\ overrun' = {} /\ refused' = {} /\ UNCHANGED <<number, sealed, rising, late>>
  BY DEF DaemonOpens, phoneVars
<1>2. ASSUME NEW p \in Phones
      PROVE  /\ Ahead(rising[p], 0, -1) /\ Ahead(late[p], 0, -1) /\ number[p] >= 1 /\ number[p] \in Nat
             /\ OfSocket(rising[p], number[p], sealed[p]) /\ OfEarlier(late[p], number[p])
  <2>1. rising[p] \in Seq(Rises) /\ late[p] \in Seq(Rises) /\ number[p] \in Nat
    BY DEF TypeOK
  <2> QED
    BY <2>1, FreshWindow DEF ChannelInv, PipesInv
<1>3. PipesInv'
  BY <1>1, <1>2 DEF PipesInv
<1>4. WindowsInv'
  BY <1>1, <1>2 DEF WindowsInv
<1> QED
  BY <1>1, <1>3, <1>4 DEF ChannelInv, FramesOpen

LEMMA ChannelInit == Init => ChannelInv
<1> SUFFICES ASSUME Init PROVE ChannelInv
  OBVIOUS
<1>1. /\ number = [p \in Phones |-> 1] /\ lastProofAt = [p \in Phones |-> 0]
      /\ rising = [p \in Phones |-> <<>>] /\ late = [p \in Phones |-> <<>>] /\ refused = {}
  BY DEF Init
<1>2. \A n, c : OfSocket(<<>>, n, c) /\ OfEarlier(<<>>, n) /\ Ahead(<<>>, n, c)
  BY DEF OfSocket, OfEarlier, Ordered, Ahead
<1>3. PipesInv
  BY <1>1, <1>2 DEF PipesInv
<1>4. WindowsInv
  BY <1>1, <1>2 DEF WindowsInv
<1> QED
  BY <1>1, <1>3, <1>4 DEF ChannelInv, FramesOpen

LEMMA ChannelStep == TypeOK /\ ChannelInv /\ [Next]_vars => ChannelInv'
<1> SUFFICES ASSUME TypeOK, ChannelInv, [Next]_vars PROVE ChannelInv'
  OBVIOUS
<1>1. ASSUME UNCHANGED <<number, sealed, rising, late, senders, window, lastProofAt, overrun, refused>>
      PROVE  ChannelInv'
  BY <1>1 DEF ChannelInv, PipesInv, WindowsInv, FramesOpen
<1>2. CASE UNCHANGED vars
  BY <1>1, <1>2 DEF vars, phoneVars, channelVars, history
<1>3. CASE Daemon
  BY <1>1, <1>3, DaemonOpensStep DEF Daemon, DaemonSends, DaemonDrops, phoneVars, channelVars, history
<1> QED
  BY <1>2, <1>3, PhoneStep, RiseStep, RiseLateStep DEF Next

\* Once the daemon has taken a phone's hello it refuses nothing that phone's socket
\* sends as a replay (relay-client.ts:268-272), unless it has opened a frame of
\* another of its sockets since: for any number of phones that share the channel.
THEOREM NothingRefused == Safety => []FramesOpen
<1>1. ChannelInv => FramesOpen
  BY DEF ChannelInv
<1> QED
  BY <1>1, InitType, ChannelInit, TypeStep, ChannelStep, PTL DEF Safety
=============================================================================
