---------------------------- MODULE OutboxProofs ----------------------------
(***************************************************************************)
(* What Outbox keeps to, for every number of agents, messages,             *)
(* conversations, lost sockets, upsets and moves.                          *)
(*                                                                         *)
(* The argument follows a message.  Its fate says where its only copy is:  *)
(* in the queue, held for a start already written, in flight, taken, or    *)
(* nowhere; and each place holds it under a name of the conversation it    *)
(* was typed in.  A message held for a start has the screen: nothing else  *)
(* can be shown while it waits, so only the answer to that start sends it. *)
(* The last sections are about the order in which a conversation is read,  *)
(* and about the one way a message goes.                                   *)
(***************************************************************************)
EXTENDS Outbox, SubsequencesProofs

Frames == [kind : {"hello", "start", "prompt", "resume"}, name : Names \cup {NoName},
           msg : 0 .. MaxMessages]
Answers == [kind : {"providers", "started"}, name : Names \cup {NoName}, live : SUBSET Names,
            asked : BOOLEAN, resumed : BOOLEAN]
Budgets == [{"drops", "upsets", "moves"} -> Nat]

\* The queue: entries, of which the starts carry a pending name and no message.
Queue(o) == /\ o \in Seq(Entries)
            /\ \A e \in Range(o) : e.kind = "start" => IsPending(e.name) /\ e.msg = 0

\* What the phone keeps.
PhoneShapes ==
    /\ ws \in {"down", "up", "closing"}
    /\ Queue(outbox) /\ Len(outbox) <= MaxQueued
    /\ pendingStart \in {NoName} \cup {Pending(c) : c \in Chats}
    /\ slot \in 0 .. MaxMessages
    /\ {sessionRef, screen, viewing, restoring} \subseteq Names \cup {NoName}
    /\ awaiting \in BOOLEAN
    /\ live \subseteq Names /\ rows \subseteq Names

\* What is in flight: only a start is written under a pending name.
Writable(x) == /\ x.kind = "start" => x.name \in Names /\ IsPending(x.name) /\ x.msg = 0
               /\ x.kind = "hello" => x.name = NoName /\ x.msg = 0
               /\ x.kind \in {"prompt", "resume"} => x.name \in Names /\ ~IsPending(x.name)
               /\ x.kind = "resume" => x.msg = 0
Writes(u) == u \in Seq(Frames) /\ \A x \in Range(u) : Writable(x)
Tells(d) == /\ d \in Seq(Answers)
            /\ \A x \in Range(d) : x.kind = "started" => x.name \in Names /\ ~IsPending(x.name)
LineShapes == Writes(up) /\ Tells(down)

\* What the daemon keeps, and what the phone knows of the agents.
DaemonShapes ==
    /\ sessions \subseteq Names /\ (\A n \in sessions : ~IsPending(n)) /\ opening \subseteq sessions
    /\ agent \in Seq(Providers) /\ Len(agent) <= MaxChats
    /\ minted \in [Chats -> Nat]
    /\ budget \in Budgets

\* What is remembered of the messages.
HistoryShapes ==
    /\ fate \in Seq(Fates) /\ home \in Seq(Chats) /\ Len(fate) = Len(home) /\ Len(fate) <= MaxMessages
    /\ heard \in Seq([msg : Messages, chat : Chats])
    /\ overtakers \subseteq Messages

Shapes == PhoneShapes /\ LineShapes /\ DaemonShapes /\ HistoryShapes

\* No message is in s twice.
Apart(s) == \A i, j \in DOMAIN s :
              s[i].kind = "prompt" /\ s[j].kind = "prompt" /\ s[i].msg = s[j].msg => i = j
\* The messages in s are there once, for the conversation they were typed in, and
\* their fate says so.
Lies(s, how, f, h) ==
    /\ Apart(s)
    /\ \A x \in Range(s) : x.kind = "prompt" =>
         x.msg \in DOMAIN f /\ f[x.msg] = how /\ h[x.msg] = x.name.chat
\* Every message that waits is in the queue o.
Waits(o, f) == \A m \in DOMAIN f : f[m] = "waiting" => \E x \in Range(o) : x.kind = "prompt" /\ x.msg = m
\* What was taken was taken once, by the conversation it was typed in.
Taken == /\ \A i, j \in DOMAIN heard : heard[i].msg = heard[j].msg => i = j
         /\ \A i \in DOMAIN heard : /\ heard[i].msg \in DOMAIN fate /\ fate[heard[i].msg] = "heard"
                                    /\ heard[i].chat = home[heard[i].msg]
MessageInv == /\ Lies(outbox, "waiting", fate, home) /\ Waits(outbox, fate)
              /\ Lies(up, "written", fate, home)
              /\ Taken

\* A message held for a start has the screen, and nothing is being reopened there.
SlotInv == /\ sessionRef \in {NoName, screen}
           /\ slot # 0 => /\ slot \in DOMAIN fate /\ fate[slot] = "slot"
                          /\ viewing = Pending(home[slot])
                          /\ sessionRef = NoName /\ restoring = NoName

\* Whatever has a session id has a row of its conversation that has one too, and
\* what is queued has a row.
Rowed(c) == \E n \in rows : n.chat = c /\ ~IsPending(n)
RowsInv == /\ \A e \in Range(outbox) : /\ \E n \in rows : n.chat = e.name.chat
                                       /\ ~IsPending(e.name) => Rowed(e.name.chat)
           /\ sessionRef # NoName => ~IsPending(sessionRef) /\ Rowed(sessionRef.chat)

MailInv == Shapes /\ MessageInv /\ SlotInv /\ RowsInv

-----------------------------------------------------------------------------
(***************************************************************************)
(* Sequences of entries and frames.                                        *)
(***************************************************************************)

LEMMA RangeOf ==
  ASSUME NEW T, NEW s \in Seq(T)
  PROVE  /\ Range(s) = ToSet(s) /\ DOMAIN s = 1..Len(s) /\ Len(s) \in Nat
         /\ \A x \in Range(s) : x \in T
BY DEF Range, ToSet

LEMMA Joined2 ==
  ASSUME NEW T, NEW s \in Seq(T), NEW t \in Seq(T)
  PROVE  /\ s \o t \in Seq(T) /\ Len(s \o t) = Len(s) + Len(t)
         /\ Range(s \o t) = Range(s) \cup Range(t)
         /\ \A i \in DOMAIN (s \o t) :
              \/ i \in DOMAIN s /\ (s \o t)[i] = s[i]
              \/ i - Len(s) \in DOMAIN t /\ (s \o t)[i] = t[i - Len(s)]
         /\ \A i \in DOMAIN s : i \in DOMAIN (s \o t) /\ (s \o t)[i] = s[i]
         /\ \A i \in DOMAIN t : i + Len(s) \in DOMAIN (s \o t) /\ (s \o t)[i + Len(s)] = t[i]
<1> DEFINE st == s \o t
<1>1. /\ st \in Seq(T) /\ Len(st) = Len(s) + Len(t) /\ DOMAIN st = 1..(Len(s) + Len(t))
      /\ DOMAIN s = 1..Len(s) /\ DOMAIN t = 1..Len(t) /\ Len(s) \in Nat /\ Len(t) \in Nat
  OBVIOUS
<1>2. \A i \in 1..(Len(s) + Len(t)) : st[i] = IF i <= Len(s) THEN s[i] ELSE t[i - Len(s)]
  BY <1>1
<1> HIDE DEF st
<1>3. \A i \in DOMAIN st : \/ i \in DOMAIN s /\ st[i] = s[i]
                           \/ i - Len(s) \in DOMAIN t /\ st[i] = t[i - Len(s)]
  BY <1>1, <1>2
<1>4. \A i \in DOMAIN s : i \in DOMAIN st /\ st[i] = s[i]
  BY <1>1, <1>2
<1>5. \A i \in DOMAIN t : i + Len(s) \in DOMAIN st /\ st[i + Len(s)] = t[i]
  <2> SUFFICES ASSUME NEW i \in DOMAIN t PROVE i + Len(s) \in DOMAIN st /\ st[i + Len(s)] = t[i]
    OBVIOUS
  <2>1. i \in Nat /\ i >= 1 /\ i <= Len(t) /\ i + Len(s) \in 1..(Len(s) + Len(t)) /\ ~(i + Len(s) <= Len(s))
    BY <1>1
  <2>2. (i + Len(s)) - Len(s) = i
    BY <1>1, <2>1
  <2> QED
    BY <1>1, <1>2, <2>1, <2>2
<1>6. Range(st) = Range(s) \cup Range(t)
  <2>1. \A x \in Range(st) : x \in Range(s) \cup Range(t)
    BY <1>3 DEF Range
  <2>2. \A x \in Range(s) : x \in Range(st)
    BY <1>4 DEF Range
  <2>3. \A x \in Range(t) : x \in Range(st)
    BY <1>5 DEF Range
  <2> QED
    BY <2>1, <2>2, <2>3
<1> QED
  BY <1>1, <1>3, <1>4, <1>5, <1>6 DEF st

\* Two sequences that hold no message in common.
Disjoint(s, t) == \A x \in Range(s), y \in Range(t) :
                    x.kind = "prompt" /\ y.kind = "prompt" => x.msg # y.msg

LEMMA LiesJoined ==
  ASSUME NEW T, NEW s \in Seq(T), NEW t \in Seq(T), NEW how, NEW f, NEW h,
         Lies(s, how, f, h), Lies(t, how, f, h), Disjoint(s, t)
  PROVE  Lies(s \o t, how, f, h)
<1> DEFINE st == s \o t
<1>1. /\ Range(st) = Range(s) \cup Range(t) /\ Len(s) \in Nat
      /\ \A i \in DOMAIN st : \/ i \in DOMAIN s /\ st[i] = s[i]
                              \/ i - Len(s) \in DOMAIN t /\ st[i] = t[i - Len(s)]
      /\ DOMAIN st \subseteq Int
  BY Joined2
<1> HIDE DEF st
<1>2. Apart(st)
  <2> SUFFICES ASSUME NEW i \in DOMAIN st, NEW j \in DOMAIN st,
                      st[i].kind = "prompt", st[j].kind = "prompt", st[i].msg = st[j].msg
               PROVE  i = j
    BY DEF Apart
  <2>1. CASE i \in DOMAIN s /\ st[i] = s[i] /\ j \in DOMAIN s /\ st[j] = s[j]
    BY <2>1 DEF Lies, Apart
  <2>2. CASE /\ i - Len(s) \in DOMAIN t /\ st[i] = t[i - Len(s)]
             /\ j - Len(s) \in DOMAIN t /\ st[j] = t[j - Len(s)]
    <3>1. i - Len(s) = j - Len(s)
      BY <2>2 DEF Lies, Apart
    <3> QED
      BY <1>1, <3>1
  <2>3. CASE i \in DOMAIN s /\ st[i] = s[i] /\ j - Len(s) \in DOMAIN t /\ st[j] = t[j - Len(s)]
    BY <2>3 DEF Disjoint, Range
  <2>4. CASE j \in DOMAIN s /\ st[j] = s[j] /\ i - Len(s) \in DOMAIN t /\ st[i] = t[i - Len(s)]
    BY <2>4 DEF Disjoint, Range
  <2> QED
    BY <1>1, <2>1, <2>2, <2>3, <2>4
<1> QED
  BY <1>1, <1>2 DEF Lies, st

LEMMA LiesKeep ==
  ASSUME NEW T, NEW s \in Seq(T), NEW how, NEW f, NEW h, Lies(s, how, f, h), NEW S
  PROVE  Lies(Keep(s, S), how, f, h)
<1>1. \A k, l \in DOMAIN Keep(s, S) : k # l =>
        \E i, j \in DOMAIN s : i # j /\ Keep(s, S)[k] = s[i] /\ Keep(s, S)[l] = s[j]
  BY KeepApart
<1>2. Range(Keep(s, S)) \subseteq Range(s)
  BY KeepElements, KeepPicks, RangeOf
<1>3. Apart(Keep(s, S))
  BY <1>1 DEF Lies, Apart
<1> QED
  BY <1>2, <1>3 DEF Lies

LEMMA SubSeqEnd ==
  ASSUME NEW T, NEW s \in Seq(T), NEW m \in Int, m >= 1, m <= Len(s)
  PROVE  /\ SubSeq(s, m, Len(s)) \in Seq(T) /\ Len(SubSeq(s, m, Len(s))) = Len(s) - m + 1
         /\ \A k \in 1 .. Len(s) - m + 1 : SubSeq(s, m, Len(s))[k] = s[m + k - 1]
OBVIOUS

LEMMA Cut ==
  ASSUME NEW T, NEW s \in Seq(T), NEW k \in 0..Len(s)
  PROVE  LET a == SubSeq(s, 1, k)
             b == SubSeq(s, k + 1, Len(s))
         IN  /\ a \in Seq(T) /\ b \in Seq(T) /\ Len(a) = k /\ Len(b) = Len(s) - k
             /\ \A i \in DOMAIN a : i \in DOMAIN s /\ a[i] = s[i]
             /\ \A i \in DOMAIN b : i + k \in DOMAIN s /\ b[i] = s[i + k]
             /\ Range(s) = Range(a) \cup Range(b)
<1> DEFINE a == SubSeq(s, 1, k)
           b == SubSeq(s, k + 1, Len(s))
<1>1. Len(s) \in Nat /\ k \in Nat /\ k <= Len(s) /\ DOMAIN s = 1..Len(s)
  OBVIOUS
<1>2. a \in Seq(T) /\ Len(a) = k /\ \A i \in 1..k : a[i] = s[i]
  BY <1>1
<1>3. b \in Seq(T) /\ Len(b) = Len(s) - k /\ \A i \in 1..(Len(s) - k) : b[i] = s[i + k]
  <2>1. CASE k = Len(s)
    <3>1. b = << >> /\ 1..(Len(s) - k) = {}
      BY <1>1, <2>1
    <3> QED
      BY <1>1, <2>1, <3>1
  <2>2. CASE k < Len(s)
    <3>1. k + 1 \in Int /\ k + 1 >= 1 /\ k + 1 <= Len(s)
      BY <1>1, <2>2
    <3>2. /\ b \in Seq(T) /\ Len(b) = Len(s) - (k + 1) + 1
          /\ \A i \in 1 .. Len(s) - (k + 1) + 1 : b[i] = s[(k + 1) + i - 1]
      BY <3>1, SubSeqEnd
    <3>3. Len(s) - (k + 1) + 1 = Len(s) - k /\ \A i \in Int : (k + 1) + i - 1 = i + k
      BY <1>1
    <3> HIDE DEF b
    <3> QED
      BY <3>2, <3>3
  <2>3. k = Len(s) \/ k < Len(s)
    <3> HIDE DEF a, b
    <3>1. \A x, y \in Nat : x <= y => x = y \/ x < y
      OBVIOUS
    <3> QED
      BY <1>1, <3>1
  <2> QED
    BY <2>1, <2>2, <2>3
<1>4. DOMAIN a = 1..k /\ DOMAIN b = 1..(Len(s) - k)
  BY <1>2, <1>3
<1> HIDE DEF a, b
<1>5. \A i \in DOMAIN a : i \in DOMAIN s /\ a[i] = s[i]
  BY <1>1, <1>2, <1>4
<1>6. \A i \in DOMAIN b : i + k \in DOMAIN s /\ b[i] = s[i + k]
  BY <1>1, <1>3, <1>4
<1>7. Range(s) \subseteq Range(a) \cup Range(b)
  <2> SUFFICES ASSUME NEW i \in DOMAIN s PROVE s[i] \in Range(a) \cup Range(b)
    BY DEF Range
  <2>1. CASE i <= k
    BY <1>1, <1>2, <1>4, <2>1 DEF Range
  <2>2. CASE ~(i <= k)
    <3>1. i - k \in DOMAIN b /\ b[i - k] = s[i]
      BY <1>1, <1>3, <1>4, <2>2
    <3> QED
      BY <3>1 DEF Range
  <2> QED
    BY <2>1, <2>2
<1>8. Range(a) \subseteq Range(s) /\ Range(b) \subseteq Range(s)
  BY <1>5, <1>6 DEF Range
<1> QED
  BY <1>2, <1>3, <1>5, <1>6, <1>7, <1>8 DEF a, b

\* The two parts of a cut hold no message in common.
LEMMA LiesCut ==
  ASSUME NEW T, NEW s \in Seq(T), NEW k \in 0..Len(s), NEW how, NEW f, NEW h, Lies(s, how, f, h)
  PROVE  /\ Lies(SubSeq(s, 1, k), how, f, h) /\ Lies(SubSeq(s, k + 1, Len(s)), how, f, h)
         /\ Disjoint(SubSeq(s, 1, k), SubSeq(s, k + 1, Len(s)))
<1> DEFINE a == SubSeq(s, 1, k)
           b == SubSeq(s, k + 1, Len(s))
<1>1. /\ a \in Seq(T) /\ b \in Seq(T) /\ Len(a) = k
      /\ \A i \in DOMAIN a : i \in DOMAIN s /\ a[i] = s[i]
      /\ \A i \in DOMAIN b : i + k \in DOMAIN s /\ b[i] = s[i + k]
      /\ Range(s) = Range(a) \cup Range(b)
  BY Cut
<1>2. DOMAIN a = 1..k /\ DOMAIN b \subseteq Nat /\ k \in Nat /\ \A i \in DOMAIN b : i >= 1
  BY <1>1
<1> HIDE DEF a, b
<1>3. Apart(a)
  BY <1>1 DEF Lies, Apart
<1>4. Apart(b)
  <2> SUFFICES ASSUME NEW i \in DOMAIN b, NEW j \in DOMAIN b,
                      b[i].kind = "prompt", b[j].kind = "prompt", b[i].msg = b[j].msg
               PROVE  i = j
    BY DEF Apart
  <2>1. i + k = j + k
    BY <1>1 DEF Lies, Apart
  <2> QED
    BY <1>2, <2>1
<1>5. Disjoint(a, b)
  <2> SUFFICES ASSUME NEW i \in DOMAIN a, NEW j \in DOMAIN b,
                      a[i].kind = "prompt", b[j].kind = "prompt", a[i].msg = b[j].msg
               PROVE  FALSE
    BY DEF Disjoint, Range
  <2>1. i = j + k
    BY <1>1 DEF Lies, Apart
  <2> QED
    BY <1>2, <2>1
<1> QED
  BY <1>1, <1>3, <1>4, <1>5 DEF Lies, a, b

\* The two halves of a queue, what is in S and what is not, hold no message in common.
LEMMA LiesApart ==
  ASSUME NEW T, NEW s \in Seq(T), NEW S, NEW how, NEW f, NEW h, Lies(s, how, f, h)
  PROVE  Disjoint(Keep(s, S), Keep(s, Range(s) \ S))
<1>1. /\ Range(Keep(s, S)) = Range(s) \cap S
      /\ Range(Keep(s, Range(s) \ S)) = Range(s) \ S
  BY KeepElements, KeepPicks, RangeOf
<1> SUFFICES ASSUME NEW x \in Range(s), x \in S, NEW y \in Range(s), y \notin S,
                    x.kind = "prompt", y.kind = "prompt", x.msg = y.msg
             PROVE  FALSE
  BY <1>1 DEF Disjoint
<1>2. PICK i \in DOMAIN s : s[i] = x
  BY DEF Range
<1>3. PICK j \in DOMAIN s : s[j] = y
  BY DEF Range
<1>4. i = j
  BY <1>2, <1>3 DEF Lies, Apart
<1> QED
  BY <1>2, <1>3, <1>4

\* A message's fate may change once it is elsewhere.
LEMMA LiesStill ==
  ASSUME NEW s, NEW how, NEW f, NEW h, Lies(s, how, f, h), NEW g, NEW k,
         \A x \in Range(s) : x.kind = "prompt" =>
           x.msg \in DOMAIN g /\ g[x.msg] = f[x.msg] /\ k[x.msg] = h[x.msg]
  PROVE  Lies(s, how, g, k)
BY DEF Lies

-----------------------------------------------------------------------------
(***************************************************************************)
(* Fates, budgets and the flush.                                           *)
(***************************************************************************)

LEMMA MarkKeeps ==
  ASSUME NEW f \in Seq(Fates), NEW S, NEW how \in Fates
  PROVE  /\ Mark(f, S, how) \in Seq(Fates) /\ Len(Mark(f, S, how)) = Len(f)
         /\ DOMAIN Mark(f, S, how) = DOMAIN f
         /\ \A m \in DOMAIN f : Mark(f, S, how)[m] = IF m \in S THEN how ELSE f[m]
<1>1. DOMAIN f = 1..Len(f) /\ Len(f) \in Nat /\ \A m \in DOMAIN f : f[m] \in Fates
  OBVIOUS
<1>2. Mark(f, S, how) = [m \in 1..Len(f) |-> IF m \in S THEN how ELSE f[m]]
  BY <1>1 DEF Mark
<1>3. \A m \in 1..Len(f) : (IF m \in S THEN how ELSE f[m]) \in Fates
  BY <1>1
<1>4. [m \in 1..Len(f) |-> IF m \in S THEN how ELSE f[m]] \in Seq(Fates)
  BY <1>1, <1>3
<1>5. DOMAIN Mark(f, S, how) = 1..Len(f)
  BY <1>2
<1> QED
  BY <1>1, <1>2, <1>4, <1>5

LEMMA SpendKeeps ==
  ASSUME budget \in Budgets, NEW what \in {"drops", "upsets", "moves"}, Spend(what)
  PROVE  budget' \in Budgets
<1>1. budget[what] \in Nat /\ budget[what] > 0 /\ budget' = [budget EXCEPT ![what] = @ - 1]
  BY DEF Spend, Budgets
<1>2. budget[what] - 1 \in Nat
  BY <1>1
<1> QED
  BY <1>1, <1>2 DEF Budgets

\* What a flush of the queue o may be given, by a handler that has written before
\* to the socket: h says where each message was typed.
Flushable(o, ps, f, h, before) ==
    /\ ws = "up" /\ budget \in Budgets /\ up \in Seq(Frames)
    /\ Queue(o) /\ Len(o) <= MaxQueued
    /\ ps \in {NoName} \cup {Pending(c) : c \in Chats}
    /\ f \in Seq(Fates)
    /\ before \in Seq(Frames) /\ Writes(up \o before)
    /\ Lies(o, "waiting", f, h) /\ Waits(o, f) /\ Lies(up \o before, "written", f, h)

\* What a flush leaves.
Flushed(o, f, h) ==
    /\ ws' \in {"up", "closing"} /\ budget' \in Budgets
    /\ Queue(outbox') /\ Len(outbox') <= MaxQueued /\ Range(outbox') \subseteq Range(o)
    /\ pendingStart' \in {NoName} \cup {Pending(c) : c \in Chats}
    /\ Writes(up')
    /\ fate' \in Seq(Fates) /\ Len(fate') = Len(f) /\ DOMAIN fate' = DOMAIN f
    /\ \A m \in DOMAIN f : fate'[m] = f[m] \/ (f[m] = "waiting" /\ fate'[m] = "written")
    /\ Lies(outbox', "waiting", fate', h) /\ Waits(outbox', fate') /\ Lies(up', "written", fate', h)
    /\ overtakers' \subseteq overtakers \cup Messages

\* The ready part of a queue cut where the socket dies, and what is put back.
LEMMA Splits ==
  ASSUME NEW o, Queue(o), NEW f, NEW h, NEW how, Lies(o, how, f, h), NEW S,
         NEW k \in 0 .. Len(Keep(o, S))
  PROVE  LET ready == Keep(o, S)
             out   == SubSeq(ready, 1, k)
             back  == SubSeq(ready, k + 1, Len(ready)) \o Keep(o, Range(o) \ S)
         IN  /\ out \in Seq(Entries) /\ back \in Seq(Entries) /\ Len(back) <= Len(o)
             /\ Range(out) \cup Range(back) = Range(o) /\ Range(out) \subseteq S
             /\ Lies(out, how, f, h) /\ Lies(back, how, f, h) /\ Disjoint(out, back)
<1> DEFINE ready == Keep(o, S)
           held  == Keep(o, Range(o) \ S)
           out   == SubSeq(ready, 1, k)
           rest  == SubSeq(ready, k + 1, Len(ready))
<1>1. o \in Seq(Entries) /\ Range(o) = ToSet(o)
  BY RangeOf DEF Queue
<1>2. ready \in Seq(Entries) /\ held \in Seq(Entries)
  BY <1>1, KeepPicks
<1>3. Range(ready) = Range(o) \cap S /\ Range(held) = Range(o) \ S
  <2>1. Range(ready) = ToSet(ready) /\ Range(held) = ToSet(held)
    BY <1>2, RangeOf
  <2>2. ToSet(ready) = ToSet(o) \cap S /\ ToSet(held) = ToSet(o) \cap (Range(o) \ S)
    BY <1>1, KeepElements
  <2> QED
    BY <1>1, <2>1, <2>2
<1>4. Lies(ready, how, f, h) /\ Lies(held, how, f, h) /\ Disjoint(ready, held)
  BY <1>1, LiesKeep, LiesApart
<1> HIDE DEF ready, held
<1>5. k \in 0..Len(ready)
  BY DEF ready
<1>6. /\ out \in Seq(Entries) /\ rest \in Seq(Entries)
      /\ Range(ready) = Range(out) \cup Range(rest)
  BY <1>2, <1>5, Cut
<1>7. Lies(out, how, f, h) /\ Lies(rest, how, f, h) /\ Disjoint(out, rest)
  BY <1>2, <1>4, <1>5, LiesCut
<1>13. Len(rest) = Len(ready) - k /\ k \in Nat
  BY <1>2, <1>5, Cut
<1>14. Len(ready) + Len(held) = Len(o) /\ Len(ready) \in Nat /\ Len(held) \in Nat /\ Len(o) \in Nat
  BY <1>1, <1>2, KeepHalves DEF ready, held
<1> HIDE DEF out, rest
<1>8. rest \o held \in Seq(Entries) /\ Range(rest \o held) = Range(rest) \cup Range(held)
  BY <1>2, <1>6, Joined2
<1>9. Disjoint(rest, held)
  BY <1>4, <1>6 DEF Disjoint
<1>10. Lies(rest \o held, how, f, h)
  BY <1>2, <1>4, <1>6, <1>7, <1>9, LiesJoined
<1>11. Disjoint(out, rest \o held)
  BY <1>4, <1>6, <1>7, <1>8 DEF Disjoint
<1>12. Range(out) \cup Range(rest \o held) = Range(o) /\ Range(out) \subseteq S
  BY <1>3, <1>6, <1>8
<1>15. Len(rest \o held) <= Len(o)
  <2>1. Len(rest \o held) = Len(rest) + Len(held)
    BY <1>2, <1>6, Joined2
  <2> QED
    BY <1>13, <1>14, <2>1
<1> QED
  BY <1>6, <1>7, <1>8, <1>10, <1>11, <1>12, <1>15 DEF ready, held, out, rest

\* An entry that can go out is one a socket may carry.
LEMMA GoesOut ==
  ASSUME NEW o, Queue(o), NEW e \in Range(o), NEW ps, NEW L, Deliverable(e, o, ps, L)
  PROVE  e \in Entries /\ e \in Frames /\ Writable(e)
         /\ (e.kind = "start" => e.name \in {Pending(c) : c \in Chats})
         /\ (e.kind = "prompt" => ~IsPending(e.name))
<1>1. e \in Entries
  BY RangeOf DEF Queue
<1>2. e.kind \in {"start", "prompt"} /\ e.name \in Names /\ e.msg \in 0 .. MaxMessages
  BY <1>1 DEF Entries
<1>3. e \in Frames
  BY <1>1 DEF Entries, Frames
<1>4. CASE e.kind = "start"
  <2>1. IsPending(e.name) /\ e.msg = 0
    BY <1>4 DEF Queue
  <2>2. e.name = Pending(e.name.chat) /\ e.name.chat \in Chats
    BY <1>2, <2>1 DEF Names, IsPending, Pending
  <2> QED
    BY <1>1, <1>2, <1>3, <1>4, <2>1, <2>2 DEF Writable
<1>5. CASE e.kind = "prompt"
  <2>1. ~IsPending(e.name)
    BY <1>5 DEF Deliverable
  <2> QED
    BY <1>1, <1>2, <1>3, <1>5, <2>1 DEF Writable
<1> QED
  BY <1>2, <1>4, <1>5

\* What goes past an older message is a message.
LEMMA PassingAre ==
  ASSUME NEW s \in Seq(Entries), NEW t \in Seq(Entries)
  PROVE  Passing(s, t) \subseteq Messages
<1> SUFFICES ASSUME NEW x \in Range(s), NEW y \in Range(t), y.msg < x.msg
             PROVE  x.msg \in Messages
  BY DEF Passing
<1>1. x \in Entries /\ y \in Entries
  BY RangeOf
<1>2. x.msg \in 0 .. MaxMessages /\ y.msg \in 0 .. MaxMessages
  BY <1>1 DEF Entries
<1> QED
  BY <1>2, OutboxBounds DEF Messages

LEMMA FlushKeeps ==
  ASSUME NEW o, NEW ps, NEW L, NEW f, NEW h, NEW before,
         Flushable(o, ps, f, h, before), Flush(o, ps, L, f, before)
  PROVE  Flushed(o, f, h)
<1> DEFINE S == {e \in Range(o) : Deliverable(e, o, ps, L)}
           ready == Keep(o, S)
<1>1. PICK k \in 0 .. Len(ready) :
        LET out == SubSeq(ready, 1, k)
            started == {e \in Range(out) : e.kind = "start"}
        IN  /\ outbox' = SubSeq(ready, k + 1, Len(ready)) \o Keep(o, Range(o) \ S)
            /\ up' = up \o before \o out
            /\ pendingStart' = IF started = {} THEN ps ELSE (CHOOSE e \in started : TRUE).name
            /\ fate' = Mark(f, {e.msg : e \in Range(out)}, "written")
            /\ IF k = Len(ready) THEN UNCHANGED <<ws, budget>>
               ELSE ws' = "closing" /\ Spend("drops")
  BY DEF Flush, PutBack
<1>18. overtakers' = overtakers \cup Passing(ready, Keep(o, Range(o) \ S))
  BY DEF Flush
<1> DEFINE out == SubSeq(ready, 1, k)
           back == SubSeq(ready, k + 1, Len(ready)) \o Keep(o, Range(o) \ S)
           started == {e \in Range(out) : e.kind = "start"}
<1>2. Queue(o) /\ o \in Seq(Entries) /\ Lies(o, "waiting", f, h) /\ Waits(o, f) /\ f \in Seq(Fates)
      /\ up \in Seq(Frames) /\ before \in Seq(Frames) /\ Writes(up \o before)
      /\ Lies(up \o before, "written", f, h)
  BY DEF Flushable, Queue
<1>3. /\ out \in Seq(Entries) /\ back \in Seq(Entries) /\ Len(back) <= Len(o)
      /\ Range(out) \cup Range(back) = Range(o) /\ Range(out) \subseteq S
      /\ Lies(out, "waiting", f, h) /\ Lies(back, "waiting", f, h) /\ Disjoint(out, back)
  <2> HIDE DEF S
  <2> QED
    BY <1>2, Splits
<1>4. \A e \in Range(out) : /\ e \in Frames /\ Writable(e) /\ e \in Range(o) /\ e \in Entries
                            /\ e.kind = "start" => e.name \in {Pending(c) : c \in Chats}
  <2> HIDE DEF out
  <2> QED
    BY <1>2, <1>3, GoesOut
<1>5. /\ outbox' = back /\ up' = (up \o before) \o out
      /\ pendingStart' = (IF started = {} THEN ps ELSE (CHOOSE e \in started : TRUE).name)
      /\ fate' = Mark(f, {e.msg : e \in Range(out)}, "written")
      /\ IF k = Len(ready) THEN UNCHANGED <<ws, budget>> ELSE ws' = "closing" /\ Spend("drops")
  BY <1>1
<1> HIDE DEF out, back
<1>6. ws' \in {"up", "closing"} /\ budget' \in Budgets
  BY <1>5, SpendKeeps DEF Flushable
<1>7. Queue(back) /\ Len(back) <= MaxQueued /\ Range(back) \subseteq Range(o)
  <2>1. Range(back) \subseteq Range(o)
    BY <1>3
  <2>2. Queue(back)
    BY <1>2, <1>3, <2>1 DEF Queue
  <2>3. Len(back) \in Nat /\ Len(o) \in Nat /\ Len(o) <= MaxQueued /\ MaxQueued \in Nat
    BY <1>2, <1>3, OutboxBounds DEF Flushable
  <2> QED
    BY <1>3, <2>1, <2>2, <2>3
<1>8. pendingStart' \in {NoName} \cup {Pending(c) : c \in Chats}
  <2>1. CASE started = {}
    BY <1>5, <2>1 DEF Flushable
  <2>2. CASE started # {}
    <3>1. (CHOOSE e \in started : TRUE) \in started
      BY <2>2
    <3> QED
      BY <1>4, <1>5, <2>2, <3>1
  <2> QED
    BY <2>1, <2>2
<1>9. out \in Seq(Frames) /\ up \o before \in Seq(Frames)
  <2>1. Entries \subseteq Frames
    BY DEF Entries, Frames
  <2> QED
    BY <1>2, <1>3, <2>1
<1>10. Writes((up \o before) \o out)
  <2>1. /\ (up \o before) \o out \in Seq(Frames)
        /\ Range((up \o before) \o out) = Range(up \o before) \cup Range(out)
    BY <1>9, Joined2
  <2> QED
    BY <1>2, <1>4, <2>1 DEF Writes
<1> DEFINE W == {e.msg : e \in Range(out)}
<1>11. /\ fate' \in Seq(Fates) /\ Len(fate') = Len(f) /\ DOMAIN fate' = DOMAIN f
       /\ \A m \in DOMAIN f : fate'[m] = IF m \in W THEN "written" ELSE f[m]
  <2>1. "written" \in Fates
    BY DEF Fates
  <2>2. fate' = Mark(f, W, "written")
    BY <1>5
  <2> HIDE DEF W
  <2>3. /\ Mark(f, W, "written") \in Seq(Fates) /\ Len(Mark(f, W, "written")) = Len(f)
        /\ DOMAIN Mark(f, W, "written") = DOMAIN f
        /\ \A m \in DOMAIN f : Mark(f, W, "written")[m] = IF m \in W THEN "written" ELSE f[m]
    BY <1>2, <2>1, MarkKeeps
  <2> QED
    BY <2>2, <2>3
<1>12. DOMAIN f = 1..Len(f) /\ Len(f) \in Nat
  BY <1>2
<1>13. \A m \in W \cap DOMAIN f : f[m] = "waiting" /\ \E e \in Range(out) : e.kind = "prompt" /\ e.msg = m
  <2> SUFFICES ASSUME NEW e \in Range(out), e.msg \in DOMAIN f
               PROVE  f[e.msg] = "waiting" /\ e.kind = "prompt"
    OBVIOUS
  <2>1. e.kind = "start" => e.msg = 0
    BY <1>4 DEF Writable
  <2>2. e.kind = "prompt"
    BY <1>4, <1>12, <2>1 DEF Entries
  <2> QED
    BY <1>3, <2>2 DEF Lies
<1>14. \A m \in DOMAIN f : fate'[m] = f[m] \/ (f[m] = "waiting" /\ fate'[m] = "written")
  <2> HIDE DEF W
  <2> QED
    BY <1>11, <1>13
<1>15. Lies(back, "waiting", fate', h)
  <2>1. \A x \in Range(back) : x.kind = "prompt" => x.msg \in DOMAIN f /\ x.msg \notin W
    <3> SUFFICES ASSUME NEW x \in Range(back), x.kind = "prompt"
                 PROVE  x.msg \in DOMAIN f /\ x.msg \notin W
      OBVIOUS
    <3>1. x.msg \in DOMAIN f
      BY <1>3 DEF Lies
    <3>2. \A e \in Range(out) : e.kind = "prompt" => e.msg # x.msg
      BY <1>3 DEF Disjoint
    <3> HIDE DEF W
    <3> QED
      BY <1>13, <3>1, <3>2
  <2> HIDE DEF W
  <2>2. \A x \in Range(back) : x.kind = "prompt" =>
          x.msg \in DOMAIN fate' /\ fate'[x.msg] = f[x.msg] /\ h[x.msg] = h[x.msg]
    BY <1>11, <2>1
  <2> QED
    BY <1>3, <2>2, LiesStill
<1>16. Waits(back, fate')
  <2> SUFFICES ASSUME NEW m \in DOMAIN f, fate'[m] = "waiting"
               PROVE  \E x \in Range(back) : x.kind = "prompt" /\ x.msg = m
    BY <1>11 DEF Waits
  <2>1. f[m] = "waiting" /\ m \notin W
    BY <1>11
  <2>2. PICK x \in Range(o) : x.kind = "prompt" /\ x.msg = m
    BY <1>2, <2>1 DEF Waits
  <2>3. x \notin Range(out)
    BY <2>1, <2>2
  <2> QED
    BY <1>3, <2>2, <2>3
<1>17. Lies((up \o before) \o out, "written", fate', h)
  <2>1. Lies(out, "written", fate', h)
    <3>1. \A x \in Range(out) : x.kind = "prompt" =>
            x.msg \in DOMAIN fate' /\ fate'[x.msg] = "written" /\ h[x.msg] = x.name.chat
      <4> SUFFICES ASSUME NEW x \in Range(out), x.kind = "prompt"
                   PROVE  x.msg \in DOMAIN fate' /\ fate'[x.msg] = "written" /\ h[x.msg] = x.name.chat
        OBVIOUS
      <4>1. x.msg \in DOMAIN f /\ h[x.msg] = x.name.chat
        BY <1>3 DEF Lies
      <4>2. x.msg \in W
        OBVIOUS
      <4> HIDE DEF W
      <4> QED
        BY <1>11, <4>1, <4>2
    <3> QED
      BY <1>3, <3>1 DEF Lies
  <2>2. Lies(up \o before, "written", fate', h)
    <3>1. \A x \in Range(up \o before) : x.kind = "prompt" =>
            x.msg \in DOMAIN fate' /\ fate'[x.msg] = f[x.msg] /\ h[x.msg] = h[x.msg]
      <4> HIDE DEF W
      <4> QED
        BY <1>2, <1>11 DEF Lies
    <3> QED
      BY <1>2, <3>1, LiesStill
  <2>3. Disjoint(up \o before, out)
    <3> SUFFICES ASSUME NEW x \in Range(up \o before), NEW y \in Range(out),
                        x.kind = "prompt", y.kind = "prompt"
                 PROVE  x.msg # y.msg
      BY DEF Disjoint
    <3>1. f[x.msg] = "written" /\ f[y.msg] = "waiting"
      BY <1>2, <1>3 DEF Lies
    <3> QED
      BY <3>1
  <2> QED
    BY <1>9, <2>1, <2>2, <2>3, LiesJoined
<1>19. overtakers' \subseteq overtakers \cup Messages
  <2> HIDE DEF S
  <2>1. ready \in Seq(Entries) /\ Keep(o, Range(o) \ S) \in Seq(Entries)
    BY <1>2, KeepPicks
  <2> HIDE DEF ready
  <2>2. Passing(ready, Keep(o, Range(o) \ S)) \subseteq Messages
    BY <2>1, OutboxBounds, PassingAre
  <2> QED
    BY <1>18, <2>2
<1> QED
  BY <1>5, <1>6, <1>7, <1>8, <1>10, <1>11, <1>14, <1>15, <1>16, <1>17, <1>19 DEF Flushed

LEMMA Adds ==
  ASSUME NEW T, NEW s \in Seq(T), NEW x \in T
  PROVE  /\ Append(s, x) \in Seq(T) /\ Len(Append(s, x)) = Len(s) + 1
         /\ Range(Append(s, x)) = Range(s) \cup {x}
<1>1. <<x>> \in Seq(T) /\ Range(<<x>>) = {x} /\ Append(s, x) = s \o <<x>> /\ Len(<<x>>) = 1
  <2>1. DOMAIN <<x>> = {1} /\ <<x>>[1] = x
    OBVIOUS
  <2>2. Range(<<x>>) = {x}
    BY <2>1 DEF Range
  <2> QED
    BY <2>2
<1>2. /\ s \o <<x>> \in Seq(T) /\ Len(s \o <<x>>) = Len(s) + Len(<<x>>)
      /\ Range(s \o <<x>>) = Range(s) \cup Range(<<x>>)
  BY <1>1, Joined2
<1> QED
  BY <1>1, <1>2

LEMMA LiesAdds ==
  ASSUME NEW T, NEW s \in Seq(T), NEW x \in T, NEW how, NEW f, NEW h, Lies(s, how, f, h),
         x.kind = "prompt" => /\ x.msg \in DOMAIN f /\ f[x.msg] = how /\ h[x.msg] = x.name.chat
                              /\ \A y \in Range(s) : y.kind = "prompt" => y.msg # x.msg
  PROVE  Lies(Append(s, x), how, f, h)
<1>1. <<x>> \in Seq(T) /\ Append(s, x) = s \o <<x>> /\ DOMAIN <<x>> = {1} /\ <<x>>[1] = x
  OBVIOUS
<1>2. Range(<<x>>) = {x}
  BY <1>1 DEF Range
<1>3. Apart(<<x>>)
  BY <1>1 DEF Apart
<1>4. Lies(<<x>>, how, f, h)
  BY <1>2, <1>3 DEF Lies
<1>5. Disjoint(s, <<x>>)
  BY <1>2 DEF Disjoint
<1> QED
  BY <1>1, <1>4, <1>5, LiesJoined

\* What is left when the first frame is taken.
LEMMA LiesTail ==
  ASSUME NEW T, NEW s \in Seq(T), s # << >>
  PROVE  /\ Tail(s) \in Seq(T) /\ Range(Tail(s)) \subseteq Range(s) /\ Head(s) \in Range(s)
         /\ \A how, f, h : Lies(s, how, f, h) =>
              /\ Lies(Tail(s), how, f, h)
              /\ \A y \in Range(Tail(s)) : Head(s).kind = "prompt" /\ y.kind = "prompt" =>
                   y.msg # Head(s).msg
<1>1. /\ Tail(s) \in Seq(T) /\ DOMAIN Tail(s) = 1..(Len(s) - 1) /\ Len(s) \in Nat /\ Len(s) >= 1
      /\ \A i \in DOMAIN Tail(s) : i + 1 \in DOMAIN s /\ Tail(s)[i] = s[i + 1]
      /\ 1 \in DOMAIN s /\ Head(s) = s[1]
  OBVIOUS
<1>2. Range(Tail(s)) \subseteq Range(s) /\ Head(s) \in Range(s)
  BY <1>1 DEF Range
<1>3. ASSUME NEW how, NEW f, NEW h, Lies(s, how, f, h)
      PROVE  /\ Lies(Tail(s), how, f, h)
             /\ \A y \in Range(Tail(s)) : Head(s).kind = "prompt" /\ y.kind = "prompt" =>
                  y.msg # Head(s).msg
  <2>1. Apart(Tail(s))
    <3> SUFFICES ASSUME NEW i \in DOMAIN Tail(s), NEW j \in DOMAIN Tail(s),
                        Tail(s)[i].kind = "prompt", Tail(s)[j].kind = "prompt",
                        Tail(s)[i].msg = Tail(s)[j].msg
                 PROVE  i = j
      BY DEF Apart
    <3>1. i + 1 = j + 1
      BY <1>1, <1>3 DEF Lies, Apart
    <3> QED
      BY <1>1, <3>1
  <2>2. ASSUME NEW i \in DOMAIN Tail(s), Head(s).kind = "prompt", Tail(s)[i].kind = "prompt"
        PROVE  Tail(s)[i].msg # Head(s).msg
    <3>1. i + 1 # 1
      BY <1>1
    <3> QED
      BY <1>1, <1>3, <2>2, <3>1 DEF Lies, Apart
  <2>3. \A y \in Range(Tail(s)) : Head(s).kind = "prompt" /\ y.kind = "prompt" => y.msg # Head(s).msg
    BY <2>2 DEF Range
  <2> QED
    BY <1>2, <1>3, <2>1, <2>3 DEF Lies
<1> QED
  BY <1>1, <1>2, <1>3

\* A message typed: f is what the fates of the others have become by then.
LEMMA TypedKeeps ==
  ASSUME HistoryShapes, Len(fate) < MaxMessages, NEW f \in Seq(Fates), Len(f) = Len(fate),
         NEW how \in Fates, NEW c \in Chats
  PROVE  /\ Append(f, how) \in Seq(Fates) /\ Append(home, c) \in Seq(Chats)
         /\ Len(Append(f, how)) = Len(fate) + 1 /\ Len(Append(home, c)) = Len(fate) + 1
         /\ Len(fate) + 1 <= MaxMessages /\ Len(fate) + 1 \in Messages
         /\ DOMAIN Append(f, how) = DOMAIN fate \cup {Len(fate) + 1} /\ Len(fate) + 1 \notin DOMAIN fate
         /\ Append(f, how)[Len(fate) + 1] = how /\ Append(home, c)[Len(fate) + 1] = c
         /\ \A m \in DOMAIN fate : Append(f, how)[m] = f[m] /\ Append(home, c)[m] = home[m]
<1>1. /\ fate \in Seq(Fates) /\ home \in Seq(Chats) /\ Len(home) = Len(fate) /\ Len(fate) \in Nat
      /\ DOMAIN fate = 1..Len(fate) /\ MaxMessages \in Nat
  BY OutboxBounds DEF HistoryShapes
<1>2. /\ Append(f, how) \in Seq(Fates) /\ Len(Append(f, how)) = Len(fate) + 1
      /\ DOMAIN Append(f, how) = 1..(Len(fate) + 1)
      /\ Append(f, how)[Len(fate) + 1] = how /\ \A m \in 1..Len(fate) : Append(f, how)[m] = f[m]
  BY <1>1
<1>3. /\ Append(home, c) \in Seq(Chats) /\ Len(Append(home, c)) = Len(fate) + 1
      /\ Append(home, c)[Len(fate) + 1] = c /\ \A m \in 1..Len(fate) : Append(home, c)[m] = home[m]
  BY <1>1
<1>4. 1..(Len(fate) + 1) = (1..Len(fate)) \cup {Len(fate) + 1} /\ Len(fate) + 1 \notin 1..Len(fate)
  BY <1>1
<1>5. Len(fate) + 1 <= MaxMessages /\ Len(fate) + 1 \in Messages
  BY <1>1 DEF Messages
<1> QED
  BY <1>1, <1>2, <1>3, <1>4, <1>5

-----------------------------------------------------------------------------
(***************************************************************************)
(* What the user does.                                                     *)
(***************************************************************************)

LEMMA Basics ==
  ASSUME MailInv
  PROVE  /\ fate \in Seq(Fates) /\ home \in Seq(Chats) /\ Len(fate) = Len(home) /\ Len(fate) \in Nat
         /\ DOMAIN fate = 1..Len(fate) /\ DOMAIN home = DOMAIN fate /\ Len(fate) <= MaxMessages
         /\ outbox \in Seq(Entries) /\ up \in Seq(Frames) /\ down \in Seq(Answers)
         /\ Len(outbox) \in Nat /\ MaxQueued \in Nat /\ MaxMessages \in Nat
         /\ \A m \in DOMAIN fate : home[m] \in Chats
         /\ NoName \notin Names /\ IsPending(NoName)
         /\ \A c \in Chats : Pending(c) \in Names /\ IsPending(Pending(c))
         /\ \A n \in Names : n.chat \in Chats /\ (IsPending(n) => n = Pending(n.chat))
<1>1. NoName \notin Names /\ IsPending(NoName)
  BY DEF NoName, Names, Chats, IsPending
<1>2. \A c \in Chats : Pending(c) \in Names /\ IsPending(Pending(c))
  BY DEF Pending, Names, IsPending
<1>3. \A n \in Names : n.chat \in Chats /\ (IsPending(n) => n = Pending(n.chat))
  BY DEF Pending, Names, IsPending
<1>4. /\ fate \in Seq(Fates) /\ home \in Seq(Chats) /\ Len(fate) = Len(home) /\ Len(fate) <= MaxMessages
      /\ outbox \in Seq(Entries) /\ up \in Seq(Frames) /\ down \in Seq(Answers)
  BY DEF MailInv, Shapes, HistoryShapes, PhoneShapes, LineShapes, Queue, Writes, Tells
<1>5. /\ Len(fate) \in Nat /\ DOMAIN fate = 1..Len(fate) /\ DOMAIN home = 1..Len(fate) /\ Len(outbox) \in Nat
      /\ \A m \in DOMAIN home : home[m] \in Chats
  BY <1>4
<1> QED
  BY <1>1, <1>2, <1>3, <1>4, <1>5, OutboxBounds

LEMMA TakenStill ==
  ASSUME Taken, heard' = heard,
         \A m \in DOMAIN fate : fate[m] = "heard" =>
           m \in DOMAIN fate' /\ fate'[m] = "heard" /\ home'[m] = home[m]
  PROVE  Taken'
BY DEF Taken

\* A message typed keeps the others in their places.
LEMMA TypedStill ==
  ASSUME MailInv, Len(fate) < MaxMessages, NEW how \in Fates, NEW c \in Chats,
         Typed(Len(fate) + 1, c, how)
  PROVE  /\ fate' \in Seq(Fates) /\ home' \in Seq(Chats) /\ Len(fate') = Len(home')
         /\ Len(fate') <= MaxMessages /\ Len(fate) + 1 \in Messages
         /\ DOMAIN fate' = DOMAIN fate \cup {Len(fate) + 1} /\ Len(fate) + 1 \notin DOMAIN fate
         /\ fate'[Len(fate) + 1] = how /\ home'[Len(fate) + 1] = c
         /\ \A m \in DOMAIN fate : fate'[m] = fate[m] /\ home'[m] = home[m]
         /\ \A s, w : Lies(s, w, fate, home) => Lies(s, w, fate', home')
         /\ Taken /\ heard' = heard => Taken'
<1>1. HistoryShapes /\ fate \in Seq(Fates)
  BY Basics DEF MailInv, Shapes
<1>2. fate' = Append(fate, how) /\ home' = Append(home, c)
  BY DEF Typed
<1>3. /\ fate' \in Seq(Fates) /\ home' \in Seq(Chats) /\ Len(fate') = Len(home')
      /\ Len(fate') <= MaxMessages /\ Len(fate) + 1 \in Messages
      /\ DOMAIN fate' = DOMAIN fate \cup {Len(fate) + 1} /\ Len(fate) + 1 \notin DOMAIN fate
      /\ fate'[Len(fate) + 1] = how /\ home'[Len(fate) + 1] = c
      /\ \A m \in DOMAIN fate : fate'[m] = fate[m] /\ home'[m] = home[m]
  BY <1>1, <1>2, TypedKeeps
<1>4. ASSUME NEW s, NEW w, Lies(s, w, fate, home) PROVE Lies(s, w, fate', home')
  <2>1. \A x \in Range(s) : x.kind = "prompt" =>
          x.msg \in DOMAIN fate' /\ fate'[x.msg] = fate[x.msg] /\ home'[x.msg] = home[x.msg]
    BY <1>3, <1>4 DEF Lies
  <2> QED
    BY <1>4, <2>1, LiesStill
<1>5. ASSUME Taken, heard' = heard PROVE Taken'
  BY <1>3, <1>5, TakenStill
<1> QED
  BY <1>3, <1>4, <1>5

\* deliverPrompt, into a conversation that has a row.
LEMMA DeliverKeeps ==
  ASSUME MailInv, Len(fate) < MaxMessages, NEW n \in Names, \E r \in rows : r.chat = n.chat,
         ~IsPending(n) => Rowed(n.chat), Deliver(Len(fate) + 1, n),
         UNCHANGED <<down, daemonVars, heard, budget>>
  PROVE  MailInv'
<1> DEFINE m == Len(fate) + 1
<1>1. /\ PhoneShapes /\ LineShapes /\ DaemonShapes /\ HistoryShapes /\ MessageInv /\ SlotInv /\ RowsInv
  BY DEF MailInv, Shapes
<1>2. UNCHANGED <<ws, pendingStart, slot, screenVars, live, rows, agent>>
  BY DEF Deliver
<1>3. n.chat \in Chats /\ PromptTo(n, m) = [kind |-> "prompt", name |-> n, msg |-> m]
  BY Basics DEF PromptTo
<1>4. DaemonShapes'
  BY <1>1, <1>2 DEF DaemonShapes, daemonVars
<1>5. CASE ~IsPending(n) /\ ws = "up"
  <2>1. /\ up' = Append(up, PromptTo(n, m)) /\ Typed(m, n.chat, "written") /\ outbox' = outbox
        /\ overtakers' = overtakers \cup {m : e \in {x \in Prompts : home[x.msg] = n.chat}}
    BY <1>5 DEF Deliver
  <2>2. "written" \in Fates
    BY DEF Fates
  <2>3. /\ fate' \in Seq(Fates) /\ home' \in Seq(Chats) /\ Len(fate') = Len(home')
        /\ Len(fate') <= MaxMessages /\ m \in Messages
        /\ DOMAIN fate' = DOMAIN fate \cup {m} /\ m \notin DOMAIN fate
        /\ fate'[m] = "written" /\ home'[m] = n.chat
        /\ \A k \in DOMAIN fate : fate'[k] = fate[k] /\ home'[k] = home[k]
        /\ \A s, w : Lies(s, w, fate, home) => Lies(s, w, fate', home')
        /\ Taken /\ heard' = heard => Taken'
    BY <1>3, <2>1, <2>2, TypedStill
  <2>4. PromptTo(n, m) \in Frames /\ Writable(PromptTo(n, m))
    BY <1>3, <1>5, <2>3, OutboxBounds DEF Frames, Writable, Messages
  <2>5. up' \in Seq(Frames) /\ Range(up') = Range(up) \cup {PromptTo(n, m)}
    BY <2>1, <2>4, Adds, Basics
  <2>6. PhoneShapes'
    BY <1>1, <1>2, <2>1 DEF PhoneShapes, screenVars
  <2>7. LineShapes'
    BY <1>1, <2>4, <2>5 DEF LineShapes, Writes
  <2>8. HistoryShapes'
    BY <1>1, <2>1, <2>3 DEF HistoryShapes
  <2>9. MessageInv'
    <3>1. Lies(up, "written", fate', home')
      BY <1>1, <2>3 DEF MessageInv
    <3>2. \A y \in Range(up) : y.kind = "prompt" => y.msg # m
      BY <1>1, <2>3 DEF MessageInv, Lies
    <3>3. up \in Seq(Frames)
      BY Basics
    <3>4. PromptTo(n, m).kind = "prompt" /\ PromptTo(n, m).msg = m /\ PromptTo(n, m).name = n
      BY <1>3
    <3>5. Lies(up', "written", fate', home')
      BY <2>1, <2>3, <2>4, <3>1, <3>2, <3>3, <3>4, LiesAdds
    <3>6. Waits(outbox', fate')
      BY <1>1, <2>1, <2>3 DEF MessageInv, Waits
    <3> QED
      BY <1>1, <2>1, <2>3, <3>5, <3>6 DEF MessageInv
  <2>10. SlotInv'
    BY <1>1, <1>2, <2>3 DEF SlotInv, screenVars
  <2>11. RowsInv'
    BY <1>1, <1>2, <2>1 DEF RowsInv, Rowed, screenVars
  <2> QED
    BY <1>4, <2>6, <2>7, <2>8, <2>9, <2>10, <2>11 DEF MailInv, Shapes
<1>6. CASE ~(~IsPending(n) /\ ws = "up")
  <2>1. /\ Len(outbox) < MaxQueued /\ outbox' = Append(outbox, PromptTo(n, m))
        /\ Typed(m, n.chat, "waiting") /\ up' = up /\ overtakers' = overtakers
    BY <1>6 DEF Deliver
  <2>2. "waiting" \in Fates
    BY DEF Fates
  <2>3. /\ fate' \in Seq(Fates) /\ home' \in Seq(Chats) /\ Len(fate') = Len(home')
        /\ Len(fate') <= MaxMessages /\ m \in Messages
        /\ DOMAIN fate' = DOMAIN fate \cup {m} /\ m \notin DOMAIN fate
        /\ fate'[m] = "waiting" /\ home'[m] = n.chat
        /\ \A k \in DOMAIN fate : fate'[k] = fate[k] /\ home'[k] = home[k]
        /\ \A s, w : Lies(s, w, fate, home) => Lies(s, w, fate', home')
        /\ Taken /\ heard' = heard => Taken'
    BY <1>3, <2>1, <2>2, TypedStill
  <2>4. PromptTo(n, m) \in Entries /\ PromptTo(n, m).kind = "prompt"
        /\ PromptTo(n, m).msg = m /\ PromptTo(n, m).name = n
    BY <1>3, <2>3, OutboxBounds DEF Entries, Messages
  <2>5. /\ outbox' \in Seq(Entries) /\ Range(outbox') = Range(outbox) \cup {PromptTo(n, m)}
        /\ Len(outbox') = Len(outbox) + 1
    BY <2>1, <2>4, Adds, Basics
  <2>6. PhoneShapes'
    <3>1. Queue(outbox')
      BY <1>1, <2>4, <2>5 DEF PhoneShapes, Queue
    <3>2. Len(outbox') <= MaxQueued
      BY <2>1, <2>5, Basics
    <3> QED
      BY <1>1, <1>2, <3>1, <3>2 DEF PhoneShapes, screenVars
  <2>7. LineShapes'
    BY <1>1, <2>1 DEF LineShapes
  <2>8. HistoryShapes'
    BY <1>1, <2>1, <2>3 DEF HistoryShapes
  <2>9. MessageInv'
    <3>1. Lies(outbox, "waiting", fate', home')
      BY <1>1, <2>3 DEF MessageInv
    <3>2. \A y \in Range(outbox) : y.kind = "prompt" => y.msg # m
      BY <1>1, <2>3 DEF MessageInv, Lies
    <3>3. outbox \in Seq(Entries)
      BY Basics
    <3>5. Lies(outbox', "waiting", fate', home')
      BY <2>1, <2>3, <2>4, <3>1, <3>2, <3>3, LiesAdds
    <3>6. Waits(outbox', fate')
      <4> SUFFICES ASSUME NEW k \in DOMAIN fate', fate'[k] = "waiting"
                   PROVE  \E x \in Range(outbox') : x.kind = "prompt" /\ x.msg = k
        BY DEF Waits
      <4>1. CASE k = m
        BY <2>4, <2>5, <4>1
      <4>2. CASE k # m
        <5>1. k \in DOMAIN fate /\ fate[k] = "waiting"
          BY <2>3, <4>2
        <5> QED
          BY <1>1, <2>5, <5>1 DEF MessageInv, Waits
      <4> QED
        BY <4>1, <4>2
    <3> QED
      BY <1>1, <2>1, <2>3, <3>5, <3>6 DEF MessageInv
  <2>10. SlotInv'
    BY <1>1, <1>2, <2>3 DEF SlotInv, screenVars
  <2>11. RowsInv'
    <3>1. \A e \in Range(outbox) : /\ \E r \in rows : r.chat = e.name.chat
                                   /\ ~IsPending(e.name) => Rowed(e.name.chat)
      BY <1>1 DEF RowsInv
    <3>2. \A e \in Range(outbox') : /\ \E r \in rows : r.chat = e.name.chat
                                    /\ ~IsPending(e.name) => Rowed(e.name.chat)
      BY <2>4, <2>5, <3>1
    <3> QED
      BY <1>1, <1>2, <3>2 DEF RowsInv, Rowed, screenVars
  <2> QED
    BY <1>4, <2>6, <2>7, <2>8, <2>9, <2>10, <2>11 DEF MailInv, Shapes
<1> QED
  BY <1>5, <1>6

\* A fate that tells what waits, flies or was taken as fate does.
Alike(g) == /\ g \in Seq(Fates) /\ Len(g) = Len(fate) /\ DOMAIN g = DOMAIN fate
            /\ \A m \in DOMAIN fate, w \in {"waiting", "written", "heard"} : g[m] = w <=> fate[m] = w

\* The message held for a start meets another fate.
LEMMA SlotGone ==
  ASSUME MailInv, NEW how \in Fates \ {"waiting", "written", "heard"}
  PROVE  Alike(Mark(fate, {slot}, how))
<1> DEFINE g == Mark(fate, {slot}, how)
<1>1. /\ g \in Seq(Fates) /\ Len(g) = Len(fate) /\ DOMAIN g = DOMAIN fate
      /\ \A m \in DOMAIN fate : g[m] = IF m \in {slot} THEN how ELSE fate[m]
  BY MarkKeeps, Basics
<1>2. \A m \in DOMAIN fate : m = slot => fate[m] = "slot"
  BY Basics DEF MailInv, SlotInv
<1> HIDE DEF g
<1>3. \A m \in DOMAIN fate, w \in {"waiting", "written", "heard"} : g[m] = w <=> fate[m] = w
  BY <1>1, <1>2
<1> QED
  BY <1>1, <1>3 DEF Alike, g

LEMMA AlikeKeeps ==
  ASSUME MailInv, NEW g, Alike(g)
  PROVE  /\ Lies(outbox, "waiting", g, home) /\ Waits(outbox, g) /\ Lies(up, "written", g, home)
<1>1. MessageInv
  BY DEF MailInv
<1>2. Lies(outbox, "waiting", g, home)
  <2>1. \A x \in Range(outbox) : x.kind = "prompt" =>
          x.msg \in DOMAIN g /\ g[x.msg] = fate[x.msg] /\ home[x.msg] = home[x.msg]
    BY <1>1 DEF MessageInv, Lies, Alike
  <2> QED
    BY <1>1, <2>1, LiesStill DEF MessageInv
<1>3. Lies(up, "written", g, home)
  <2>1. \A x \in Range(up) : x.kind = "prompt" =>
          x.msg \in DOMAIN g /\ g[x.msg] = fate[x.msg] /\ home[x.msg] = home[x.msg]
    BY <1>1 DEF MessageInv, Lies, Alike
  <2> QED
    BY <1>1, <2>1, LiesStill DEF MessageInv
<1>4. Waits(outbox, g)
  BY <1>1 DEF MessageInv, Waits, Alike
<1> QED
  BY <1>2, <1>3, <1>4

LEMMA AlikeTaken ==
  ASSUME MailInv, Alike(fate'), home' = home, heard' = heard
  PROVE  Taken'
BY DEF MailInv, MessageInv, Taken, Alike

\* cancel.
LEMMA StopKeeps ==
  ASSUME MailInv, Stop
  PROVE  MailInv'
<1>1. /\ PhoneShapes /\ LineShapes /\ DaemonShapes /\ HistoryShapes /\ MessageInv /\ SlotInv /\ RowsInv
  BY DEF MailInv, Shapes
<1>2. /\ slot' = 0 /\ fate' = Mark(fate, {slot}, "stopped")
      /\ UNCHANGED <<ws, outbox, pendingStart, screenVars, live, rows, up, down,
                     daemonVars, agent, history, budget>>
  BY DEF Stop
<1>3. Alike(fate')
  <2>1. "stopped" \in Fates \ {"waiting", "written", "heard"}
    BY DEF Fates
  <2> QED
    BY <1>2, <2>1, SlotGone
<1>4. MessageInv'
  BY <1>2, <1>3, AlikeKeeps, AlikeTaken DEF MessageInv, history
<1>5. PhoneShapes' /\ LineShapes' /\ DaemonShapes' /\ HistoryShapes'
  <2>1. PhoneShapes'
    BY <1>1, <1>2, Basics DEF PhoneShapes, screenVars
  <2>2. LineShapes' /\ DaemonShapes'
    BY <1>1, <1>2 DEF LineShapes, DaemonShapes, daemonVars
  <2>3. HistoryShapes'
    BY <1>1, <1>2, <1>3 DEF HistoryShapes, Alike, history
  <2> QED
    BY <2>1, <2>2, <2>3
<1>6. SlotInv' /\ RowsInv'
  BY <1>1, <1>2 DEF SlotInv, RowsInv, Rowed, screenVars
<1> QED
  BY <1>4, <1>5, <1>6 DEF MailInv, Shapes

\* What is common to leaving and opening a row: the held message is forgotten.
LEMMA MovesKeeps ==
  ASSUME MailInv, NEW n \in Names \cup {NoName}, viewing' = n,
         slot' = 0, fate' = Forget(fate), Spend("moves"),
         {sessionRef', screen', restoring'} \subseteq Names \cup {NoName}, awaiting' \in BOOLEAN,
         sessionRef' \in {NoName, screen'},
         sessionRef' # NoName => sessionRef' \in rows /\ ~IsPending(sessionRef'),
         UNCHANGED <<ws, outbox, pendingStart, live, rows, down, daemonVars, agent, history>>,
         Writes(up'), Lies(up', "written", fate', home)
  PROVE  MailInv'
<1>1. /\ PhoneShapes /\ LineShapes /\ DaemonShapes /\ HistoryShapes /\ MessageInv /\ SlotInv /\ RowsInv
  BY DEF MailInv, Shapes
<1>2. UNCHANGED <<ws, outbox, pendingStart, live, rows, down, daemonVars, agent, history>>
  OBVIOUS
<1>3. Alike(fate')
  <2>1. "forgotten" \in Fates \ {"waiting", "written", "heard"}
    BY DEF Fates
  <2> QED
    BY <2>1, SlotGone DEF Forget
<1>4. MessageInv'
  BY <1>2, <1>3, AlikeKeeps, AlikeTaken DEF MessageInv, history
<1>5. budget' \in Budgets
  BY <1>1, SpendKeeps DEF DaemonShapes
<1>6. PhoneShapes'
  BY <1>1, <1>2, Basics DEF PhoneShapes
<1>7. LineShapes' /\ DaemonShapes'
  BY <1>1, <1>2, <1>5 DEF LineShapes, DaemonShapes, daemonVars
<1>8. HistoryShapes'
  BY <1>1, <1>2, <1>3 DEF HistoryShapes, Alike, history
<1>9. SlotInv'
  BY DEF SlotInv
<1>10. RowsInv'
  BY <1>1, <1>2 DEF RowsInv, Rowed
<1> QED
  BY <1>4, <1>6, <1>7, <1>8, <1>9, <1>10 DEF MailInv, Shapes

LEMMA ShowsKeeps ==
  ASSUME MailInv, NEW n \in rows \cup {NoName}, Spend("moves"), Shows(n)
  PROVE  MailInv'
<1>1. /\ restoring' = NoName /\ awaiting' = FALSE
      /\ sessionRef' = (IF IsPending(n) THEN NoName ELSE n) /\ screen' = sessionRef'
      /\ viewing' = n /\ slot' = 0 /\ fate' = Forget(fate) /\ up' = up
      /\ UNCHANGED <<ws, outbox, pendingStart, live, rows, down, daemonVars, agent, history>>
  BY DEF Shows
<1>2. rows \subseteq Names /\ Writes(up) /\ NoName \notin Names
  BY Basics DEF MailInv, Shapes, PhoneShapes, LineShapes
<1>3. n \in Names \cup {NoName} /\ {sessionRef', screen', restoring'} \subseteq Names \cup {NoName}
  BY <1>1, <1>2
<1>4. sessionRef' # NoName => sessionRef' \in rows /\ ~IsPending(sessionRef')
  BY <1>1
<1>5. Lies(up', "written", fate', home)
  <2>1. "forgotten" \in Fates \ {"waiting", "written", "heard"}
    BY DEF Fates
  <2> QED
    BY <1>1, <2>1, SlotGone, AlikeKeeps DEF Forget
<1>6. Writes(up') /\ awaiting' \in BOOLEAN /\ sessionRef' \in {NoName, screen'}
  BY <1>1, <1>2
<1> QED
  BY <1>1, <1>3, <1>4, <1>5, <1>6, MovesKeeps

LEMMA ReopenKeeps ==
  ASSUME MailInv, NEW n \in rows, Reopen(n)
  PROVE  MailInv'
<1>1. /\ NeedsResume(n) /\ Spend("moves") /\ restoring' = n /\ awaiting' = TRUE
      /\ sessionRef' = NoName /\ screen' = NoName /\ viewing' = n
      /\ slot' = 0 /\ fate' = Forget(fate)
      /\ up' = IF ws = "up" THEN Append(up, Resume(n)) ELSE up
      /\ UNCHANGED <<ws, outbox, pendingStart, live, rows, down, daemonVars, agent, history>>
  BY DEF Reopen
<1>2. rows \subseteq Names /\ Writes(up) /\ up \in Seq(Frames)
  BY Basics DEF MailInv, Shapes, PhoneShapes, LineShapes
<1>3. /\ Resume(n) = [kind |-> "resume", name |-> n, msg |-> 0] /\ Resume(n) \in Frames
      /\ Writable(Resume(n)) /\ Resume(n).kind # "prompt"
  <2>1. ~IsPending(n) /\ n \in Names
    BY <1>1, <1>2 DEF NeedsResume, Resumable
  <2> QED
    BY <2>1, OutboxBounds DEF Resume, Frames, Writable
<1>4. Writes(up')
  <2>1. Append(up, Resume(n)) \in Seq(Frames) /\ Range(Append(up, Resume(n))) = Range(up) \cup {Resume(n)}
    BY <1>2, <1>3, Adds
  <2> QED
    BY <1>1, <1>2, <1>3, <2>1 DEF Writes
<1>5. Lies(up', "written", fate', home)
  <2>1. "forgotten" \in Fates \ {"waiting", "written", "heard"}
    BY DEF Fates
  <2>2. Lies(up, "written", fate', home)
    BY <1>1, <2>1, SlotGone, AlikeKeeps DEF Forget
  <2>3. Lies(Append(up, Resume(n)), "written", fate', home)
    BY <1>2, <1>3, <2>2, LiesAdds
  <2> QED
    BY <1>1, <2>2, <2>3
<1>6. {sessionRef', screen', restoring'} \subseteq Names \cup {NoName} /\ n \in Names
  BY <1>1, <1>2
<1> QED
  BY <1>1, <1>4, <1>5, <1>6, MovesKeeps

\* A message typed as another one is forgotten.
LEMMA TypedForgetting ==
  ASSUME MailInv, Len(fate) < MaxMessages, NEW how \in Fates, NEW c \in Chats,
         fate' = Append(Forget(fate), how), home' = Append(home, c)
  PROVE  /\ fate' \in Seq(Fates) /\ home' \in Seq(Chats) /\ Len(fate') = Len(home')
         /\ Len(fate') <= MaxMessages /\ Len(fate) + 1 \in Messages
         /\ DOMAIN fate' = DOMAIN fate \cup {Len(fate) + 1} /\ Len(fate) + 1 \notin DOMAIN fate
         /\ fate'[Len(fate) + 1] = how /\ home'[Len(fate) + 1] = c
         /\ Lies(outbox, "waiting", fate', home') /\ Lies(up, "written", fate', home')
         /\ \A m \in DOMAIN fate : fate'[m] = "waiting" <=> fate[m] = "waiting"
         /\ heard' = heard => Taken'
<1> DEFINE g == Forget(fate)
<1>1. HistoryShapes /\ fate \in Seq(Fates) /\ MessageInv
  BY Basics DEF MailInv, Shapes
<1>2. Alike(g)
  <2>1. "forgotten" \in Fates \ {"waiting", "written", "heard"}
    BY DEF Fates
  <2> QED
    BY <2>1, SlotGone DEF Forget
<1>3. Lies(outbox, "waiting", g, home) /\ Lies(up, "written", g, home)
  <2> HIDE DEF g
  <2> QED
    BY <1>2, AlikeKeeps
<1>4. fate' = Append(g, how) /\ home' = Append(home, c)
  OBVIOUS
<1> HIDE DEF g
<1>5. /\ fate' \in Seq(Fates) /\ home' \in Seq(Chats) /\ Len(fate') = Len(home')
      /\ Len(fate') <= MaxMessages /\ Len(fate) + 1 \in Messages
      /\ DOMAIN fate' = DOMAIN fate \cup {Len(fate) + 1} /\ Len(fate) + 1 \notin DOMAIN fate
      /\ fate'[Len(fate) + 1] = how /\ home'[Len(fate) + 1] = c
      /\ \A m \in DOMAIN fate : fate'[m] = g[m] /\ home'[m] = home[m]
  BY <1>1, <1>2, <1>4, TypedKeeps DEF Alike
<1>6. ASSUME NEW s, NEW w, Lies(s, w, g, home) PROVE Lies(s, w, fate', home')
  <2>1. \A x \in Range(s) : x.kind = "prompt" =>
          x.msg \in DOMAIN fate' /\ fate'[x.msg] = g[x.msg] /\ home'[x.msg] = home[x.msg]
    BY <1>2, <1>5, <1>6 DEF Lies, Alike
  <2> QED
    BY <1>6, <2>1, LiesStill
<1>7. \A m \in DOMAIN fate : fate'[m] = "waiting" <=> fate[m] = "waiting"
  BY <1>2, <1>5 DEF Alike
<1>8. ASSUME heard' = heard PROVE Taken'
  <2>1. \A m \in DOMAIN fate : fate[m] = "heard" =>
          m \in DOMAIN fate' /\ fate'[m] = "heard" /\ home'[m] = home[m]
    BY <1>2, <1>5 DEF Alike
  <2> QED
    BY <1>1, <1>8, <2>1, TakenStill DEF MessageInv
<1> QED
  BY <1>3, <1>5, <1>6, <1>7, <1>8

LEMMA Twice ==
  ASSUME NEW T, NEW s \in Seq(T), NEW a \in T, NEW b \in T
  PROVE  s \o <<a, b>> = Append(Append(s, a), b)
OBVIOUS

\* A start with nothing to wait behind.
LEMMA BeginKeeps ==
  ASSUME MailInv, Len(fate) < MaxMessages, NEW p \in Providers, screen = NoName,
         Begin(p, Len(fate) + 1), UNCHANGED <<down, daemonVars, heard, budget>>
  PROVE  MailInv'
<1> DEFINE m == Len(fate) + 1
           c == Len(agent) + 1
<1>1. /\ PhoneShapes /\ LineShapes /\ DaemonShapes /\ HistoryShapes /\ MessageInv /\ SlotInv /\ RowsInv
  BY DEF MailInv, Shapes
<1>2. /\ c <= MaxChats /\ agent' = Append(agent, p) /\ pendingStart' = Pending(c) /\ viewing' = Pending(c)
      /\ UNCHANGED <<ws, sessionRef, screen, live, overtakers>>
  BY DEF Begin
<1>3. c \in Chats /\ Pending(c) \in Names /\ IsPending(Pending(c)) /\ Pending(c).chat = c
  <2>1. c \in Chats
    BY <1>1, <1>2, OutboxBounds DEF DaemonShapes, Chats
  <2> QED
    BY <2>1, Basics DEF Pending
<1>4. DaemonShapes'
  <2>1. agent' \in Seq(Providers) /\ Len(agent') = Len(agent) + 1
    BY <1>1, <1>2 DEF DaemonShapes
  <2> QED
    BY <1>1, <1>2, <2>1 DEF DaemonShapes, daemonVars
<1>5. sessionRef = NoName
  BY <1>1 DEF SlotInv
<1>6. StartOf(c) = [kind |-> "start", name |-> Pending(c), msg |-> 0]
  BY DEF StartOf
<1>7. /\ StartOf(c).kind = "start" /\ StartOf(c).name = Pending(c) /\ StartOf(c).msg = 0
      /\ StartOf(c) \in Entries /\ StartOf(c) \in Frames /\ Writable(StartOf(c))
  BY <1>3, <1>6, OutboxBounds DEF Entries, Frames, Writable
<1> HIDE DEF c
<1>8. CASE /\ ws = "up"
           /\ up' = Append(up, StartOf(c)) /\ slot' = m
           /\ fate' = Append(Forget(fate), "slot") /\ home' = Append(home, c)
           /\ rows' = rows \cup {Pending(c)}
           /\ restoring' = NoName /\ awaiting' = FALSE /\ UNCHANGED outbox
  <2>1. "slot" \in Fates
    BY DEF Fates
  <2>2. /\ fate' \in Seq(Fates) /\ home' \in Seq(Chats) /\ Len(fate') = Len(home')
        /\ Len(fate') <= MaxMessages /\ m \in Messages
        /\ DOMAIN fate' = DOMAIN fate \cup {m} /\ m \notin DOMAIN fate
        /\ fate'[m] = "slot" /\ home'[m] = c
        /\ Lies(outbox, "waiting", fate', home') /\ Lies(up, "written", fate', home')
        /\ \A k \in DOMAIN fate : fate'[k] = "waiting" <=> fate[k] = "waiting"
        /\ heard' = heard => Taken'
    BY <1>3, <1>8, <2>1, TypedForgetting
  <2>3. up' \in Seq(Frames) /\ Range(up') = Range(up) \cup {StartOf(c)}
    BY <1>7, <1>8, Adds, Basics
  <2>4. PhoneShapes'
    <3>1. slot' \in 0 .. MaxMessages
      BY <1>8, <2>2, OutboxBounds DEF Messages
    <3> QED
      BY <1>1, <1>2, <1>3, <1>8, <3>1 DEF PhoneShapes
  <2>5. LineShapes'
    BY <1>1, <1>7, <2>3 DEF LineShapes, Writes
  <2>6. HistoryShapes'
    BY <1>1, <1>2, <2>2 DEF HistoryShapes
  <2>7. MessageInv'
    <3>1. up \in Seq(Frames)
      BY Basics
    <3>2. Lies(up', "written", fate', home')
      BY <1>7, <1>8, <2>2, <3>1, LiesAdds
    <3>3. Waits(outbox', fate')
      BY <1>1, <1>8, <2>2 DEF MessageInv, Waits
    <3> QED
      BY <1>8, <2>2, <3>2, <3>3 DEF MessageInv
  <2>8. SlotInv'
    BY <1>2, <1>5, <1>8, <2>2 DEF SlotInv
  <2>9. RowsInv'
    BY <1>1, <1>2, <1>8 DEF RowsInv, Rowed
  <2> QED
    BY <1>4, <2>4, <2>5, <2>6, <2>7, <2>8, <2>9 DEF MailInv, Shapes
<1>9. CASE /\ ws # "up" /\ Len(outbox) + 2 <= MaxQueued
           /\ outbox' = outbox \o <<StartOf(c), PromptTo(Pending(c), m)>>
           /\ slot' = 0
           /\ fate' = Append(Forget(fate), "waiting") /\ home' = Append(home, c)
           /\ rows' = rows \cup {Pending(c)}
           /\ restoring' = NoName /\ awaiting' = FALSE /\ UNCHANGED up
  <2> DEFINE one == Append(outbox, StartOf(c))
             e == PromptTo(Pending(c), m)
  <2>1. "waiting" \in Fates
    BY DEF Fates
  <2>2. /\ fate' \in Seq(Fates) /\ home' \in Seq(Chats) /\ Len(fate') = Len(home')
        /\ Len(fate') <= MaxMessages /\ m \in Messages
        /\ DOMAIN fate' = DOMAIN fate \cup {m} /\ m \notin DOMAIN fate
        /\ fate'[m] = "waiting" /\ home'[m] = c
        /\ Lies(outbox, "waiting", fate', home') /\ Lies(up, "written", fate', home')
        /\ \A k \in DOMAIN fate : fate'[k] = "waiting" <=> fate[k] = "waiting"
        /\ heard' = heard => Taken'
    BY <1>3, <1>9, <2>1, TypedForgetting
  <2>3. e \in Entries /\ e.kind = "prompt" /\ e.name = Pending(c) /\ e.msg = m
    BY <1>3, <2>2, OutboxBounds DEF Entries, PromptTo, Messages
  <2>4. outbox \in Seq(Entries) /\ Queue(outbox) /\ Len(outbox) \in Nat
    BY <1>1, Basics DEF PhoneShapes
  <2>5. one \in Seq(Entries) /\ Range(one) = Range(outbox) \cup {StartOf(c)} /\ Len(one) = Len(outbox) + 1
    BY <1>7, <2>4, Adds
  <2>6. Lies(one, "waiting", fate', home')
    BY <1>7, <2>2, <2>4, LiesAdds
  <2>7. outbox' = Append(one, e)
    BY <1>7, <1>9, <2>3, <2>4, Twice
  <2>8. \A y \in Range(one) : y.kind = "prompt" => y.msg # m
    <3>1. \A y \in Range(outbox) : y.kind = "prompt" => y.msg # m
      BY <1>1, <2>2 DEF MessageInv, Lies
    <3> QED
      BY <1>7, <2>5, <3>1
  <2> HIDE DEF one, e
  <2>9. /\ outbox' \in Seq(Entries) /\ Range(outbox') = Range(outbox) \cup {StartOf(c), e}
        /\ Len(outbox') = Len(outbox) + 2
    <3>1. /\ outbox' \in Seq(Entries) /\ Range(outbox') = Range(one) \cup {e}
          /\ Len(outbox') = Len(one) + 1
      BY <2>3, <2>5, <2>7, Adds
    <3> QED
      BY <2>4, <2>5, <3>1
  <2>10. Lies(outbox', "waiting", fate', home')
    BY <1>3, <2>2, <2>3, <2>5, <2>6, <2>7, <2>8, LiesAdds
  <2>11. Waits(outbox', fate')
    <3> SUFFICES ASSUME NEW k \in DOMAIN fate', fate'[k] = "waiting"
                 PROVE  \E x \in Range(outbox') : x.kind = "prompt" /\ x.msg = k
      BY DEF Waits
    <3>1. CASE k = m
      BY <2>3, <2>9, <3>1
    <3>2. CASE k # m
      <4>1. k \in DOMAIN fate /\ fate[k] = "waiting"
        BY <2>2, <3>2
      <4> QED
        BY <1>1, <2>9, <4>1 DEF MessageInv, Waits
    <3> QED
      BY <3>1, <3>2
  <2>12. PhoneShapes'
    <3>1. Queue(outbox')
      BY <1>3, <1>7, <2>3, <2>4, <2>9 DEF Queue
    <3>2. Len(outbox') <= MaxQueued
      BY <1>9, <2>9
    <3>3. slot' \in 0 .. MaxMessages
      BY <1>9, OutboxBounds
    <3> QED
      BY <1>1, <1>2, <1>3, <1>9, <3>1, <3>2, <3>3 DEF PhoneShapes
  <2>13. LineShapes' /\ HistoryShapes'
    BY <1>1, <1>2, <1>9, <2>2 DEF LineShapes, HistoryShapes
  <2>14. MessageInv'
    BY <1>9, <2>2, <2>10, <2>11 DEF MessageInv
  <2>15. SlotInv'
    BY <1>1, <1>2, <1>9 DEF SlotInv
  <2>16. RowsInv'
    <3>1. \A x \in Range(outbox) : /\ \E r \in rows' : r.chat = x.name.chat
                                   /\ ~IsPending(x.name) => Rowed(x.name.chat)'
      BY <1>1, <1>9 DEF RowsInv, Rowed
    <3>2. Pending(c) \in rows' /\ Pending(c).chat = c /\ IsPending(Pending(c))
      BY <1>3, <1>9
    <3>3. \A x \in Range(outbox') : /\ \E r \in rows' : r.chat = x.name.chat
                                    /\ ~IsPending(x.name) => Rowed(x.name.chat)'
      BY <1>7, <2>3, <2>9, <3>1, <3>2
    <3> QED
      BY <1>2, <1>5, <3>3 DEF RowsInv
  <2> QED
    BY <1>4, <2>12, <2>13, <2>14, <2>15, <2>16 DEF MailInv, Shapes
<1>10. CASE /\ ws # "up" /\ Len(outbox) + 2 > MaxQueued
            /\ slot' = 0 /\ fate' = Forget(fate)
            /\ UNCHANGED <<outbox, home, rows, restoring, awaiting, up>>
  <2>1. Alike(fate')
    <3>1. "forgotten" \in Fates \ {"waiting", "written", "heard"}
      BY DEF Fates
    <3> QED
      BY <1>10, <3>1, SlotGone DEF Forget
  <2>2. MessageInv'
    BY <1>10, <2>1, AlikeKeeps, AlikeTaken DEF MessageInv
  <2>3. PhoneShapes'
    BY <1>1, <1>2, <1>3, <1>10, OutboxBounds DEF PhoneShapes
  <2>4. LineShapes' /\ HistoryShapes'
    BY <1>1, <1>2, <1>10, <2>1 DEF LineShapes, HistoryShapes, Alike
  <2>5. SlotInv' /\ RowsInv'
    BY <1>1, <1>2, <1>10 DEF SlotInv, RowsInv, Rowed
  <2> QED
    BY <1>4, <2>2, <2>3, <2>4, <2>5 DEF MailInv, Shapes
<1> QED
  BY <1>8, <1>9, <1>10 DEF Begin, c

LEMMA StartKeeps ==
  ASSUME MailInv, NEW p \in Providers, Start(p)
  PROVE  MailInv'
<1>1. /\ screen = NoName /\ Len(fate) < MaxMessages
      /\ UNCHANGED <<down, daemonVars, heard, budget>>
  BY DEF Start
<1>2. CASE StartsFor(p) # << >>
  <2> DEFINE S == {e \in Range(outbox) : e.kind = "start" /\ agent[e.name.chat] = p}
             n == Head(StartsFor(p)).name
  <2>1. Deliver(Len(fate) + 1, n)
    BY <1>2 DEF Start
  <2>2. outbox \in Seq(Entries) /\ Range(outbox) = ToSet(outbox) /\ Queue(outbox)
    BY Basics, RangeOf DEF MailInv, Shapes, PhoneShapes
  <2>3. StartsFor(p) = Keep(outbox, S)
    BY DEF StartsFor
  <2>4. StartsFor(p) \in Seq(Entries) /\ ToSet(StartsFor(p)) \subseteq S
    <3> HIDE DEF S
    <3> QED
      BY <2>2, <2>3, KeepPicks, KeepElements
  <2>5. Head(StartsFor(p)) \in ToSet(StartsFor(p))
    BY <1>2, <2>4 DEF ToSet
  <2>6. PICK e \in Range(outbox) : e.kind = "start" /\ n = e.name
    BY <2>4, <2>5
  <2>7. e \in Entries /\ IsPending(n) /\ n \in Names
    <3>1. e \in Entries
      BY <2>2, <2>6, RangeOf
    <3> HIDE DEF n
    <3> QED
      BY <2>2, <2>6, <3>1 DEF Queue, Entries
  <2>8. \E r \in rows : r.chat = n.chat
    BY <2>6 DEF MailInv, RowsInv
  <2> HIDE DEF n
  <2> QED
    BY <1>1, <2>1, <2>7, <2>8, DeliverKeeps
<1>3. CASE StartsFor(p) = << >>
  <2>1. Begin(p, Len(fate) + 1)
    BY <1>3 DEF Start
  <2> QED
    BY <1>1, <2>1, BeginKeeps
<1> QED
  BY <1>2, <1>3

LEMMA PromptKeeps ==
  ASSUME MailInv, NEW n \in rows \cup {sessionRef}, Prompt(n)
  PROVE  MailInv'
<1>1. /\ Len(fate) < MaxMessages /\ n # NoName
      /\ n = sessionRef \/ (n \in rows /\ ~IsPending(n))
      /\ Deliver(Len(fate) + 1, n)
      /\ UNCHANGED <<down, daemonVars, heard, budget>>
  BY DEF Prompt
<1>2. n \in Names
  BY <1>1 DEF MailInv, Shapes, PhoneShapes
<1>3. Rowed(n.chat)
  BY <1>1, <1>2 DEF MailInv, RowsInv, Rowed
<1>4. \E r \in rows : r.chat = n.chat
  BY <1>3 DEF Rowed
<1> QED
  BY <1>1, <1>2, <1>3, <1>4, DeliverKeeps

-----------------------------------------------------------------------------
(***************************************************************************)
(* What the socket does.                                                   *)
(***************************************************************************)

LEMMA OpensKeeps ==
  ASSUME MailInv, Opens
  PROVE  MailInv'
<1>1. /\ PhoneShapes /\ LineShapes /\ DaemonShapes /\ HistoryShapes /\ MessageInv /\ SlotInv /\ RowsInv
  BY DEF MailInv, Shapes
<1>2. /\ ws' = "up" /\ pendingStart' = NoName /\ awaiting' = FALSE
      /\ rows' = {n \in rows : IsPending(n) => n \in QueuedPending(outbox)}
      /\ up' = <<Hello>>
      /\ UNCHANGED <<outbox, slot, sessionRef, screen, viewing, restoring, live, down,
                     daemonVars, agent, fate, history, budget>>
  BY DEF Opens
<1>3. /\ Hello = [kind |-> "hello", name |-> NoName, msg |-> 0] /\ Hello \in Frames
      /\ Writable(Hello) /\ Hello.kind = "hello"
  BY OutboxBounds DEF Hello, Frames, Writable
<1>4. up' \in Seq(Frames) /\ DOMAIN up' = {1} /\ up'[1] = Hello
  BY <1>2, <1>3
<1>5. Range(up') = {Hello} /\ Writes(up')
  BY <1>3, <1>4 DEF Range, Writes
<1>6. Lies(up', "written", fate, home)
  BY <1>3, <1>4, <1>5 DEF Lies, Apart
<1>7. MessageInv'
  BY <1>1, <1>2, <1>6 DEF MessageInv, Taken, history
<1>8. PhoneShapes' /\ LineShapes' /\ DaemonShapes' /\ HistoryShapes'
  <2>1. PhoneShapes'
    BY <1>1, <1>2 DEF PhoneShapes
  <2>2. LineShapes' /\ DaemonShapes' /\ HistoryShapes'
    BY <1>1, <1>2, <1>5 DEF LineShapes, DaemonShapes, HistoryShapes, daemonVars, history
  <2> QED
    BY <2>1, <2>2
<1>9. SlotInv'
  BY <1>1, <1>2 DEF SlotInv, history
<1>10. RowsInv'
  <2>1. \A c : Rowed(c) => Rowed(c)'
    BY <1>2 DEF Rowed
  <2>2. ASSUME NEW e \in Range(outbox) PROVE \E n \in rows' : n.chat = e.name.chat
    <3>1. CASE ~IsPending(e.name)
      BY <1>1, <2>1, <3>1 DEF RowsInv, Rowed
    <3>2. CASE IsPending(e.name)
      <4>1. e.name \in QueuedPending(outbox)
        BY <3>2 DEF QueuedPending
      <4>2. PICK n \in rows : n.chat = e.name.chat
        BY <1>1 DEF RowsInv
      <4>3. CASE ~IsPending(n)
        BY <1>2, <4>2, <4>3
      <4>4. CASE IsPending(n)
        <5>1. e.name \in Names /\ n \in Names
          <6>1. e \in Entries
            BY <1>1, RangeOf DEF PhoneShapes, Queue
          <6> QED
            BY <1>1, <6>1 DEF PhoneShapes, Entries
        <5>2. n = e.name
          BY <3>2, <4>2, <4>4, <5>1, Basics
        <5> QED
          BY <1>2, <4>1, <4>2, <5>2
      <4> QED
        BY <4>3, <4>4
    <3> QED
      BY <3>1, <3>2
  <2> QED
    BY <1>1, <1>2, <2>1, <2>2 DEF RowsInv
<1> QED
  BY <1>7, <1>8, <1>9, <1>10 DEF MailInv, Shapes

\* Messages that were in flight meet another fate.
LEMMA FlownOff ==
  ASSUME MailInv, NEW S, NEW how \in Fates \ {"waiting"},
         \A m \in S \cap DOMAIN fate : fate[m] = "written",
         fate' = Mark(fate, S, how), home' = home
  PROVE  /\ fate' \in Seq(Fates) /\ Len(fate') = Len(fate) /\ DOMAIN fate' = DOMAIN fate
         /\ \A m \in DOMAIN fate : fate'[m] = IF m \in S THEN how ELSE fate[m]
         /\ \A m \in DOMAIN fate : fate[m] # "written" => fate'[m] = fate[m]
         /\ Lies(outbox, "waiting", fate', home') /\ Waits(outbox, fate')
         /\ SlotInv => (slot # 0 => slot \in DOMAIN fate' /\ fate'[slot] = "slot")
<1>1. /\ fate' \in Seq(Fates) /\ Len(fate') = Len(fate) /\ DOMAIN fate' = DOMAIN fate
      /\ \A m \in DOMAIN fate : fate'[m] = IF m \in S THEN how ELSE fate[m]
  BY MarkKeeps, Basics
<1>2. \A m \in DOMAIN fate : fate[m] # "written" => fate'[m] = fate[m]
  BY <1>1
<1>3. Lies(outbox, "waiting", fate', home')
  <2>1. Lies(outbox, "waiting", fate, home)
    BY DEF MailInv, MessageInv
  <2>2. \A x \in Range(outbox) : x.kind = "prompt" =>
          x.msg \in DOMAIN fate' /\ fate'[x.msg] = fate[x.msg] /\ home'[x.msg] = home[x.msg]
    BY <1>1, <1>2, <2>1 DEF Lies
  <2> QED
    BY <2>1, <2>2, LiesStill
<1>4. Waits(outbox, fate')
  BY <1>1 DEF MailInv, MessageInv, Waits
<1>5. SlotInv => (slot # 0 => slot \in DOMAIN fate' /\ fate'[slot] = "slot")
  BY <1>1, <1>2 DEF SlotInv
<1> QED
  BY <1>1, <1>2, <1>3, <1>4, <1>5

LEMMA LosesKeeps ==
  ASSUME MailInv, Loses, budget' \in Budgets, minted' = minted, heard' = heard,
         sessions' \subseteq sessions, opening' \subseteq sessions'
  PROVE  MailInv'
<1>1. /\ PhoneShapes /\ LineShapes /\ DaemonShapes /\ HistoryShapes /\ MessageInv /\ SlotInv /\ RowsInv
  BY DEF MailInv, Shapes
<1>2. /\ ws' = "down" /\ up' = << >> /\ down' = << >>
      /\ fate' = Mark(fate, {f.msg : f \in Range(up)}, "lost")
      /\ UNCHANGED <<outbox, pendingStart, slot, screenVars, live, rows, agent, history>>
  BY DEF Loses
<1> DEFINE S == {f.msg : f \in Range(up)}
<1>3. \A m \in S \cap DOMAIN fate : fate[m] = "written"
  <2> SUFFICES ASSUME NEW x \in Range(up), x.msg \in DOMAIN fate PROVE fate[x.msg] = "written"
    OBVIOUS
  <2>1. x \in Frames /\ Writable(x)
    BY <1>1, RangeOf DEF LineShapes, Writes
  <2>2. x.kind = "prompt"
    BY <2>1, Basics DEF Frames, Writable
  <2> QED
    BY <1>1, <2>2 DEF MessageInv, Lies
<1> HIDE DEF S
<1>4. "lost" \in Fates \ {"waiting"} /\ fate' = Mark(fate, S, "lost") /\ home' = home
  BY <1>2 DEF Fates, S, history
<1>5. /\ fate' \in Seq(Fates) /\ Len(fate') = Len(fate) /\ DOMAIN fate' = DOMAIN fate
      /\ \A m \in DOMAIN fate : fate[m] # "written" => fate'[m] = fate[m]
      /\ Lies(outbox, "waiting", fate', home') /\ Waits(outbox, fate')
      /\ slot # 0 => slot \in DOMAIN fate' /\ fate'[slot] = "slot"
  BY <1>1, <1>3, <1>4, FlownOff
<1>6. MessageInv'
  <2>1. Taken'
    BY <1>1, <1>2, <1>5, TakenStill DEF MessageInv, history
  <2>2. Lies(up', "written", fate', home')
    <3>1. DOMAIN up' = {} /\ Range(up') = {}
      BY <1>2 DEF Range
    <3> QED
      BY <3>1 DEF Lies, Apart
  <2> QED
    BY <1>2, <1>5, <2>1, <2>2 DEF MessageInv
<1>7. PhoneShapes' /\ LineShapes' /\ DaemonShapes' /\ HistoryShapes'
  <2>1. PhoneShapes'
    BY <1>1, <1>2 DEF PhoneShapes, screenVars
  <2>2. LineShapes'
    BY <1>2 DEF LineShapes, Writes, Tells, Range
  <2>3. DaemonShapes'
    BY <1>1, <1>2 DEF DaemonShapes
  <2>4. HistoryShapes'
    BY <1>1, <1>2, <1>5 DEF HistoryShapes, history
  <2> QED
    BY <2>1, <2>2, <2>3, <2>4
<1>8. SlotInv' /\ RowsInv'
  BY <1>1, <1>2, <1>5 DEF SlotInv, RowsInv, Rowed, screenVars, history
<1> QED
  BY <1>6, <1>7, <1>8 DEF MailInv, Shapes

LEMMA DropKeeps ==
  ASSUME MailInv, Drop
  PROVE  MailInv'
<1>1. Loses /\ UNCHANGED daemonVars /\ (Spend("drops") \/ UNCHANGED budget)
  BY DEF Drop
<1>2. budget \in Budgets /\ opening \subseteq sessions
  BY DEF MailInv, Shapes, DaemonShapes
<1>3. budget' \in Budgets
  BY <1>1, <1>2, SpendKeeps
<1>4. minted' = minted /\ sessions' = sessions /\ opening' = opening /\ heard' = heard
  BY <1>1 DEF daemonVars, Loses, history
<1> QED
  BY <1>1, <1>2, <1>3, <1>4, LosesKeeps

LEMMA RestartKeeps ==
  ASSUME MailInv, Restart
  PROVE  MailInv'
<1>1. Loses /\ Spend("upsets") /\ sessions' = {} /\ opening' = {} /\ minted' = minted /\ heard' = heard
  BY DEF Restart, Loses, history
<1>2. budget' \in Budgets
  BY <1>1, SpendKeeps DEF MailInv, Shapes, DaemonShapes
<1> QED
  BY <1>1, <1>2, LosesKeeps

-----------------------------------------------------------------------------
(***************************************************************************)
(* What the phone receives.                                                *)
(***************************************************************************)

LEMMA HeadTold ==
  ASSUME LineShapes, down # << >>
  PROVE  /\ Head(down) \in Answers /\ Tells(Tail(down))
         /\ Head(down).kind = "started" => Head(down).name \in Names /\ ~IsPending(Head(down).name)
<1>1. down \in Seq(Answers)
  BY DEF LineShapes, Tells
<1>2. Tail(down) \in Seq(Answers) /\ Range(Tail(down)) \subseteq Range(down) /\ Head(down) \in Range(down)
  BY <1>1, LiesTail
<1>3. Head(down) \in Answers
  BY <1>1, <1>2, RangeOf
<1> QED
  BY <1>2, <1>3 DEF LineShapes, Tells

\* A frame without a message, written ahead of a flush.
LEMMA Ahead ==
  ASSUME MailInv, NEW before \in Seq(Frames),
         \A x \in Range(before) : Writable(x) /\ x.kind # "prompt"
  PROVE  Writes(up \o before) /\ Lies(up \o before, "written", fate, home)
<1>1. /\ up \in Seq(Frames) /\ Writes(up) /\ Lies(up, "written", fate, home)
  BY DEF MailInv, Shapes, LineShapes, Writes, MessageInv
<1>2. up \o before \in Seq(Frames) /\ Range(up \o before) = Range(up) \cup Range(before)
  BY <1>1, Joined2
<1>3. Writes(up \o before)
  BY <1>1, <1>2 DEF Writes
<1>4. Lies(before, "written", fate, home) /\ Disjoint(up, before)
  BY DEF Lies, Apart, Disjoint, Range
<1> QED
  BY <1>1, <1>3, <1>4, LiesJoined

\* What a handler owes beside its flush.
LEMMA AfterFlush ==
  ASSUME MailInv, NEW o, NEW f \in Seq(Fates), Len(f) = Len(fate), DOMAIN f = DOMAIN fate,
         \A m \in DOMAIN fate : fate[m] = "heard" => f[m] = "heard",
         Flushed(o, f, home),
         UNCHANGED <<daemonVars, agent, home, heard>>, Tells(down'),
         slot' \in 0 .. MaxMessages, live' \subseteq Names, rows' \subseteq Names, awaiting' \in BOOLEAN,
         {sessionRef', screen', viewing', restoring'} \subseteq Names \cup {NoName}
  PROVE  Shapes' /\ MessageInv'
<1>1. /\ PhoneShapes /\ LineShapes /\ DaemonShapes /\ HistoryShapes /\ MessageInv
  BY DEF MailInv, Shapes
<1>2. PhoneShapes'
  BY DEF PhoneShapes, Flushed
<1>3. LineShapes'
  BY DEF LineShapes, Flushed
<1>4. DaemonShapes'
  BY <1>1 DEF DaemonShapes, Flushed, daemonVars
<1>5. HistoryShapes'
  <2>1. overtakers' \subseteq Messages
    BY <1>1 DEF HistoryShapes, Flushed
  <2> QED
    BY <1>1, <2>1 DEF HistoryShapes, Flushed
<1>6. Taken'
  <2>1. \A m \in DOMAIN fate : fate[m] = "heard" =>
          m \in DOMAIN fate' /\ fate'[m] = "heard" /\ home'[m] = home[m]
    BY DEF Flushed
  <2> QED
    BY <1>1, <2>1, TakenStill DEF MessageInv
<1>7. MessageInv'
  BY <1>6 DEF MessageInv, Flushed
<1> QED
  BY <1>2, <1>3, <1>4, <1>5, <1>7 DEF Shapes

\* Messages that were held, in the queue or for a start, are written.
SentOnly == /\ DOMAIN fate' = DOMAIN fate
            /\ \A m \in DOMAIN fate :
                 fate'[m] = fate[m] \/ (fate[m] \in {"waiting", "slot"} /\ fate'[m] = "written")

\* The providers frame.
LEMMA AnnouncedKeeps ==
  ASSUME MailInv, Announced
  PROVE  MailInv' /\ SentOnly
<1> DEFINE frame == Head(down)
           stale == IF sessionRef # NoName
                    THEN IF sessionRef \in rows \ frame.live THEN sessionRef ELSE NoName
                    ELSE IF restoring = viewing THEN restoring ELSE NoName
           again == stale # NoName /\ Resumable(stale)
           before == IF again THEN <<Resume(stale)>> ELSE << >>
<1>1. /\ PhoneShapes /\ LineShapes /\ DaemonShapes /\ HistoryShapes /\ MessageInv /\ SlotInv /\ RowsInv
  BY DEF MailInv, Shapes
<1>2. /\ ws = "up" /\ down # << >> /\ down' = Tail(down) /\ live' = frame.live
      /\ IF again THEN restoring' = stale /\ sessionRef' = NoName /\ awaiting' = TRUE
                  ELSE UNCHANGED <<restoring, sessionRef, awaiting>>
      /\ Flush(outbox, pendingStart, live', fate, before)
      /\ UNCHANGED <<slot, screen, viewing, rows, daemonVars, agent, home, heard>>
  BY DEF Announced
<1>3. frame \in Answers /\ Tells(Tail(down))
  BY <1>1, <1>2, HeadTold
<1>4. frame.live \subseteq Names
  BY <1>3 DEF Answers
<1> HIDE DEF frame
<1>5. stale \in Names \cup {NoName} /\ (slot # 0 => stale = NoName)
  <2>1. stale \in Names \cup {NoName}
    BY <1>1 DEF PhoneShapes
  <2>2. slot # 0 => stale = NoName
    BY <1>1 DEF SlotInv
  <2> QED
    BY <2>1, <2>2
<1> HIDE DEF stale
<1>6. again => stale \in Names /\ ~IsPending(stale)
  BY <1>5 DEF Resumable
<1>7. /\ before \in Seq(Frames)
      /\ \A x \in Range(before) : Writable(x) /\ x.kind # "prompt"
  <2>1. CASE again
    <3>1. /\ Resume(stale) = [kind |-> "resume", name |-> stale, msg |-> 0]
      BY DEF Resume
    <3>2. /\ Resume(stale) \in Frames /\ Writable(Resume(stale)) /\ Resume(stale).kind # "prompt"
      BY <1>6, <2>1, <3>1, OutboxBounds DEF Frames, Writable
    <3>3. before = <<Resume(stale)>>
      BY <2>1
    <3> HIDE DEF before
    <3>4. before \in Seq(Frames) /\ DOMAIN before = {1} /\ before[1] = Resume(stale)
      BY <3>2, <3>3
    <3> QED
      BY <3>2, <3>4 DEF Range
  <2>2. CASE ~again
    <3>1. before = << >>
      BY <2>2
    <3> HIDE DEF before
    <3>2. before \in Seq(Frames) /\ DOMAIN before = {}
      BY <3>1
    <3> QED
      BY <3>2 DEF Range
  <2> QED
    BY <2>1, <2>2
<1> HIDE DEF before
<1>8. Writes(up \o before) /\ Lies(up \o before, "written", fate, home)
  BY <1>7, Ahead
<1>9. Flushable(outbox, pendingStart, fate, home, before)
  BY <1>1, <1>2, <1>7, <1>8, Basics DEF Flushable, PhoneShapes, DaemonShapes, MessageInv
<1>10. Flushed(outbox, fate, home)
  BY <1>2, <1>9, FlushKeeps
<1>11. /\ awaiting' \in BOOLEAN /\ slot' \in 0 .. MaxMessages /\ rows' \subseteq Names
       /\ {sessionRef', screen', viewing', restoring'} \subseteq Names \cup {NoName}
  <2>1. awaiting \in BOOLEAN /\ {sessionRef, screen, viewing, restoring} \subseteq Names \cup {NoName}
        /\ slot \in 0 .. MaxMessages /\ rows \subseteq Names
    BY <1>1 DEF PhoneShapes
  <2> HIDE DEF again
  <2> QED
    BY <1>2, <1>5, <2>1
<1>12. fate \in Seq(Fates) /\ Tells(down') /\ live' \subseteq Names
       /\ UNCHANGED <<daemonVars, agent, home, heard>>
  BY <1>2, <1>3, <1>4, Basics
<1>13. Shapes' /\ MessageInv'
  BY <1>10, <1>11, <1>12, AfterFlush
<1>14. SlotInv'
  <2>1. sessionRef' \in {NoName, screen'}
    BY <1>1, <1>2 DEF SlotInv
  <2>2. ASSUME slot # 0
        PROVE  /\ slot \in DOMAIN fate' /\ fate'[slot] = "slot" /\ viewing = Pending(home[slot])
               /\ sessionRef' = NoName /\ restoring' = NoName
    <3>1. slot \in DOMAIN fate /\ fate[slot] = "slot" /\ viewing = Pending(home[slot])
          /\ sessionRef = NoName /\ restoring = NoName
      BY <1>1, <2>2 DEF SlotInv
    <3>2. slot \in DOMAIN fate' /\ fate'[slot] = "slot"
      BY <1>10, <3>1 DEF Flushed
    <3> QED
      BY <1>2, <1>5, <2>2, <3>1, <3>2
  <2>3. slot' = slot /\ viewing' = viewing /\ home' = home
    BY <1>2
  <2> QED
    BY <2>1, <2>2, <2>3 DEF SlotInv
<1>15. RowsInv'
  <2>1. Range(outbox') \subseteq Range(outbox) /\ rows' = rows /\ sessionRef' \in {NoName, sessionRef}
    BY <1>2, <1>10 DEF Flushed
  <2> QED
    BY <1>1, <2>1 DEF RowsInv, Rowed
<1>16. SentOnly
  BY <1>10 DEF SentOnly, Flushed
<1> QED
  BY <1>13, <1>14, <1>15, <1>16 DEF MailInv

\* A queue whose entries were re-addressed within their conversation.
LEMMA RemapKeeps ==
  ASSUME NEW o, Queue(o), NEW from, NEW to \in Names, \A n \in from : n.chat = to.chat
  PROVE  LET r == Remap(o, from, to)
         IN  /\ Queue(r) /\ Len(r) = Len(o) /\ DOMAIN r = DOMAIN o
             /\ \A i \in DOMAIN o : /\ r[i].kind = o[i].kind /\ r[i].msg = o[i].msg
                                    /\ r[i].name.chat = o[i].name.chat
                                    /\ r[i].name = o[i].name \/ r[i].name = to
<1> DEFINE r == Remap(o, from, to)
           new(i) == IF o[i].kind = "prompt" /\ o[i].name \in from
                     THEN [o[i] EXCEPT !.name = to] ELSE o[i]
<1>1. o \in Seq(Entries) /\ DOMAIN o = 1..Len(o) /\ Len(o) \in Nat /\ \A i \in DOMAIN o : o[i] \in Entries
  BY DEF Queue
<1>2. \A i \in DOMAIN o : /\ new(i) \in Entries /\ new(i).kind = o[i].kind /\ new(i).msg = o[i].msg
                          /\ new(i).name.chat = o[i].name.chat
                          /\ new(i).name = o[i].name \/ (new(i).name = to /\ o[i].kind = "prompt")
  <2> SUFFICES ASSUME NEW i \in DOMAIN o
               PROVE  /\ new(i) \in Entries /\ new(i).kind = o[i].kind /\ new(i).msg = o[i].msg
                      /\ new(i).name.chat = o[i].name.chat
                      /\ new(i).name = o[i].name \/ (new(i).name = to /\ o[i].kind = "prompt")
    OBVIOUS
  <2>1. o[i] \in Entries
    BY <1>1
  <2>2. CASE o[i].kind = "prompt" /\ o[i].name \in from
    <3>1. new(i) = [o[i] EXCEPT !.name = to]
      BY <2>2
    <3>2. o[i].name.chat = to.chat
      BY <2>2
    <3> HIDE DEF new
    <3> QED
      BY <2>1, <2>2, <3>1, <3>2 DEF Entries
  <2>3. CASE ~(o[i].kind = "prompt" /\ o[i].name \in from)
    BY <2>1, <2>3
  <2> QED
    BY <2>2, <2>3
<1>3. r = [i \in 1..Len(o) |-> new(i)]
  BY <1>1 DEF Remap
<1> HIDE DEF new
<1>4. r \in Seq(Entries) /\ Len(r) = Len(o) /\ DOMAIN r = DOMAIN o /\ \A i \in DOMAIN o : r[i] = new(i)
  BY <1>1, <1>2, <1>3
<1> HIDE DEF r
<1>5. \A e \in Range(r) : e.kind = "start" => IsPending(e.name) /\ e.msg = 0
  <2> SUFFICES ASSUME NEW i \in DOMAIN o, r[i].kind = "start" PROVE IsPending(r[i].name) /\ r[i].msg = 0
    BY <1>4 DEF Range
  <2>1. o[i].kind = "start" /\ r[i].name = o[i].name /\ r[i].msg = o[i].msg
    BY <1>2, <1>4
  <2> QED
    BY <2>1 DEF Queue, Range
<1>6. Queue(r)
  BY <1>4, <1>5 DEF Queue
<1> QED
  BY <1>2, <1>4, <1>6 DEF r

LEMMA RemapLies ==
  ASSUME NEW o, NEW r, DOMAIN r = DOMAIN o,
         \A i \in DOMAIN o : /\ r[i].kind = o[i].kind /\ r[i].msg = o[i].msg
                             /\ r[i].name.chat = o[i].name.chat,
         NEW how, NEW f, NEW h, Lies(o, how, f, h), Waits(o, f)
  PROVE  Lies(r, how, f, h) /\ Waits(r, f)
<1>1. Apart(r)
  BY DEF Lies, Apart
<1>2. \A x \in Range(r) : x.kind = "prompt" => x.msg \in DOMAIN f /\ f[x.msg] = how /\ h[x.msg] = x.name.chat
  BY DEF Lies, Range
<1>3. Waits(r, f)
  <2> SUFFICES ASSUME NEW m \in DOMAIN f, f[m] = "waiting"
               PROVE  \E x \in Range(r) : x.kind = "prompt" /\ x.msg = m
    BY DEF Waits
  <2>1. PICK i \in DOMAIN o : o[i].kind = "prompt" /\ o[i].msg = m
    BY DEF Waits, Range
  <2> QED
    BY <2>1 DEF Range
<1> QED
  BY <1>1, <1>2, <1>3 DEF Lies

\* session.started.
LEMMA NamedKeeps ==
  ASSUME MailInv, Named
  PROVE  MailInv' /\ SentOnly
<1> DEFINE f == Head(down)
           adopted == f.asked /\ pendingStart = Pending(f.name.chat)
           reopened == f.resumed /\ awaiting /\ restoring # NoName /\ restoring.chat = f.name.chat
           claims == Claims(f, adopted, reopened)
           sends == claims /\ slot # 0
           gone == Renamed(f, adopted)
           o == Remap(outbox, gone, f.name)
           ps == IF adopted THEN NoName ELSE pendingStart
           g == IF sends THEN Mark(fate, {slot}, "written") ELSE fate
           before == IF sends THEN <<PromptTo(f.name, slot)>> ELSE << >>
<1>1. /\ PhoneShapes /\ LineShapes /\ DaemonShapes /\ HistoryShapes /\ MessageInv /\ SlotInv /\ RowsInv
  BY DEF MailInv, Shapes
<1>2. /\ ws = "up" /\ down # << >> /\ f.kind = "started" /\ down' = Tail(down)
      /\ (IF reopened THEN awaiting' = FALSE /\ restoring' = NoName ELSE UNCHANGED <<awaiting, restoring>>)
      /\ (IF claims THEN sessionRef' = f.name /\ screen' = f.name /\ viewing' = f.name
                    ELSE UNCHANGED <<sessionRef, screen, viewing>>)
      /\ slot' = (IF sends THEN 0 ELSE slot)
      /\ live' = live \cup {f.name}
      /\ rows' = (rows \ gone) \cup {f.name}
      /\ Flush(o, ps, live', g, before)
      /\ UNCHANGED <<daemonVars, agent, home, heard>>
  BY DEF Named
<1>3. f \in Answers /\ Tells(Tail(down)) /\ f.name \in Names /\ ~IsPending(f.name)
  BY <1>1, <1>2, HeadTold
<1>4. \A n \in gone : n.chat = f.name.chat
  BY DEF Renamed, Pending
<1>5. slot # 0 /\ claims => home[slot] = f.name.chat
  <2> SUFFICES ASSUME slot # 0, claims PROVE home[slot] = f.name.chat
    OBVIOUS
  <2>1. slot \in DOMAIN fate /\ viewing = Pending(home[slot]) /\ restoring = NoName
    BY <1>1 DEF SlotInv
  <2>2. home[slot] \in Chats /\ viewing \in Names /\ viewing # NoName
    BY <2>1, Basics
  <2>3. viewing = Pending(f.name.chat)
    BY <2>1, <2>2 DEF Claims
  <2> QED
    BY <2>1, <2>3 DEF Pending
<1> HIDE DEF f, adopted, reopened, claims, gone
<1>6. Queue(o) /\ Len(o) = Len(outbox) /\ DOMAIN o = DOMAIN outbox
      /\ \A i \in DOMAIN outbox : /\ o[i].kind = outbox[i].kind /\ o[i].msg = outbox[i].msg
                                  /\ o[i].name.chat = outbox[i].name.chat
                                  /\ o[i].name = outbox[i].name \/ o[i].name = f.name
  BY <1>1, <1>3, <1>4, RemapKeeps DEF PhoneShapes
<1>7. Lies(o, "waiting", fate, home) /\ Waits(o, fate)
  <2> HIDE DEF o
  <2>1. Lies(outbox, "waiting", fate, home) /\ Waits(outbox, fate)
    BY <1>1 DEF MessageInv
  <2> QED
    BY <1>6, <2>1, RemapLies
<1> HIDE DEF o
<1>8. /\ g \in Seq(Fates) /\ Len(g) = Len(fate) /\ DOMAIN g = DOMAIN fate
      /\ \A m \in DOMAIN fate : g[m] = IF sends /\ m = slot THEN "written" ELSE fate[m]
  <2>1. CASE sends
    <3>1. "written" \in Fates /\ g = Mark(fate, {slot}, "written") /\ fate \in Seq(Fates)
      BY <2>1, Basics DEF Fates
    <3> HIDE DEF g, sends
    <3> QED
      BY <2>1, <3>1, MarkKeeps
  <2>2. CASE ~sends
    <3>1. g = fate
      BY <2>2
    <3> HIDE DEF g, sends
    <3> QED
      BY <2>2, <3>1, Basics
  <2> QED
    BY <2>1, <2>2
<1>9. sends => /\ slot \in DOMAIN fate /\ fate[slot] = "slot" /\ home[slot] = f.name.chat
  BY <1>1, <1>5 DEF SlotInv
<1> HIDE DEF g, before
<1>10. Lies(o, "waiting", g, home) /\ Waits(o, g)
  <2>1. \A x \in Range(o) : x.kind = "prompt" =>
          x.msg \in DOMAIN g /\ g[x.msg] = fate[x.msg] /\ home[x.msg] = home[x.msg]
    BY <1>7, <1>8, <1>9 DEF Lies
  <2>2. Waits(o, g)
    <3>1. \A m \in DOMAIN g : g[m] = "waiting" => m \in DOMAIN fate /\ fate[m] = "waiting"
      BY <1>8
    <3> QED
      BY <1>7, <3>1 DEF Waits
  <2> QED
    BY <1>7, <2>1, <2>2, LiesStill
<1>11. /\ before \in Seq(Frames) /\ Writes(up \o before) /\ Lies(up \o before, "written", g, home)
  <2>1. CASE ~sends
    <3>1. before = << >> /\ g = fate
      BY <2>1 DEF before, g
    <3>2. before \in Seq(Frames) /\ DOMAIN before = {}
      BY <3>1
    <3>3. \A x \in Range(before) : Writable(x) /\ x.kind # "prompt"
      BY <3>2 DEF Range
    <3> QED
      BY <3>1, <3>2, <3>3, Ahead
  <2>2. CASE sends
    <3> DEFINE e == PromptTo(f.name, slot)
    <3>1. before = <<e>>
      BY <2>2 DEF before
    <3>2. e \in Frames /\ Writable(e) /\ e.kind = "prompt" /\ e.msg = slot /\ e.name = f.name
      BY <1>1, <1>3 DEF PromptTo, Frames, Writable, PhoneShapes
    <3> HIDE DEF e
    <3>3. up \in Seq(Frames) /\ Writes(up) /\ Lies(up, "written", fate, home) /\ up \o before = Append(up, e)
      BY <1>1, <3>1 DEF LineShapes, Writes, MessageInv
    <3>4. before \in Seq(Frames)
      BY <3>1, <3>2
    <3>5. Append(up, e) \in Seq(Frames) /\ Range(Append(up, e)) = Range(up) \cup {e}
      BY <3>2, <3>3, Adds
    <3>6. Writes(up \o before)
      BY <3>2, <3>3, <3>5 DEF Writes
    <3>7. \A x \in Range(up) : x.kind = "prompt" => x.msg \in DOMAIN g /\ g[x.msg] = fate[x.msg] /\ x.msg # slot
      <4>1. \A x \in Range(up) : x.kind = "prompt" => x.msg \in DOMAIN fate /\ fate[x.msg] = "written"
        BY <3>3 DEF Lies
      <4> HIDE DEF sends
      <4> QED
        BY <1>8, <1>9, <2>2, <4>1
    <3>8. Lies(up, "written", g, home)
      BY <3>3, <3>7, LiesStill
    <3>9. slot \in DOMAIN g /\ g[slot] = "written"
      BY <1>8, <1>9, <2>2
    <3>10. Lies(Append(up, e), "written", g, home)
      BY <1>9, <2>2, <3>2, <3>3, <3>7, <3>8, <3>9, LiesAdds
    <3> QED
      BY <3>3, <3>4, <3>6, <3>10
  <2> QED
    BY <2>1, <2>2
<1>12. ps \in {NoName} \cup {Pending(c) : c \in Chats}
  BY <1>1 DEF PhoneShapes
<1> HIDE DEF ps, sends
<1>13. Flushable(o, ps, g, home, before)
  <2>1. Len(o) <= MaxQueued /\ budget \in Budgets /\ up \in Seq(Frames)
    BY <1>1, <1>6, Basics DEF PhoneShapes, DaemonShapes
  <2> QED
    BY <1>2, <1>6, <1>8, <1>10, <1>11, <1>12, <2>1 DEF Flushable
<1>14. Flushed(o, g, home)
  BY <1>2, <1>13, FlushKeeps
<1>15. /\ awaiting' \in BOOLEAN /\ slot' \in 0 .. MaxMessages /\ rows' \subseteq Names /\ live' \subseteq Names
       /\ {sessionRef', screen', viewing', restoring'} \subseteq Names \cup {NoName}
  <2>1. /\ awaiting \in BOOLEAN /\ {sessionRef, screen, viewing, restoring} \subseteq Names \cup {NoName}
        /\ slot \in 0 .. MaxMessages /\ rows \subseteq Names /\ live \subseteq Names /\ 0 \in 0 .. MaxMessages
    BY <1>1, OutboxBounds DEF PhoneShapes
  <2> QED
    BY <1>2, <1>3, <2>1
<1>16. Shapes' /\ MessageInv'
  <2>1. \A m \in DOMAIN fate : fate[m] = "heard" => g[m] = "heard"
    BY <1>8, <1>9
  <2>2. Tells(down') /\ UNCHANGED <<daemonVars, agent, home, heard>>
    BY <1>2, <1>3
  <2> QED
    BY <1>8, <1>14, <1>15, <2>1, <2>2, AfterFlush
<1>17. SlotInv'
  <2>1. sessionRef' \in {NoName, screen'}
    BY <1>1, <1>2 DEF SlotInv
  <2>2. ASSUME slot' # 0
        PROVE  /\ slot' \in DOMAIN fate' /\ fate'[slot'] = "slot" /\ viewing' = Pending(home[slot'])
               /\ sessionRef' = NoName /\ restoring' = NoName
    <3>1. slot' = slot /\ slot # 0 /\ ~sends /\ ~claims
      BY <1>2, <2>2 DEF sends
    <3>2. slot \in DOMAIN fate /\ fate[slot] = "slot" /\ viewing = Pending(home[slot])
          /\ sessionRef = NoName /\ restoring = NoName
      BY <1>1, <3>1 DEF SlotInv
    <3>3. g[slot] = "slot"
      BY <1>8, <3>1, <3>2
    <3>4. slot \in DOMAIN fate' /\ fate'[slot] = "slot"
      BY <1>8, <1>14, <3>2, <3>3 DEF Flushed
    <3> QED
      BY <1>2, <3>1, <3>2, <3>4
  <2>3. home' = home
    BY <1>2
  <2> QED
    BY <2>1, <2>2, <2>3 DEF SlotInv
<1>18. RowsInv'
  <2> DEFINE Later(c) == \E n \in rows' : n.chat = c /\ ~IsPending(n)
  <2>1. \A c : Rowed(c) => Later(c)
    BY <1>2, <1>3, <1>4 DEF Rowed
  <2>2. f.name \in rows' /\ Later(f.name.chat)
    BY <1>2, <1>3 DEF Rowed
  <2> HIDE DEF Later
  <2>3. \A n \in rows : \E r \in rows' : r.chat = n.chat
    BY <1>2, <1>4
  <2>4. \A i \in DOMAIN outbox : /\ \E r \in rows' : r.chat = outbox[i].name.chat
                                 /\ ~IsPending(outbox[i].name) => Later(outbox[i].name.chat)
    BY <1>1, <2>1, <2>3 DEF RowsInv, Range
  <2>5. \A i \in DOMAIN outbox : /\ \E r \in rows' : r.chat = o[i].name.chat
                                 /\ ~IsPending(o[i].name) => Later(o[i].name.chat)
    BY <1>6, <2>2, <2>4
  <2>6. \A e \in Range(outbox') : /\ \E r \in rows' : r.chat = e.name.chat
                                  /\ ~IsPending(e.name) => Later(e.name.chat)
    <3>1. \A e \in Range(outbox') : \E i \in DOMAIN outbox : e = o[i]
      BY <1>6, <1>14 DEF Flushed, Range
    <3> QED
      BY <2>5, <3>1
  <2>7. sessionRef' # NoName => ~IsPending(sessionRef') /\ Later(sessionRef'.chat)
    <3>1. CASE claims
      BY <1>2, <1>3, <2>2, <3>1
    <3>2. CASE ~claims
      BY <1>1, <1>2, <2>1, <3>2 DEF RowsInv
    <3> QED
      BY <3>1, <3>2
  <2> QED
    BY <2>6, <2>7 DEF RowsInv, Rowed, Later
<1>19. SentOnly
  <2>1. \A m \in DOMAIN fate : g[m] = fate[m] \/ (fate[m] = "slot" /\ g[m] = "written")
    BY <1>8, <1>9
  <2>2. /\ DOMAIN fate' = DOMAIN g
        /\ \A m \in DOMAIN g : fate'[m] = g[m] \/ (g[m] = "waiting" /\ fate'[m] = "written")
    BY <1>14 DEF Flushed
  <2> QED
    BY <1>8, <2>1, <2>2 DEF SentOnly
<1> QED
  BY <1>16, <1>17, <1>18, <1>19 DEF MailInv

-----------------------------------------------------------------------------
(***************************************************************************)
(* What the daemon does.                                                   *)
(***************************************************************************)

\* A frame taken by the daemon: what it then does must leave these as they should be.
LEMMA TakesKeeps ==
  ASSUME MailInv, NEW kind, Takes(kind), DaemonShapes', Tells(down'),
         fate' \in Seq(Fates), Len(fate') = Len(fate), DOMAIN fate' = DOMAIN fate,
         heard' \in Seq([msg : Messages, chat : Chats]), Taken',
         \A m \in DOMAIN fate : fate'[m] = fate[m] \/ (/\ fate[m] = "written" /\ fate'[m] # "waiting"
                                                        /\ Head(up).kind = "prompt" /\ m = Head(up).msg)
  PROVE  MailInv'
<1>1. /\ PhoneShapes /\ LineShapes /\ DaemonShapes /\ HistoryShapes /\ MessageInv /\ SlotInv /\ RowsInv
  BY DEF MailInv, Shapes
<1>2. /\ up # << >> /\ up' = Tail(up)
      /\ UNCHANGED <<phoneVars, agent, home, overtakers, budget>>
  BY DEF Takes
<1>3. /\ up \in Seq(Frames) /\ up' \in Seq(Frames) /\ Range(up') \subseteq Range(up)
      /\ Lies(up', "written", fate, home)
      /\ \A y \in Range(up') : Head(up).kind = "prompt" /\ y.kind = "prompt" => y.msg # Head(up).msg
  <2>1. up \in Seq(Frames) /\ Lies(up, "written", fate, home)
    BY <1>1, Basics DEF MessageInv
  <2> QED
    BY <1>2, <2>1, LiesTail
<1>4. PhoneShapes' /\ LineShapes' /\ HistoryShapes'
  <2>1. PhoneShapes'
    BY <1>1, <1>2 DEF PhoneShapes, phoneVars, screenVars
  <2>2. LineShapes'
    BY <1>1, <1>3 DEF LineShapes, Writes
  <2>3. HistoryShapes'
    BY <1>1, <1>2 DEF HistoryShapes
  <2> QED
    BY <2>1, <2>2, <2>3
<1>5. Lies(up', "written", fate', home')
  <2>1. \A x \in Range(up') : x.kind = "prompt" =>
          x.msg \in DOMAIN fate' /\ fate'[x.msg] = fate[x.msg] /\ home'[x.msg] = home[x.msg]
    BY <1>2, <1>3 DEF Lies
  <2> QED
    BY <1>3, <2>1, LiesStill
<1>6. Lies(outbox', "waiting", fate', home') /\ Waits(outbox', fate')
  <2>1. outbox' = outbox /\ Lies(outbox, "waiting", fate, home) /\ Waits(outbox, fate)
    BY <1>1, <1>2 DEF MessageInv, phoneVars
  <2>2. \A x \in Range(outbox) : x.kind = "prompt" =>
          x.msg \in DOMAIN fate' /\ fate'[x.msg] = fate[x.msg] /\ home'[x.msg] = home[x.msg]
    BY <1>2, <2>1 DEF Lies
  <2>3. \A m \in DOMAIN fate' : fate'[m] = "waiting" => m \in DOMAIN fate /\ fate[m] = "waiting"
    OBVIOUS
  <2> QED
    BY <2>1, <2>2, <2>3, LiesStill DEF Waits
<1>7. SlotInv'
  <2>1. slot # 0 => slot \in DOMAIN fate' /\ fate'[slot] = "slot"
    BY <1>1 DEF SlotInv
  <2> QED
    BY <1>1, <1>2, <2>1 DEF SlotInv, phoneVars, screenVars
<1>8. RowsInv'
  BY <1>1, <1>2 DEF RowsInv, Rowed, phoneVars, screenVars
<1> QED
  BY <1>4, <1>5, <1>6, <1>7, <1>8 DEF MailInv, Shapes, MessageInv

\* A frame told keeps the line.
LEMMA ToldKeeps ==
  ASSUME Tells(down), NEW x \in Answers, x.kind = "started" => x.name \in Names /\ ~IsPending(x.name)
  PROVE  Tells(Append(down, x))
<1>1. /\ Append(down, x) \in Seq(Answers) /\ Range(Append(down, x)) = Range(down) \cup {x}
  BY Adds DEF Tells
<1> QED
  BY <1>1 DEF Tells

\* A new id, and the sessions with it.
LEMMA MintKeeps ==
  ASSUME DaemonShapes, NEW c \in Chats
  PROVE  /\ Fresh(c) \in Names /\ ~IsPending(Fresh(c)) /\ Fresh(c).chat = c
         /\ Mint(Fresh(c)) => /\ minted' \in [Chats -> Nat] /\ sessions' = sessions \cup {Fresh(c)}
                              /\ sessions' \subseteq Names /\ \A n \in sessions' : ~IsPending(n)
         /\ \A asked, resumed \in BOOLEAN :
              LET x == StartedFrame(Fresh(c), asked, resumed)
              IN  x \in Answers /\ x.kind = "started" /\ x.name = Fresh(c)
<1>1. Fresh(c) = [chat |-> c, gen |-> minted[c] + 1] /\ minted[c] \in Nat
  BY DEF Fresh, DaemonShapes
<1>2. minted[c] + 1 \in Nat /\ minted[c] + 1 # 0
  BY <1>1
<1>3. Fresh(c) \in Names /\ ~IsPending(Fresh(c)) /\ Fresh(c).chat = c
  BY <1>1, <1>2 DEF Names, IsPending
<1>4. ASSUME Mint(Fresh(c))
      PROVE  /\ minted' \in [Chats -> Nat] /\ sessions' = sessions \cup {Fresh(c)}
             /\ sessions' \subseteq Names /\ \A n \in sessions' : ~IsPending(n)
  <2>1. sessions' = sessions \cup {Fresh(c)} /\ minted' = [minted EXCEPT ![c] = @ + 1]
    BY <1>3, <1>4 DEF Mint
  <2>2. minted' \in [Chats -> Nat]
    BY <1>1, <2>1 DEF DaemonShapes
  <2> QED
    BY <1>3, <2>1, <2>2 DEF DaemonShapes
<1>5. \A asked, resumed \in BOOLEAN :
        LET x == StartedFrame(Fresh(c), asked, resumed)
        IN  x \in Answers /\ x.kind = "started" /\ x.name = Fresh(c)
  BY <1>3 DEF StartedFrame, Answers
<1> QED
  BY <1>3, <1>4, <1>5

LEMMA HeadWritten ==
  ASSUME LineShapes, up # << >>
  PROVE  Head(up) \in Frames /\ Writable(Head(up)) /\ Head(up) \in Range(up)
<1>1. up \in Seq(Frames)
  BY DEF LineShapes, Writes
<1>2. Head(up) \in Range(up)
  BY <1>1, LiesTail
<1> QED
  BY <1>1, <1>2, RangeOf DEF LineShapes, Writes

\* The history of a frame that is no prompt.
LEMMA SameHistory ==
  ASSUME MailInv, UNCHANGED <<fate, heard, home>>
  PROVE  /\ fate' \in Seq(Fates) /\ Len(fate') = Len(fate) /\ DOMAIN fate' = DOMAIN fate
         /\ heard' \in Seq([msg : Messages, chat : Chats]) /\ Taken'
         /\ \A m \in DOMAIN fate : fate'[m] = fate[m]
BY DEF MailInv, Shapes, HistoryShapes, MessageInv, Taken

LEMMA TakesHelloKeeps ==
  ASSUME MailInv, TakesHello
  PROVE  MailInv'
<1>1. Takes("hello") /\ down' = Append(down, Welcome) /\ UNCHANGED <<daemonVars, fate, heard>>
  BY DEF TakesHello
<1>2. DaemonShapes /\ Tells(down)
  BY DEF MailInv, Shapes, LineShapes
<1>3. Welcome \in Answers /\ Welcome.kind = "providers"
  BY <1>2 DEF Welcome, Answers, DaemonShapes
<1>4. Tells(down')
  BY <1>1, <1>2, <1>3, ToldKeeps
<1>5. UNCHANGED <<agent, home, budget>>
  BY <1>1 DEF Takes
<1>6. DaemonShapes'
  BY <1>1, <1>2, <1>5 DEF DaemonShapes, daemonVars
<1> QED
  BY <1>1, <1>4, <1>5, <1>6, SameHistory, TakesKeeps

LEMMA TakesStartKeeps ==
  ASSUME MailInv, TakesStart
  PROVE  MailInv'
<1> DEFINE c == Head(up).name.chat
<1>1. /\ Takes("start") /\ Mint(Fresh(c)) /\ opening' = opening \cup {Fresh(c)}
      /\ UNCHANGED <<down, fate, heard>>
  BY DEF TakesStart
<1>2. DaemonShapes /\ LineShapes /\ up # << >> /\ Head(up).kind = "start" /\ UNCHANGED <<agent, home, budget>>
  BY <1>1 DEF MailInv, Shapes, Takes
<1>3. c \in Chats
  BY <1>2, HeadWritten, Basics DEF Writable
<1> HIDE DEF c
<1>4. /\ minted' \in [Chats -> Nat] /\ sessions' = sessions \cup {Fresh(c)}
      /\ sessions' \subseteq Names /\ \A n \in sessions' : ~IsPending(n)
  BY <1>1, <1>2, <1>3, MintKeeps
<1>5. DaemonShapes'
  BY <1>1, <1>2, <1>4 DEF DaemonShapes
<1>6. Tells(down')
  BY <1>1, <1>2 DEF LineShapes
<1> QED
  BY <1>1, <1>2, <1>5, <1>6, SameHistory, TakesKeeps

LEMMA TakesResumeKeeps ==
  ASSUME MailInv, TakesResume
  PROVE  MailInv'
<1> DEFINE c == Head(up).name.chat
<1>1. /\ Takes("resume") /\ Mint(Fresh(c)) /\ down' = Append(down, StartedFrame(Fresh(c), FALSE, TRUE))
      /\ UNCHANGED <<opening, fate, heard>>
  BY DEF TakesResume
<1>2. DaemonShapes /\ LineShapes /\ up # << >> /\ Head(up).kind = "resume" /\ UNCHANGED <<agent, home, budget>>
  BY <1>1 DEF MailInv, Shapes, Takes
<1>3. c \in Chats
  BY <1>2, HeadWritten, Basics DEF Writable
<1> HIDE DEF c
<1>4. /\ minted' \in [Chats -> Nat] /\ sessions' = sessions \cup {Fresh(c)}
      /\ sessions' \subseteq Names /\ \A n \in sessions' : ~IsPending(n)
      /\ Fresh(c) \in Names /\ ~IsPending(Fresh(c))
  BY <1>1, <1>2, <1>3, MintKeeps
<1>5. DaemonShapes'
  BY <1>1, <1>2, <1>4 DEF DaemonShapes
<1>6. Tells(down')
  <2> DEFINE x == StartedFrame(Fresh(c), FALSE, TRUE)
  <2>1. x \in Answers /\ x.kind = "started" /\ x.name = Fresh(c)
    BY <1>2, <1>3, MintKeeps
  <2>2. down' = Append(down, x)
    BY <1>1
  <2> HIDE DEF x
  <2> QED
    BY <1>2, <1>4, <2>1, <2>2, ToldKeeps DEF LineShapes
<1> QED
  BY <1>1, <1>2, <1>5, <1>6, SameHistory, TakesKeeps

LEMMA TakesPromptKeeps ==
  ASSUME MailInv, TakesPrompt
  PROVE  MailInv'
<1> DEFINE m == Head(up).msg
           known == Head(up).name \in sessions
           how == IF known THEN "heard" ELSE "refused"
           it == [msg |-> m, chat |-> Head(up).name.chat]
<1>1. /\ Takes("prompt") /\ fate' = Mark(fate, {m}, how)
      /\ heard' = (IF known THEN Append(heard, it) ELSE heard)
      /\ UNCHANGED <<down, daemonVars>>
  BY DEF TakesPrompt
<1>2. /\ DaemonShapes /\ LineShapes /\ HistoryShapes /\ MessageInv /\ up # << >> /\ Head(up).kind = "prompt"
      /\ UNCHANGED <<agent, home, budget>>
  BY <1>1 DEF MailInv, Shapes, Takes
<1>3. /\ m \in DOMAIN fate /\ fate[m] = "written" /\ home[m] = Head(up).name.chat
      /\ Head(up).name \in Names
  BY <1>2, HeadWritten DEF MessageInv, Lies, Writable
<1>4. it.msg = m /\ it.chat = home[m] /\ it \in [msg : Messages, chat : Chats]
  <2>1. m \in Messages /\ home[m] \in Chats
    BY <1>3, Basics DEF Messages
  <2> QED
    BY <1>3, <2>1
<1> HIDE DEF m, it
<1>5. /\ fate' \in Seq(Fates) /\ Len(fate') = Len(fate) /\ DOMAIN fate' = DOMAIN fate
      /\ \A k \in DOMAIN fate : fate'[k] = IF k \in {m} THEN how ELSE fate[k]
  <2>1. how \in Fates
    BY DEF Fates
  <2> HIDE DEF how
  <2> QED
    BY <1>1, <2>1, MarkKeeps, Basics
<1>6. \A k \in DOMAIN fate : fate'[k] = fate[k] \/ (/\ fate[k] = "written" /\ fate'[k] # "waiting"
                                                     /\ Head(up).kind = "prompt" /\ k = Head(up).msg)
  BY <1>2, <1>3, <1>5 DEF m
<1>7. heard \in Seq([msg : Messages, chat : Chats]) /\ Taken /\ DOMAIN heard = 1..Len(heard) /\ Len(heard) \in Nat
  BY <1>2 DEF HistoryShapes, MessageInv
<1>8. heard' \in Seq([msg : Messages, chat : Chats])
  <2>1. Append(heard, it) \in Seq([msg : Messages, chat : Chats])
    BY <1>4, <1>7, Adds
  <2> HIDE DEF known
  <2> QED
    BY <1>1, <1>7, <2>1
<1>9. Taken'
  <2>1. \A k \in DOMAIN fate : fate[k] = "heard" => k \in DOMAIN fate' /\ fate'[k] = "heard" /\ home'[k] = home[k]
    BY <1>2, <1>3, <1>5
  <2>2. CASE ~known
    BY <1>1, <1>7, <2>1, <2>2, TakenStill
  <2>3. CASE known
    <3>1. /\ DOMAIN heard' = 1..(Len(heard) + 1) /\ heard'[Len(heard) + 1] = it
          /\ \A i \in DOMAIN heard : heard'[i] = heard[i]
      BY <1>1, <1>4, <1>7, <2>3
    <3>2. \A i \in DOMAIN heard' : i \in DOMAIN heard \/ i = Len(heard) + 1
      BY <1>7, <3>1
    <3>3. \A i \in DOMAIN heard : heard[i].msg \in DOMAIN fate /\ fate[heard[i].msg] = "heard" /\ heard[i].msg # m
      BY <1>3, <1>7 DEF Taken
    <3>4. \A i, j \in DOMAIN heard' : heard'[i].msg = heard'[j].msg => i = j
      BY <1>4, <1>7, <3>1, <3>2, <3>3 DEF Taken
    <3>5. ASSUME NEW i \in DOMAIN heard'
          PROVE  /\ heard'[i].msg \in DOMAIN fate' /\ fate'[heard'[i].msg] = "heard"
                 /\ heard'[i].chat = home'[heard'[i].msg]
      <4>1. CASE i \in DOMAIN heard
        BY <1>2, <1>7, <2>1, <3>1, <3>3, <4>1 DEF Taken
      <4>2. CASE i = Len(heard) + 1
        BY <1>2, <1>3, <1>4, <1>5, <2>3, <3>1, <4>2
      <4> QED
        BY <3>2, <4>1, <4>2
    <3> QED
      BY <3>4, <3>5 DEF Taken
  <2> QED
    BY <2>2, <2>3
<1>10. DaemonShapes' /\ Tells(down')
  BY <1>1, <1>2 DEF DaemonShapes, LineShapes, daemonVars
<1> QED
  BY <1>1, <1>5, <1>6, <1>8, <1>9, <1>10, TakesKeeps

\* The daemon's own steps, away from the phone and what it wrote.
LEMMA DaemonKeeps ==
  ASSUME MailInv, DaemonShapes', Tells(down'), UNCHANGED <<phoneVars, up, fate, history>>
  PROVE  MailInv'
<1>1. /\ PhoneShapes /\ LineShapes /\ DaemonShapes /\ HistoryShapes /\ MessageInv /\ SlotInv /\ RowsInv
  BY DEF MailInv, Shapes
<1>2. PhoneShapes' /\ LineShapes' /\ HistoryShapes'
  <2>1. PhoneShapes'
    BY <1>1 DEF PhoneShapes, phoneVars, screenVars
  <2>2. LineShapes' /\ HistoryShapes'
    BY <1>1 DEF LineShapes, HistoryShapes, history
  <2> QED
    BY <2>1, <2>2
<1>3. MessageInv'
  BY <1>1 DEF MessageInv, Taken, phoneVars, history
<1>4. SlotInv' /\ RowsInv'
  BY <1>1 DEF SlotInv, RowsInv, Rowed, phoneVars, screenVars, history
<1> QED
  BY <1>2, <1>3, <1>4 DEF MailInv, Shapes

LEMMA BroadcastKeeps ==
  ASSUME Tells(down), NEW x \in Answers, x.name \in Names, ~IsPending(x.name), Broadcast(x)
  PROVE  Tells(down')
BY ToldKeeps DEF Broadcast

LEMMA StartedKeeps ==
  ASSUME MailInv, NEW n \in opening, Started(n)
  PROVE  MailInv'
<1>1. /\ opening' = opening \ {n} /\ Broadcast(StartedFrame(n, TRUE, FALSE))
      /\ UNCHANGED <<phoneVars, up, sessions, minted, agent, fate, history, budget>>
  BY DEF Started
<1>2. DaemonShapes /\ Tells(down)
  BY DEF MailInv, Shapes, LineShapes
<1>3. n \in Names /\ ~IsPending(n)
  BY <1>2 DEF DaemonShapes
<1>4. DaemonShapes'
  BY <1>1, <1>2 DEF DaemonShapes
<1>5. StartedFrame(n, TRUE, FALSE) \in Answers /\ StartedFrame(n, TRUE, FALSE).name = n
  BY <1>3 DEF StartedFrame, Answers
<1>6. Tells(down')
  BY <1>1, <1>2, <1>3, <1>5, BroadcastKeeps
<1> QED
  BY <1>1, <1>4, <1>6, DaemonKeeps

LEMMA ElsewhereKeeps ==
  ASSUME MailInv, NEW p \in Providers, Elsewhere(p)
  PROVE  MailInv'
<1> DEFINE c == Len(agent) + 1
           n == Fresh(c)
<1>1. /\ Len(agent) < MaxChats /\ agent' = Append(agent, p)
      /\ Mint(n) /\ Broadcast(StartedFrame(n, FALSE, FALSE))
      /\ UNCHANGED <<phoneVars, up, opening, fate, history, budget>>
  BY DEF Elsewhere
<1>2. DaemonShapes /\ Tells(down)
  BY DEF MailInv, Shapes, LineShapes
<1>3. c \in Chats /\ agent' \in Seq(Providers) /\ Len(agent') <= MaxChats
  BY <1>1, <1>2, OutboxBounds DEF DaemonShapes, Chats
<1> HIDE DEF c
<1>4. /\ minted' \in [Chats -> Nat] /\ sessions' = sessions \cup {n}
      /\ sessions' \subseteq Names /\ \A k \in sessions' : ~IsPending(k)
      /\ n \in Names /\ ~IsPending(n)
  BY <1>1, <1>2, <1>3, MintKeeps
<1>5. StartedFrame(n, FALSE, FALSE) \in Answers /\ StartedFrame(n, FALSE, FALSE).name = n
  BY <1>4 DEF StartedFrame, Answers
<1> HIDE DEF n
<1>6. DaemonShapes'
  BY <1>1, <1>2, <1>3, <1>4 DEF DaemonShapes
<1>7. Tells(down')
  BY <1>1, <1>2, <1>4, <1>5, BroadcastKeeps
<1> QED
  BY <1>1, <1>6, <1>7, DaemonKeeps

LEMMA StartFailsKeeps ==
  ASSUME MailInv, NEW n \in opening, StartFails(n)
  PROVE  MailInv'
<1>1. /\ Spend("upsets") /\ opening' = opening \ {n} /\ sessions' = sessions \ {n}
      /\ UNCHANGED <<phoneVars, up, down, minted, agent, fate, history>>
  BY DEF StartFails
<1>2. DaemonShapes /\ Tells(down)
  BY DEF MailInv, Shapes, LineShapes
<1>3. budget' \in Budgets
  BY <1>1, <1>2, SpendKeeps DEF DaemonShapes
<1>4. DaemonShapes'
  BY <1>1, <1>2, <1>3 DEF DaemonShapes
<1> QED
  BY <1>1, <1>2, <1>4, DaemonKeeps

LEMMA ClosesKeeps ==
  ASSUME MailInv, NEW n \in sessions, Closes(n)
  PROVE  MailInv'
<1>1. /\ n \notin opening /\ Spend("upsets") /\ sessions' = sessions \ {n}
      /\ UNCHANGED <<phoneVars, up, down, opening, minted, agent, fate, history>>
  BY DEF Closes
<1>2. DaemonShapes /\ Tells(down)
  BY DEF MailInv, Shapes, LineShapes
<1>3. budget' \in Budgets
  BY <1>1, <1>2, SpendKeeps DEF DaemonShapes
<1>4. DaemonShapes'
  BY <1>1, <1>2, <1>3 DEF DaemonShapes
<1> QED
  BY <1>1, <1>2, <1>4, DaemonKeeps

-----------------------------------------------------------------------------
(***************************************************************************)
(* The invariant, and what follows from it.                                *)
(***************************************************************************)

LEMMA InitMail == Init => MailInv
<1> SUFFICES ASSUME Init PROVE MailInv
  OBVIOUS
<1>1. DOMAIN outbox = {} /\ DOMAIN up = {} /\ DOMAIN down = {} /\ DOMAIN heard = {} /\ DOMAIN fate = {}
  BY DEF Init
<1>2. Range(outbox) = {} /\ Range(up) = {} /\ Range(down) = {}
  BY <1>1 DEF Range
<1>3. PhoneShapes
  <2>1. Queue(outbox) /\ Len(outbox) <= MaxQueued
    BY <1>2, OutboxBounds DEF Init, Queue
  <2>2. slot \in 0 .. MaxMessages
    BY OutboxBounds DEF Init
  <2>3. {sessionRef, screen, viewing, restoring} \subseteq Names \cup {NoName}
    BY DEF Init
  <2>4. /\ ws = "down" /\ pendingStart = NoName /\ awaiting = FALSE
        /\ live \subseteq Names /\ rows \subseteq Names
    BY DEF Init
  <2> QED
    BY <2>1, <2>2, <2>3, <2>4 DEF PhoneShapes
<1>4. LineShapes
  BY <1>2 DEF Init, LineShapes, Writes, Tells
<1>5. DaemonShapes
  <2>1. budget \in Budgets
    BY OutboxBounds DEF Init, Budgets
  <2>2. minted \in [Chats -> Nat]
    BY DEF Init
  <2> QED
    BY <2>1, <2>2, OutboxBounds DEF Init, DaemonShapes
<1>6. HistoryShapes
  BY OutboxBounds DEF Init, HistoryShapes
<1>7. MessageInv
  BY <1>1, <1>2 DEF MessageInv, Lies, Apart, Waits, Taken
<1>8. SlotInv /\ RowsInv
  BY <1>2 DEF Init, SlotInv, RowsInv
<1> QED
  BY <1>3, <1>4, <1>5, <1>6, <1>7, <1>8 DEF MailInv, Shapes

LEMMA NextMail == MailInv /\ [Next]_vars => MailInv'
<1> SUFFICES ASSUME MailInv, [Next]_vars PROVE MailInv'
  OBVIOUS
<1>1. CASE UNCHANGED vars
  <2>1. DaemonShapes'
    BY <1>1 DEF MailInv, Shapes, DaemonShapes, vars, daemonVars
  <2>2. Tells(down')
    BY <1>1 DEF MailInv, Shapes, LineShapes, vars
  <2> QED
    BY <1>1, <2>1, <2>2, DaemonKeeps DEF vars
<1>2. CASE User
  BY <1>2, StartKeeps, StopKeeps, ShowsKeeps, PromptKeeps, ReopenKeeps DEF User, Leave, Open
<1>3. CASE Opens
  BY <1>3, OpensKeeps
<1>4. CASE Receives
  BY <1>4, AnnouncedKeeps, NamedKeeps DEF Receives
<1>5. CASE Daemon
  BY <1>5, TakesHelloKeeps, TakesStartKeeps, TakesResumeKeeps, TakesPromptKeeps, StartedKeeps DEF Daemon
<1>6. CASE Upset
  BY <1>6, DropKeeps, RestartKeeps, StartFailsKeeps, ClosesKeeps, ElsewhereKeeps DEF Upset
<1> QED
  BY <1>1, <1>2, <1>3, <1>4, <1>5, <1>6 DEF Next

\* The inductive invariant: where each message is, and under which name.
THEOREM MailInvariant == Safety => []MailInv
BY InitMail, NextMail, PTL DEF Safety

\* The phone's refs, the frames in flight and the daemon's sessions keep their types,
\* whatever is typed, opened, dropped and restarted.
THEOREM TypesHold == Safety => []TypeOK
<1>1. MailInv => TypeOK
  <2> SUFFICES ASSUME MailInv PROVE TypeOK
    OBVIOUS
  <2>1. PhoneShapes /\ LineShapes /\ DaemonShapes /\ HistoryShapes
    BY DEF MailInv, Shapes
  <2>2. \A f \in Range(up) : f \in Frames /\ Writable(f)
    BY <2>1, RangeOf DEF LineShapes, Writes
  <2>3. {f.kind : f \in Range(up)} \subseteq {"hello", "start", "prompt", "resume"}
    BY <2>2 DEF Frames
  <2>4. \A f \in Range(up) : IsPending(f.name) <=> f.kind \in {"hello", "start"}
    BY <2>2, Basics DEF Frames, Writable
  <2>5. {f.kind : f \in Range(down)} \subseteq {"providers", "started"}
    <3>1. \A f \in Range(down) : f \in Answers
      BY <2>1, RangeOf DEF LineShapes, Tells
    <3> QED
      BY <3>1 DEF Answers
  <2>6. outbox \in Seq(Entries) /\ Len(outbox) <= MaxQueued
    BY <2>1 DEF PhoneShapes, Queue
  <2> QED
    BY <2>1, <2>3, <2>4, <2>5, <2>6 DEF TypeOK, PhoneShapes, DaemonShapes, HistoryShapes
<1> QED
  BY <1>1, MailInvariant, PTL

\* A message reaches a session of the conversation it was typed in, and only once,
\* whichever sessions were announced, reopened and closed meanwhile.
THEOREM HeardOnce == Safety => []HeardOnceAtHome
<1>1. MailInv => HeardOnceAtHome
  BY DEF MailInv, MessageInv, Taken, HeardOnceAtHome
<1> QED
  BY <1>1, MailInvariant, PTL

\* The queue holds each waiting message once and no other, though sockets die inside a
\* flush.
THEOREM QueueKeeps == Safety => []OutboxKeeps
<1>1. MailInv => OutboxKeeps
  <2> SUFFICES ASSUME MailInv PROVE OutboxKeeps
    OBVIOUS
  <2>1. Lies(outbox, "waiting", fate, home) /\ Waits(outbox, fate)
    BY DEF MailInv, MessageInv
  <2>2. \A e \in Prompts : e.msg \in DOMAIN fate /\ fate[e.msg] = "waiting"
    BY <2>1 DEF Lies, Prompts
  <2>3. \A m \in DOMAIN fate : fate[m] = "waiting" => \E e \in Prompts : e.msg = m
    BY <2>1 DEF Waits, Prompts
  <2>4. {e.msg : e \in Prompts} = {m \in DOMAIN fate : fate[m] = "waiting"}
    BY <2>2, <2>3
  <2> QED
    BY <2>1, <2>4 DEF OutboxKeeps, Lies, Apart
<1> QED
  BY <1>1, MailInvariant, PTL

\* Every waiting message can be found under a row of its conversation, however often
\* the conversation was renamed.
THEOREM RowsStay == Safety => []RowFindable
<1>1. MailInv => RowFindable
  BY DEF MailInv, RowsInv, RowFindable, Prompts
<1> QED
  BY <1>1, MailInvariant, PTL

-----------------------------------------------------------------------------
(***************************************************************************)
(* The order in which a conversation is read.  A message taken by its      *)
(* session is in front of those in flight, and those of the queue: none of *)
(* the three lines, nor two of them, has a message ahead of an older one   *)
(* of its conversation, unless it was seen to pass it.                     *)
(***************************************************************************)

\* The messages of a line, and those taken.
Msgs(s) == {e.msg : e \in {x \in Range(s) : x.kind = "prompt"}}
Said == {heard[i].msg : i \in DOMAIN heard}

\* It would be wrong for message x to be ahead of message y.
Turned(x, y, h, ov) == y < x /\ h[y] = h[x] /\ x \notin ov
\* X may be ahead of Y; a line is in order.
Leads(X, Y, h, ov) == \A x \in X, y \in Y : ~Turned(x, y, h, ov)
InLine(s, h, ov) ==
    \A i, j \in DOMAIN s : i < j /\ s[i].kind = "prompt" /\ s[j].kind = "prompt" =>
      ~Turned(s[i].msg, s[j].msg, h, ov)

OrderInv ==
    /\ \A i, j \in DOMAIN heard : i < j => ~Turned(heard[i].msg, heard[j].msg, home, overtakers)
    /\ InLine(up, home, overtakers) /\ InLine(outbox, home, overtakers)
    /\ Leads(Said, Msgs(up), home, overtakers) /\ Leads(Said, Msgs(outbox), home, overtakers)
    /\ Leads(Msgs(up), Msgs(outbox), home, overtakers)
    /\ slot # 0 => \A m \in DOMAIN home : home[m] = home[slot] => slot <= m

\* Whatever has a name belongs to a conversation that was begun.
Begun(c) == c \in 0 .. Len(agent)
KnownInv ==
    /\ \A n \in rows : Begun(n.chat)
    /\ \A x \in Range(up) : Begun(x.name.chat)
    /\ \A x \in Range(outbox) : Begun(x.name.chat)
    /\ \A f \in Range(down) : Begun(f.name.chat)
    /\ \A n \in opening : Begun(n.chat)
    /\ Begun(restoring.chat) /\ Begun(pendingStart.chat)
    /\ \A m \in DOMAIN home : Begun(home[m])

\* A conversation whose start has not been answered yet has no session id that
\* the phone knows of or that a message could be written to.
Asked(c) == pendingStart = Pending(c) \/ StartOf(c) \in Range(outbox)
Unnamed(c) ==
    /\ \A n \in rows : n.chat = c => IsPending(n)
    /\ restoring.chat # c
    /\ \A x \in Range(up) : x.name.chat = c => x.kind = "start"
    /\ \A f \in Range(down) : f.kind = "started" /\ f.name.chat = c => f.asked
    /\ \A i \in DOMAIN heard : heard[i].chat # c
\* One whose start is still queued is unheard of at the daemon.
Unsent(c) ==
    /\ StartOf(c) \notin Range(up)
    /\ \A f \in Range(down) : f.kind = "started" => f.name.chat # c
    /\ \A n \in opening : n.chat # c
Single(s) == \A i, j \in DOMAIN s : s[i] = s[j] => i = j
NamedInv ==
    /\ \A c \in Chats : Asked(c) => Unnamed(c)
    /\ \A c \in Chats : StartOf(c) \in Range(outbox) => Unsent(c)
    /\ Single(outbox)

TurnInv == KnownInv /\ NamedInv /\ OrderInv

\* Orders that are kept when messages are typed, or seen to pass others.
LEMMA TurnedStill ==
  ASSUME NEW h, NEW k, NEW ov, NEW ow, ov \subseteq ow
  PROVE  /\ \A X, Y : /\ Leads(X, Y, h, ov)
                      /\ \A m \in X \cup Y : k[m] = h[m]
                      => Leads(X, Y, k, ow)
         /\ \A s : /\ InLine(s, h, ov)
                   /\ \A m \in Msgs(s) : k[m] = h[m]
                   => InLine(s, k, ow)
<1>1. ASSUME NEW X, NEW Y, Leads(X, Y, h, ov), \A m \in X \cup Y : k[m] = h[m]
      PROVE  Leads(X, Y, k, ow)
  BY <1>1 DEF Leads, Turned
<1>2. ASSUME NEW s, InLine(s, h, ov), \A m \in Msgs(s) : k[m] = h[m]
      PROVE  InLine(s, k, ow)
  <2>1. \A i \in DOMAIN s : s[i].kind = "prompt" => s[i].msg \in Msgs(s)
    BY DEF Msgs, Range
  <2> QED
    BY <1>2, <2>1 DEF InLine, Turned
<1> QED
  BY <1>1, <1>2

LEMMA LineJoined ==
  ASSUME NEW T, NEW s \in Seq(T), NEW t \in Seq(T)
  PROVE  /\ Msgs(s \o t) = Msgs(s) \cup Msgs(t)
         /\ \A h, ov : InLine(s, h, ov) /\ InLine(t, h, ov) /\ Leads(Msgs(s), Msgs(t), h, ov)
                         => InLine(s \o t, h, ov)
<1> DEFINE st == s \o t
<1>1. /\ Range(st) = Range(s) \cup Range(t) /\ Len(s) \in Nat /\ DOMAIN s = 1..Len(s)
      /\ \A i \in DOMAIN st : \/ i \in DOMAIN s /\ st[i] = s[i]
                              \/ i - Len(s) \in DOMAIN t /\ st[i] = t[i - Len(s)]
      /\ DOMAIN st \subseteq Int
  BY Joined2
<1>2. \A i \in DOMAIN t : i \in Int /\ i >= 1
  OBVIOUS
<1> HIDE DEF st
<1>3. Msgs(st) = Msgs(s) \cup Msgs(t)
  BY <1>1 DEF Msgs
<1>4. /\ \A i \in DOMAIN s : s[i].kind = "prompt" => s[i].msg \in Msgs(s)
      /\ \A i \in DOMAIN t : t[i].kind = "prompt" => t[i].msg \in Msgs(t)
  BY DEF Msgs, Range
<1>5. ASSUME NEW h, NEW ov, InLine(s, h, ov), InLine(t, h, ov), Leads(Msgs(s), Msgs(t), h, ov)
      PROVE  InLine(st, h, ov)
  <2> SUFFICES ASSUME NEW i \in DOMAIN st, NEW j \in DOMAIN st, i < j,
                      st[i].kind = "prompt", st[j].kind = "prompt"
               PROVE  ~Turned(st[i].msg, st[j].msg, h, ov)
    BY DEF InLine
  <2>1. CASE i \in DOMAIN s /\ st[i] = s[i] /\ j \in DOMAIN s /\ st[j] = s[j]
    BY <1>5, <2>1 DEF InLine
  <2>2. CASE /\ i - Len(s) \in DOMAIN t /\ st[i] = t[i - Len(s)]
             /\ j - Len(s) \in DOMAIN t /\ st[j] = t[j - Len(s)]
    <3>1. i - Len(s) < j - Len(s)
      BY <1>1
    <3> QED
      BY <1>5, <2>2, <3>1 DEF InLine
  <2>3. CASE i \in DOMAIN s /\ st[i] = s[i] /\ j - Len(s) \in DOMAIN t /\ st[j] = t[j - Len(s)]
    BY <1>4, <1>5, <2>3 DEF Leads
  <2>4. CASE j \in DOMAIN s /\ st[j] = s[j] /\ i - Len(s) \in DOMAIN t /\ st[i] = t[i - Len(s)]
    <3>1. j <= Len(s) /\ i - Len(s) >= 1
      BY <1>1, <1>2, <2>4
    <3> QED
      BY <1>1, <3>1
  <2> QED
    BY <1>1, <2>1, <2>2, <2>3, <2>4
<1> QED
  BY <1>3, <1>5 DEF st

LEMMA LineKeep ==
  ASSUME NEW T, NEW s \in Seq(T), NEW S
  PROVE  /\ Msgs(Keep(s, S)) \subseteq Msgs(s)
         /\ \A h, ov : InLine(s, h, ov) => InLine(Keep(s, S), h, ov)
<1> DEFINE t == Keep(s, S)
<1>1. /\ t \in Seq(T) /\ Len(t) \in Nat
      /\ \E g \in [1..Len(t) -> 1..Len(s)] :
           /\ \A k \in 1..Len(t) : t[k] = s[g[k]]
           /\ \A k, l \in 1..Len(t) : k < l <=> g[k] < g[l]
  BY KeepPicks
<1> HIDE DEF t
<1>2. PICK g \in [1..Len(t) -> 1..Len(s)] :
           /\ \A k \in 1..Len(t) : t[k] = s[g[k]]
           /\ \A k, l \in 1..Len(t) : k < l <=> g[k] < g[l]
  BY <1>1
<1>3. DOMAIN t = 1..Len(t) /\ DOMAIN s = 1..Len(s)
  BY <1>1
<1>4. Msgs(t) \subseteq Msgs(s)
  BY <1>2, <1>3 DEF Msgs, Range
<1>5. ASSUME NEW h, NEW ov, InLine(s, h, ov) PROVE InLine(t, h, ov)
  BY <1>2, <1>3, <1>5 DEF InLine
<1> QED
  BY <1>4, <1>5 DEF t

LEMMA LineCut ==
  ASSUME NEW T, NEW s \in Seq(T), NEW k \in 0..Len(s)
  PROVE  LET a == SubSeq(s, 1, k)
             b == SubSeq(s, k + 1, Len(s))
         IN  /\ Msgs(a) \subseteq Msgs(s) /\ Msgs(b) \subseteq Msgs(s)
             /\ \A h, ov : InLine(s, h, ov) =>
                  InLine(a, h, ov) /\ InLine(b, h, ov) /\ Leads(Msgs(a), Msgs(b), h, ov)
<1> DEFINE a == SubSeq(s, 1, k)
           b == SubSeq(s, k + 1, Len(s))
<1>1. /\ a \in Seq(T) /\ b \in Seq(T) /\ Len(a) = k
      /\ \A i \in DOMAIN a : i \in DOMAIN s /\ a[i] = s[i]
      /\ \A i \in DOMAIN b : i + k \in DOMAIN s /\ b[i] = s[i + k]
      /\ Range(s) = Range(a) \cup Range(b)
  BY Cut
<1>2. /\ DOMAIN a = 1..k /\ DOMAIN b \subseteq Nat /\ k \in Nat /\ \A i \in DOMAIN b : i >= 1
  BY <1>1
<1> HIDE DEF a, b
<1>3. Msgs(a) \subseteq Msgs(s) /\ Msgs(b) \subseteq Msgs(s)
  BY <1>1 DEF Msgs
<1>4. ASSUME NEW h, NEW ov, InLine(s, h, ov)
      PROVE  InLine(a, h, ov) /\ InLine(b, h, ov) /\ Leads(Msgs(a), Msgs(b), h, ov)
  <2>1. InLine(a, h, ov)
    BY <1>1, <1>4 DEF InLine
  <2>2. InLine(b, h, ov)
    <3> SUFFICES ASSUME NEW i \in DOMAIN b, NEW j \in DOMAIN b, i < j,
                        b[i].kind = "prompt", b[j].kind = "prompt"
                 PROVE  ~Turned(b[i].msg, b[j].msg, h, ov)
      BY DEF InLine
    <3>1. i + k < j + k
      BY <1>2
    <3> QED
      BY <1>1, <1>4, <3>1 DEF InLine
  <2>3. Leads(Msgs(a), Msgs(b), h, ov)
    <3> SUFFICES ASSUME NEW i \in DOMAIN a, NEW j \in DOMAIN b,
                        a[i].kind = "prompt", b[j].kind = "prompt"
                 PROVE  ~Turned(a[i].msg, b[j].msg, h, ov)
      BY DEF Leads, Msgs, Range
    <3>1. i < j + k
      BY <1>2
    <3> QED
      BY <1>1, <1>4, <3>1 DEF InLine
  <2> QED
    BY <2>1, <2>2, <2>3
<1> QED
  BY <1>3, <1>4 DEF a, b

LEMMA LineAdds ==
  ASSUME NEW T, NEW s \in Seq(T), NEW x \in T
  PROVE  /\ Msgs(Append(s, x)) = Msgs(s) \cup (IF x.kind = "prompt" THEN {x.msg} ELSE {})
         /\ \A h, ov : /\ InLine(s, h, ov)
                       /\ x.kind = "prompt" => Leads(Msgs(s), {x.msg}, h, ov)
                       => InLine(Append(s, x), h, ov)
<1>1. <<x>> \in Seq(T) /\ Append(s, x) = s \o <<x>> /\ DOMAIN <<x>> = {1} /\ <<x>>[1] = x
  OBVIOUS
<1>2. Msgs(<<x>>) = IF x.kind = "prompt" THEN {x.msg} ELSE {}
  BY <1>1 DEF Msgs, Range
<1>3. \A h, ov : InLine(<<x>>, h, ov)
  BY <1>1 DEF InLine
<1>4. ASSUME NEW h, NEW ov, x.kind = "prompt" => Leads(Msgs(s), {x.msg}, h, ov)
      PROVE  Leads(Msgs(s), Msgs(<<x>>), h, ov)
  BY <1>2, <1>4 DEF Leads
<1> DEFINE y == <<x>>
<1>5. y \in Seq(T) /\ Append(s, x) = s \o y
  BY <1>1
<1> HIDE DEF y
<1>6. /\ Msgs(s \o y) = Msgs(s) \cup Msgs(y)
      /\ \A h, ov : InLine(s, h, ov) /\ InLine(y, h, ov) /\ Leads(Msgs(s), Msgs(y), h, ov)
                      => InLine(s \o y, h, ov)
  BY <1>5, LineJoined
<1> QED
  BY <1>2, <1>3, <1>4, <1>5, <1>6 DEF y

\* A start, a resume or a hello is no message.
LEMMA LineAddsFrame ==
  ASSUME NEW T, NEW s \in Seq(T), NEW x \in T, x.kind # "prompt"
  PROVE  /\ Msgs(Append(s, x)) = Msgs(s)
         /\ \A h, ov : InLine(s, h, ov) => InLine(Append(s, x), h, ov)
<1> DEFINE t == Append(s, x)
<1>1. /\ Msgs(t) = Msgs(s) \cup (IF x.kind = "prompt" THEN {x.msg} ELSE {})
      /\ \A h, ov : /\ InLine(s, h, ov)
                    /\ x.kind = "prompt" => Leads(Msgs(s), {x.msg}, h, ov)
                    => InLine(t, h, ov)
  BY LineAdds
<1> HIDE DEF t
<1>2. Msgs(t) = Msgs(s)
  BY <1>1
<1>3. ASSUME NEW h, NEW ov, InLine(s, h, ov) PROVE InLine(t, h, ov)
  BY <1>1, <1>3
<1> QED
  BY <1>2, <1>3 DEF t

LEMMA AppendIs ==
  ASSUME NEW T, NEW s \in Seq(T), NEW x \in T
  PROVE  /\ Append(s, x) \in Seq(T) /\ DOMAIN Append(s, x) = 1 .. Len(s) + 1
         /\ Append(s, x)[Len(s) + 1] = x /\ \A i \in 1 .. Len(s) : Append(s, x)[i] = s[i]
OBVIOUS

LEMMA LineTail ==
  ASSUME NEW T, NEW s \in Seq(T), s # << >>
  PROVE  /\ Msgs(Tail(s)) \subseteq Msgs(s) /\ (Head(s).kind = "prompt" => Head(s).msg \in Msgs(s))
         /\ \A h, ov : InLine(s, h, ov) =>
              /\ InLine(Tail(s), h, ov)
              /\ Head(s).kind = "prompt" => Leads({Head(s).msg}, Msgs(Tail(s)), h, ov)
<1>1. /\ Tail(s) \in Seq(T) /\ DOMAIN Tail(s) = 1..(Len(s) - 1) /\ Len(s) \in Nat /\ Len(s) >= 1
      /\ \A i \in DOMAIN Tail(s) : i + 1 \in DOMAIN s /\ Tail(s)[i] = s[i + 1]
      /\ 1 \in DOMAIN s /\ Head(s) = s[1]
  OBVIOUS
<1> DEFINE t == Tail(s)
           x == Head(s)
<1> HIDE DEF t, x
<1>2. Msgs(t) \subseteq Msgs(s) /\ (x.kind = "prompt" => x.msg \in Msgs(s))
  BY <1>1 DEF Msgs, Range, t, x
<1>3. ASSUME NEW h, NEW ov, InLine(s, h, ov)
      PROVE  InLine(t, h, ov) /\ (x.kind = "prompt" => Leads({x.msg}, Msgs(t), h, ov))
  <2>1. InLine(t, h, ov)
    <3> SUFFICES ASSUME NEW i \in DOMAIN t, NEW j \in DOMAIN t, i < j,
                        t[i].kind = "prompt", t[j].kind = "prompt"
                 PROVE  ~Turned(t[i].msg, t[j].msg, h, ov)
      BY DEF InLine
    <3>1. i + 1 < j + 1
      BY <1>1 DEF t
    <3> QED
      BY <1>1, <1>3, <3>1 DEF InLine, t
  <2>2. ASSUME x.kind = "prompt" PROVE Leads({x.msg}, Msgs(t), h, ov)
    <3> SUFFICES ASSUME NEW j \in DOMAIN t, t[j].kind = "prompt"
                 PROVE  ~Turned(x.msg, t[j].msg, h, ov)
      BY DEF Leads, Msgs, Range
    <3>1. 1 < j + 1
      BY <1>1 DEF t
    <3> QED
      BY <1>1, <1>3, <2>2, <3>1 DEF InLine, t, x
  <2> QED
    BY <2>1, <2>2
<1> QED
  BY <1>2, <1>3 DEF t, x

LEMMA LineRemapped ==
  ASSUME NEW o, NEW r, DOMAIN r = DOMAIN o,
         \A i \in DOMAIN o : r[i].kind = o[i].kind /\ r[i].msg = o[i].msg
  PROVE  /\ Msgs(r) = Msgs(o)
         /\ \A h, ov : InLine(o, h, ov) => InLine(r, h, ov)
<1>1. Msgs(r) = Msgs(o)
  BY DEF Msgs, Range
<1>2. ASSUME NEW h, NEW ov, InLine(o, h, ov) PROVE InLine(r, h, ov)
  BY <1>2 DEF InLine
<1> QED
  BY <1>1, <1>2

\* Parts of a line of which nothing is twice.
LEMMA SingleParts ==
  ASSUME NEW T, NEW s \in Seq(T), Single(s)
  PROVE  /\ \A S : Single(Keep(s, S))
         /\ \A k \in 0 .. Len(s) : /\ Single(SubSeq(s, k + 1, Len(s)))
                                   /\ Range(SubSeq(s, 1, k)) \cap Range(SubSeq(s, k + 1, Len(s))) = {}
<1>1. ASSUME NEW S PROVE Single(Keep(s, S))
  BY <1>1, KeepApart DEF Single
<1>2. ASSUME NEW k \in 0 .. Len(s)
      PROVE  /\ Single(SubSeq(s, k + 1, Len(s)))
             /\ Range(SubSeq(s, 1, k)) \cap Range(SubSeq(s, k + 1, Len(s))) = {}
  <2> DEFINE a == SubSeq(s, 1, k)
             b == SubSeq(s, k + 1, Len(s))
  <2>1. /\ a \in Seq(T) /\ b \in Seq(T) /\ Len(a) = k
        /\ \A i \in DOMAIN a : i \in DOMAIN s /\ a[i] = s[i]
        /\ \A i \in DOMAIN b : i + k \in DOMAIN s /\ b[i] = s[i + k]
    BY <1>2, Cut
  <2>2. DOMAIN a = 1..k /\ DOMAIN b \subseteq Nat /\ k \in Nat /\ \A i \in DOMAIN b : i >= 1
    BY <2>1
  <2> HIDE DEF a, b
  <2>3. Single(b)
    <3> SUFFICES ASSUME NEW i \in DOMAIN b, NEW j \in DOMAIN b, b[i] = b[j] PROVE i = j
      BY DEF Single
    <3>1. i + k = j + k
      BY <2>1 DEF Single
    <3> QED
      BY <2>2, <3>1
  <2>4. ASSUME NEW i \in DOMAIN a, NEW j \in DOMAIN b PROVE a[i] # b[j]
    <3>1. i # j + k
      BY <2>2
    <3> QED
      BY <2>1, <3>1 DEF Single
  <2>5. Range(a) \cap Range(b) = {}
    BY <2>4 DEF Range
  <2> QED
    BY <2>3, <2>5 DEF a, b
<1> QED
  BY <1>1, <1>2

LEMMA SingleJoined ==
  ASSUME NEW T, NEW s \in Seq(T), NEW t \in Seq(T), Single(s), Single(t), Range(s) \cap Range(t) = {}
  PROVE  Single(s \o t)
<1> DEFINE st == s \o t
<1>1. /\ Len(s) \in Nat /\ DOMAIN st \subseteq Int
      /\ \A i \in DOMAIN st : \/ i \in DOMAIN s /\ st[i] = s[i]
                              \/ i - Len(s) \in DOMAIN t /\ st[i] = t[i - Len(s)]
  BY Joined2
<1> HIDE DEF st
<1> SUFFICES ASSUME NEW i \in DOMAIN st, NEW j \in DOMAIN st, st[i] = st[j] PROVE i = j
  BY DEF Single, st
<1>2. CASE i \in DOMAIN s /\ st[i] = s[i] /\ j \in DOMAIN s /\ st[j] = s[j]
  BY <1>2 DEF Single
<1>3. CASE /\ i - Len(s) \in DOMAIN t /\ st[i] = t[i - Len(s)]
           /\ j - Len(s) \in DOMAIN t /\ st[j] = t[j - Len(s)]
  <2>1. i - Len(s) = j - Len(s)
    BY <1>3 DEF Single
  <2> QED
    BY <1>1, <2>1
<1>4. CASE i \in DOMAIN s /\ st[i] = s[i] /\ j - Len(s) \in DOMAIN t /\ st[j] = t[j - Len(s)]
  BY <1>4 DEF Range
<1>5. CASE j \in DOMAIN s /\ st[j] = s[j] /\ i - Len(s) \in DOMAIN t /\ st[i] = t[i - Len(s)]
  BY <1>5 DEF Range
<1> QED
  BY <1>1, <1>2, <1>3, <1>4, <1>5

\* What a flush that may send S, and sends the first k of it, writes, leaves in the
\* queue, and was seen to let pass.
SendsUpTo(k, o, ps, S, before) ==
    LET ready == Keep(o, S)
        held  == Keep(o, Range(o) \ S)
        out   == SubSeq(ready, 1, k)
        rest  == SubSeq(ready, k + 1, Len(ready))
    IN  /\ ready \in Seq(Entries) /\ held \in Seq(Entries)
        /\ out \in Seq(Entries) /\ rest \in Seq(Entries)
        /\ outbox' = rest \o held /\ up' = (up \o before) \o out
        /\ overtakers' = overtakers \cup Passing(ready, held)
        /\ Range(ready) = S /\ Range(held) = Range(o) \ S
        /\ Range(out) \cup Range(rest) = S /\ Range(out) \cap Range(rest) = {}
        /\ Single(outbox')
        /\ \/ pendingStart' = ps
           \/ \E e \in Range(out) : e.kind = "start" /\ pendingStart' = e.name

LEMMA FlushSends ==
  ASSUME NEW o, Queue(o), Single(o), NEW ps, NEW L, NEW f, NEW before \in Seq(Frames), up \in Seq(Frames),
         Flush(o, ps, L, f, before)
  PROVE  LET S == {e \in Range(o) : Deliverable(e, o, ps, L)}
         IN  \E k \in 0 .. Len(Keep(o, S)) : SendsUpTo(k, o, ps, S, before)
<1> DEFINE S == {e \in Range(o) : Deliverable(e, o, ps, L)}
           ready == Keep(o, S)
           held == Keep(o, Range(o) \ S)
<1>1. PICK k \in 0 .. Len(ready) :
        LET out == SubSeq(ready, 1, k)
            started == {e \in Range(out) : e.kind = "start"}
        IN  /\ outbox' = SubSeq(ready, k + 1, Len(ready)) \o held
            /\ up' = up \o before \o out
            /\ pendingStart' = IF started = {} THEN ps ELSE (CHOOSE e \in started : TRUE).name
            /\ overtakers' = overtakers \cup Passing(ready, held)
  BY DEF Flush, PutBack
<1> DEFINE out == SubSeq(ready, 1, k)
           rest == SubSeq(ready, k + 1, Len(ready))
           started == {e \in Range(out) : e.kind = "start"}
<1>2. outbox' = rest \o held /\ up' = (up \o before) \o out
      /\ overtakers' = overtakers \cup Passing(ready, held)
      /\ pendingStart' = (IF started = {} THEN ps ELSE (CHOOSE e \in started : TRUE).name)
  BY <1>1
<1>3. o \in Seq(Entries) /\ S \subseteq Range(o)
  BY DEF Queue
<1> HIDE DEF S
<1>4. ready \in Seq(Entries) /\ held \in Seq(Entries) /\ Range(o) = ToSet(o)
  BY <1>3, KeepPicks, RangeOf
<1>5. Range(ready) = S /\ Range(held) = Range(o) \ S
  <2>1. Range(ready) = ToSet(ready) /\ Range(held) = ToSet(held)
    BY <1>4, RangeOf
  <2>2. ToSet(ready) = ToSet(o) \cap S /\ ToSet(held) = ToSet(o) \cap (Range(o) \ S)
    BY <1>3, KeepElements
  <2> QED
    BY <1>3, <1>4, <2>1, <2>2
<1>6. Single(ready) /\ Single(held)
  BY <1>3, SingleParts
<1> HIDE DEF ready, held
<1>7. k \in 0 .. Len(ready)
  BY <1>1 DEF ready
<1>8. out \in Seq(Entries) /\ rest \in Seq(Entries) /\ Range(ready) = Range(out) \cup Range(rest)
  BY <1>4, <1>7, Cut
<1>9. Single(rest) /\ Range(out) \cap Range(rest) = {}
  BY <1>4, <1>6, <1>7, SingleParts
<1> HIDE DEF out, rest
<1>10. Single(outbox')
  BY <1>2, <1>4, <1>5, <1>6, <1>8, <1>9, SingleJoined
<1>11. pendingStart' = ps \/ \E e \in Range(out) : e.kind = "start" /\ pendingStart' = e.name
  <2>1. CASE started = {}
    BY <1>2, <2>1
  <2>2. CASE started # {}
    <3>1. (CHOOSE e \in started : TRUE) \in started
      BY <2>2
    <3> QED
      BY <1>2, <2>2, <3>1
  <2> QED
    BY <2>1, <2>2
<1>12. /\ ready \in Seq(Entries) /\ held \in Seq(Entries)
       /\ out \in Seq(Entries) /\ rest \in Seq(Entries)
       /\ outbox' = rest \o held /\ up' = (up \o before) \o out
       /\ overtakers' = overtakers \cup Passing(ready, held)
       /\ Range(ready) = S /\ Range(held) = Range(o) \ S
       /\ Range(out) \cup Range(rest) = S /\ Range(out) \cap Range(rest) = {}
       /\ Single(outbox')
       /\ pendingStart' = ps \/ \E e \in Range(out) : e.kind = "start" /\ pendingStart' = e.name
  BY <1>2, <1>4, <1>5, <1>8, <1>9, <1>10, <1>11
<1> QED
  BY <1>7, <1>12 DEF out, rest, ready, held, S, SendsUpTo

\* A flush turns no two messages round.
LEMMA FlushOrder ==
  ASSUME NEW o, Queue(o), Single(o), NEW ps, NEW L, NEW f, NEW g, NEW before \in Seq(Frames),
         up \in Seq(Frames), Lies(o, "waiting", g, home), Flush(o, ps, L, f, before),
         InLine(up \o before, home, overtakers), InLine(o, home, overtakers),
         Leads(Msgs(up \o before), Msgs(o), home, overtakers),
         Leads(Said, Msgs(up \o before), home, overtakers), Leads(Said, Msgs(o), home, overtakers)
  PROVE  /\ InLine(up', home, overtakers') /\ InLine(outbox', home, overtakers')
         /\ Leads(Said, Msgs(up'), home, overtakers') /\ Leads(Said, Msgs(outbox'), home, overtakers')
         /\ Leads(Msgs(up'), Msgs(outbox'), home, overtakers')
         /\ overtakers \subseteq overtakers'
<1> DEFINE S == {e \in Range(o) : Deliverable(e, o, ps, L)}
           ready == Keep(o, S)
           held == Keep(o, Range(o) \ S)
           head == up \o before
<1>1. PICK k \in 0 .. Len(ready) : SendsUpTo(k, o, ps, S, before)
  BY FlushSends
<1> DEFINE out == SubSeq(ready, 1, k)
           rest == SubSeq(ready, k + 1, Len(ready))
           ow == overtakers'
<1>2. /\ ready \in Seq(Entries) /\ held \in Seq(Entries)
      /\ out \in Seq(Entries) /\ rest \in Seq(Entries)
      /\ outbox' = rest \o held /\ up' = head \o out
      /\ ow = overtakers \cup Passing(ready, held)
      /\ Range(ready) = S /\ Range(held) = Range(o) \ S
      /\ Range(out) \cup Range(rest) = S
  BY <1>1 DEF SendsUpTo
<1> HIDE DEF out, rest, ow
<1>3. o \in Seq(Entries) /\ head \in Seq(Frames)
  BY DEF Queue
<1>4. out \in Seq(Frames)
  <2>1. Entries \subseteq Frames
    BY DEF Entries, Frames
  <2> QED
    BY <1>2, <2>1
<1> HIDE DEF head
<1>5. overtakers \subseteq ow
  BY <1>2
<1>6. Leads(Msgs(ready), Msgs(held), home, ow)
  <2> SUFFICES ASSUME NEW x \in Range(ready), NEW y \in Range(held), x.kind = "prompt", y.kind = "prompt",
                      Turned(x.msg, y.msg, home, ow)
               PROVE  FALSE
    BY DEF Leads, Msgs
  <2>1. x \in Range(o) /\ Deliverable(x, o, ps, L) /\ y \in Range(o) /\ ~Deliverable(y, o, ps, L)
    BY <1>2
  <2>2. y.msg < x.msg /\ home[y.msg] = home[x.msg] /\ x.msg \notin Passing(ready, held)
    BY <1>2 DEF Turned
  <2>3. x.name.chat = y.name.chat
    BY <2>1, <2>2 DEF Lies
  <2>4. x.name = y.name
    BY <2>2, <2>3 DEF Passing
  <2> QED
    BY <2>1, <2>4 DEF Deliverable
<1> HIDE DEF S
<1>7. /\ Msgs(ready) \subseteq Msgs(o) /\ Msgs(held) \subseteq Msgs(o)
      /\ InLine(ready, home, overtakers) /\ InLine(held, home, overtakers)
  BY <1>3, LineKeep
<1> HIDE DEF ready, held
<1>8. k \in 0 .. Len(ready)
  BY DEF ready
<1>9. /\ Msgs(out) \subseteq Msgs(ready) /\ Msgs(rest) \subseteq Msgs(ready)
      /\ InLine(out, home, overtakers) /\ InLine(rest, home, overtakers)
      /\ Leads(Msgs(out), Msgs(rest), home, overtakers)
  BY <1>2, <1>7, <1>8, LineCut DEF out, rest
<1>10. /\ Leads(Msgs(out), Msgs(rest), home, ow) /\ InLine(out, home, ow) /\ InLine(rest, home, ow)
       /\ InLine(held, home, ow) /\ InLine(head, home, ow)
       /\ Leads(Msgs(head), Msgs(o), home, ow)
       /\ Leads(Said, Msgs(head), home, ow) /\ Leads(Said, Msgs(o), home, ow)
  BY <1>5, <1>7, <1>9, TurnedStill DEF head
<1>11. /\ Msgs(outbox') = Msgs(rest) \cup Msgs(held)
       /\ Msgs(up') = Msgs(head) \cup Msgs(out)
  BY <1>2, <1>3, <1>4, LineJoined
<1>12. InLine(outbox', home, ow)
  <2>1. Leads(Msgs(rest), Msgs(held), home, ow)
    BY <1>6, <1>9 DEF Leads
  <2> QED
    BY <1>2, <1>10, <2>1, LineJoined
<1>13. InLine(up', home, ow)
  <2>1. Leads(Msgs(head), Msgs(out), home, ow)
    BY <1>7, <1>9, <1>10 DEF Leads
  <2> QED
    BY <1>2, <1>3, <1>4, <1>10, <2>1, LineJoined
<1>14. Leads(Said, Msgs(up'), home, ow) /\ Leads(Said, Msgs(outbox'), home, ow)
  BY <1>7, <1>9, <1>10, <1>11 DEF Leads
<1>15. Leads(Msgs(up'), Msgs(outbox'), home, ow)
  BY <1>6, <1>7, <1>9, <1>10, <1>11 DEF Leads
<1> QED
  BY <1>5, <1>12, <1>13, <1>14, <1>15 DEF ow

\* A flush, by what is written and what stays.
LEMMA FlushMoves ==
  ASSUME NEW o, Queue(o), Single(o), NEW ps, NEW L, NEW f, NEW before \in Seq(Frames), up \in Seq(Frames),
         Flush(o, ps, L, f, before)
  PROVE  \E out \in SUBSET {e \in Range(o) : Deliverable(e, o, ps, L)} :
           /\ Range(up') = Range(up) \cup Range(before) \cup out
           /\ Range(outbox') \subseteq Range(o) /\ Range(outbox') \cap out = {}
           /\ Single(outbox')
           /\ \/ pendingStart' = ps
              \/ \E e \in out : e.kind = "start" /\ pendingStart' = e.name
<1> DEFINE S == {e \in Range(o) : Deliverable(e, o, ps, L)}
           ready == Keep(o, S)
           held == Keep(o, Range(o) \ S)
           head == up \o before
<1>1. PICK k \in 0 .. Len(ready) : SendsUpTo(k, o, ps, S, before)
  BY FlushSends
<1> DEFINE out == SubSeq(ready, 1, k)
           rest == SubSeq(ready, k + 1, Len(ready))
<1>2. /\ out \in Seq(Entries) /\ rest \in Seq(Entries) /\ held \in Seq(Entries)
      /\ outbox' = rest \o held /\ up' = head \o out
      /\ Range(held) = Range(o) \ S
      /\ Range(out) \cup Range(rest) = S /\ Range(out) \cap Range(rest) = {}
      /\ Single(outbox')
      /\ pendingStart' = ps \/ \E e \in Range(out) : e.kind = "start" /\ pendingStart' = e.name
  BY <1>1 DEF SendsUpTo
<1> HIDE DEF out, rest, held
<1>3. head \in Seq(Frames) /\ Range(head) = Range(up) \cup Range(before)
  BY Joined2
<1> HIDE DEF head
<1>4. Range(up') = Range(head) \cup Range(out)
  <2>1. Entries \subseteq Frames
    BY DEF Entries, Frames
  <2>2. out \in Seq(Frames)
    BY <1>2, <2>1
  <2> QED
    BY <1>2, <1>3, <2>2, Joined2
<1>5. Range(outbox') = Range(rest) \cup Range(held)
  BY <1>2, Joined2
<1>6. S \subseteq Range(o) /\ Range(out) \in SUBSET S
  BY <1>2
<1> HIDE DEF S
<1> QED
  BY <1>2, <1>3, <1>4, <1>5, <1>6 DEF S

\* What must hold of a conversation, with the queue o and pendingStart ps, for the
\* flush to leave NamedInv.
AskedBy(c, o, ps) == ps = Pending(c) \/ StartOf(c) \in Range(o)
UnnamedBy(c, o, before) ==
    /\ \A n \in rows' : n.chat = c => IsPending(n)
    /\ restoring'.chat # c
    /\ \A x \in Range(up) \cup Range(before) : x.name.chat = c => x.kind = "start"
    /\ \A x \in Range(down') : x.kind = "started" /\ x.name.chat = c => x.asked
    /\ \A i \in DOMAIN heard' : heard'[i].chat # c
    /\ \A e \in Range(o) : e.kind = "prompt" /\ e.name.chat = c => IsPending(e.name)
UnsentBy(c, before) ==
    /\ StartOf(c) \notin Range(up) \cup Range(before)
    /\ \A x \in Range(down') : x.kind = "started" => x.name.chat # c
    /\ \A n \in opening' : n.chat # c

\* The start of a conversation is one entry.
LEMMA StartIs ==
  ASSUME NEW o, Queue(o), NEW e \in Range(o), e.kind = "start"
  PROVE  e = StartOf(e.name.chat) /\ e.name = Pending(e.name.chat) /\ e.name.chat \in Chats
<1>1. e \in Entries /\ IsPending(e.name) /\ e.msg = 0
  BY RangeOf DEF Queue
<1>2. e = [kind |-> e.kind, name |-> e.name, msg |-> e.msg] /\ e.name \in Names
  BY <1>1 DEF Entries
<1>3. e.name = Pending(e.name.chat) /\ e.name.chat \in Chats
  BY <1>1, <1>2 DEF Names, Pending, IsPending
<1> QED
  BY <1>1, <1>2, <1>3 DEF StartOf

LEMMA FlushNames ==
  ASSUME NEW o, Queue(o), Single(o), NEW ps, NEW L, NEW f, NEW before \in Seq(Frames), up \in Seq(Frames),
         Flush(o, ps, L, f, before),
         \A c \in Chats : AskedBy(c, o, ps) => UnnamedBy(c, o, before),
         \A c \in Chats : StartOf(c) \in Range(o) => UnsentBy(c, before)
  PROVE  NamedInv'
<1>1. PICK out \in SUBSET {e \in Range(o) : Deliverable(e, o, ps, L)} :
           /\ Range(up') = Range(up) \cup Range(before) \cup out
           /\ Range(outbox') \subseteq Range(o) /\ Range(outbox') \cap out = {}
           /\ Single(outbox')
           /\ \/ pendingStart' = ps
              \/ \E e \in out : e.kind = "start" /\ pendingStart' = e.name
  BY FlushMoves
<1>2. \A e \in out : e \in Range(o) /\ (e.kind = "prompt" => ~IsPending(e.name))
                     /\ e.kind \in {"start", "prompt"}
  BY DEF Deliverable
<1>3. ASSUME NEW c \in Chats, Asked(c)' PROVE AskedBy(c, o, ps)
  <2>1. CASE StartOf(c) \in Range(outbox')
    BY <1>1, <2>1 DEF AskedBy
  <2>2. CASE pendingStart' = Pending(c)
    <3>1. CASE pendingStart' = ps
      BY <2>2, <3>1 DEF AskedBy
    <3>2. ASSUME NEW e \in out, e.kind = "start", pendingStart' = e.name PROVE AskedBy(c, o, ps)
      <4>1. e = StartOf(e.name.chat) /\ e \in Range(o)
        BY <1>2, <3>2, StartIs
      <4>2. e.name.chat = c
        BY <2>2, <3>2 DEF Pending
      <4> QED
        BY <4>1, <4>2 DEF AskedBy
    <3> QED
      BY <1>1, <3>1, <3>2
  <2> QED
    BY <1>3, <2>1, <2>2 DEF Asked
<1>4. ASSUME NEW c \in Chats, Asked(c)' PROVE Unnamed(c)'
  <2>1. UnnamedBy(c, o, before)
    BY <1>3, <1>4
  <2>2. \A x \in Range(up') : x.name.chat = c => x.kind = "start"
    BY <1>1, <1>2, <2>1 DEF UnnamedBy
  <2> QED
    BY <2>1, <2>2 DEF Unnamed, UnnamedBy
<1>5. ASSUME NEW c \in Chats, StartOf(c) \in Range(outbox') PROVE Unsent(c)'
  <2>1. UnsentBy(c, before) /\ StartOf(c) \notin out
    BY <1>1, <1>5
  <2> QED
    BY <1>1, <2>1 DEF Unsent, UnsentBy
<1>6. Single(outbox)'
  BY <1>1 DEF Single
<1> QED
  BY <1>4, <1>5, <1>6 DEF NamedInv

LEMMA FlushKnows ==
  ASSUME NEW o, Queue(o), Single(o), NEW ps, NEW L, NEW f, NEW before \in Seq(Frames), up \in Seq(Frames),
         Flush(o, ps, L, f, before), KnownInv, UNCHANGED <<agent, home, opening>>,
         \A x \in Range(o) \cup Range(before) : Begun(x.name.chat), Begun(ps.chat),
         \A n \in rows' : Begun(n.chat), \A x \in Range(down') : Begun(x.name.chat), Begun(restoring'.chat)
  PROVE  KnownInv'
<1>1. PICK out \in SUBSET {e \in Range(o) : Deliverable(e, o, ps, L)} :
           /\ Range(up') = Range(up) \cup Range(before) \cup out
           /\ Range(outbox') \subseteq Range(o)
           /\ \/ pendingStart' = ps
              \/ \E e \in out : e.kind = "start" /\ pendingStart' = e.name
  BY FlushMoves
<1>2. Begun(pendingStart'.chat)
  BY <1>1
<1>3. /\ \A x \in Range(up') : Begun(x.name.chat)
      /\ \A x \in Range(outbox') : Begun(x.name.chat)
  BY <1>1 DEF KnownInv
<1> QED
  BY <1>2, <1>3 DEF KnownInv, Begun

LEMMA SingleAdds ==
  ASSUME NEW T, NEW s \in Seq(T), NEW x \in T, Single(s), x \notin Range(s)
  PROVE  Single(Append(s, x))
<1> DEFINE t == <<x>>
<1>1. t \in Seq(T) /\ Append(s, x) = s \o t /\ DOMAIN t = {1} /\ t[1] = x
  OBVIOUS
<1> HIDE DEF t
<1>2. Range(t) = {x} /\ Single(t)
  BY <1>1 DEF Range, Single
<1> QED
  BY <1>1, <1>2, SingleJoined

\* The messages in the three lines were typed.
LEMMA PlacesAre ==
  ASSUME MailInv
  PROVE  /\ Msgs(up) \subseteq DOMAIN fate /\ Msgs(outbox) \subseteq DOMAIN fate /\ Said \subseteq DOMAIN fate
         /\ \A x \in Range(outbox) : x.kind = "prompt" => home[x.msg] = x.name.chat
BY DEF MailInv, MessageInv, Lies, Taken, Msgs, Said

\* Where messages already typed stay, their order stays.
LEMMA OrderStays ==
  ASSUME MailInv, OrderInv, overtakers \subseteq overtakers', \A m \in DOMAIN fate : home'[m] = home[m]
  PROVE  /\ InLine(up, home', overtakers') /\ InLine(outbox, home', overtakers')
         /\ Leads(Said, Msgs(up), home', overtakers') /\ Leads(Said, Msgs(outbox), home', overtakers')
         /\ Leads(Msgs(up), Msgs(outbox), home', overtakers')
         /\ \A i, j \in DOMAIN heard : i < j => ~Turned(heard[i].msg, heard[j].msg, home', overtakers')
<1> DEFINE k == home'
           ow == overtakers'
<1>1. /\ InLine(up, home, overtakers) /\ InLine(outbox, home, overtakers)
      /\ Leads(Said, Msgs(up), home, overtakers) /\ Leads(Said, Msgs(outbox), home, overtakers)
      /\ Leads(Msgs(up), Msgs(outbox), home, overtakers)
      /\ \A i, j \in DOMAIN heard : i < j => ~Turned(heard[i].msg, heard[j].msg, home, overtakers)
  BY DEF OrderInv
<1>2. /\ \A m \in Msgs(up) \cup Msgs(outbox) \cup Said : k[m] = home[m]
      /\ overtakers \subseteq ow
      /\ \A i \in DOMAIN heard : k[heard[i].msg] = home[heard[i].msg]
  BY PlacesAre DEF Said
<1> HIDE DEF k, ow
<1>3. /\ \A X, Y : /\ Leads(X, Y, home, overtakers)
                   /\ \A m \in X \cup Y : k[m] = home[m]
                   => Leads(X, Y, k, ow)
      /\ \A s : /\ InLine(s, home, overtakers)
                /\ \A m \in Msgs(s) : k[m] = home[m]
                => InLine(s, k, ow)
  BY <1>2, TurnedStill
<1>4. InLine(up, k, ow) /\ InLine(outbox, k, ow)
  BY <1>1, <1>2, <1>3
<1>5. Leads(Said, Msgs(up), k, ow) /\ Leads(Said, Msgs(outbox), k, ow) /\ Leads(Msgs(up), Msgs(outbox), k, ow)
  BY <1>1, <1>2, <1>3
<1>6. \A i, j \in DOMAIN heard : i < j => ~Turned(heard[i].msg, heard[j].msg, k, ow)
  BY <1>1, <1>2 DEF Turned
<1> QED
  BY <1>4, <1>5, <1>6 DEF k, ow

\* A new message is behind every other.
LEMMA NewestLast ==
  ASSUME MailInv, NEW X \in SUBSET (DOMAIN fate), NEW h, NEW ov
  PROVE  Leads(X, {Len(fate) + 1}, h, ov)
<1>1. \A x \in X : x \in 1..Len(fate) /\ Len(fate) \in Nat
  BY Basics
<1>2. \A x \in X : ~(Len(fate) + 1 < x)
  BY <1>1
<1> QED
  BY <1>2 DEF Leads, Turned

\* deliverPrompt.
LEMMA DeliverTurns ==
  ASSUME MailInv, TurnInv, Len(fate) < MaxMessages, NEW n \in Names, Begun(n.chat),
         ~IsPending(n) => Rowed(n.chat), Deliver(Len(fate) + 1, n),
         UNCHANGED <<down, daemonVars, heard, budget>>
  PROVE  TurnInv'
<1> DEFINE m == Len(fate) + 1
           e == PromptTo(n, m)
<1>1. KnownInv /\ NamedInv /\ OrderInv /\ SlotInv
  BY DEF TurnInv, MailInv
<1>2. UNCHANGED <<ws, pendingStart, slot, screenVars, live, rows, agent, opening, heard, down>>
  BY DEF Deliver, daemonVars
<1>3. n.chat \in Chats /\ e = [kind |-> "prompt", name |-> n, msg |-> m]
  BY Basics DEF PromptTo
<1>4. Typed(m, n.chat, "written") \/ Typed(m, n.chat, "waiting")
  BY DEF Deliver
<1>5. /\ DOMAIN home' = DOMAIN fate \cup {m} /\ m \notin DOMAIN fate /\ home'[m] = n.chat
      /\ m \in Messages /\ \A x \in DOMAIN fate : home'[x] = home[x]
  <2>1. \A how \in Fates : Typed(m, n.chat, how) =>
          /\ DOMAIN fate' = DOMAIN fate \cup {m} /\ m \notin DOMAIN fate
          /\ home'[m] = n.chat /\ m \in Messages /\ \A x \in DOMAIN fate : home'[x] = home[x]
          /\ fate' \in Seq(Fates) /\ home' \in Seq(Chats) /\ Len(fate') = Len(home')
    <3> HIDE DEF m
    <3> SUFFICES ASSUME NEW how \in Fates, Typed(m, n.chat, how)
                 PROVE  /\ DOMAIN fate' = DOMAIN fate \cup {m} /\ m \notin DOMAIN fate
                        /\ home'[m] = n.chat /\ m \in Messages /\ \A x \in DOMAIN fate : home'[x] = home[x]
                        /\ fate' \in Seq(Fates) /\ home' \in Seq(Chats) /\ Len(fate') = Len(home')
      OBVIOUS
    <3> QED
      BY <1>3, TypedStill DEF m
  <2>2. {"written", "waiting"} \subseteq Fates
    BY DEF Fates
  <2>3. fate' \in Seq(Fates) /\ home' \in Seq(Chats) /\ Len(fate') = Len(home') => DOMAIN home' = DOMAIN fate'
    OBVIOUS
  <2> HIDE DEF m
  <2> QED
    BY <1>4, <2>1, <2>2, <2>3
<1>6. Len(fate) \in Nat /\ DOMAIN fate = 1..Len(fate) /\ DOMAIN home = DOMAIN fate
  BY Basics
<1>7. slot' # 0 => \A x \in DOMAIN home' : home'[x] = home'[slot'] => slot' <= x
  <2> SUFFICES ASSUME slot # 0, NEW x \in DOMAIN home', home'[x] = home'[slot] PROVE slot <= x
    BY <1>2
  <2>1. slot \in DOMAIN fate
    BY <1>1 DEF SlotInv
  <2>2. CASE x = m
    BY <1>6, <2>1, <2>2
  <2>3. CASE x \in DOMAIN fate
    BY <1>1, <1>5, <1>6, <2>1, <2>3 DEF OrderInv
  <2> QED
    BY <1>5, <2>2, <2>3
<1>8. \A x \in DOMAIN home' : home'[x] \in 0 .. Len(agent)
  <2>1. home'[m] \in 0 .. Len(agent)
    BY <1>5 DEF Begun
  <2>2. \A x \in DOMAIN fate : home[x] \in 0 .. Len(agent)
    BY <1>1, <1>6 DEF KnownInv, Begun
  <2> HIDE DEF m
  <2> QED
    BY <1>5, <2>1, <2>2
<1>9. Leads(Said, {m}, home', overtakers') /\ Leads(Msgs(up), {m}, home', overtakers')
      /\ Leads(Msgs(outbox), {m}, home', overtakers')
  BY PlacesAre, NewestLast
<1>10. Said' = Said
  BY <1>2 DEF Said
<1>11. ASSUME NEW c \in Chats, Asked(c) PROVE Unnamed(c) /\ (~IsPending(n) => n.chat # c)
  <2>1. Unnamed(c)
    BY <1>1, <1>11 DEF NamedInv
  <2> QED
    BY <2>1 DEF Unnamed, Rowed
<1>12. CASE ~IsPending(n) /\ ws = "up"
  <2>1. /\ up' = Append(up, e) /\ outbox' = outbox
        /\ overtakers' = overtakers \cup {m : z \in {x \in Prompts : home[x.msg] = n.chat}}
    BY <1>12 DEF Deliver
  <2>2. e \in Frames /\ up \in Seq(Frames)
    BY <1>3, <1>5, Basics DEF Frames, Messages
  <2> HIDE DEF m, e
  <2>3. Range(up') = Range(up) \cup {e}
    BY <2>1, <2>2, Adds
  <2>4. overtakers \subseteq overtakers'
    BY <2>1
  <2>5. Leads({m}, Msgs(outbox), home', overtakers')
    <3> SUFFICES ASSUME NEW x \in Range(outbox), x.kind = "prompt", home'[x.msg] = home'[m], m \notin overtakers'
                 PROVE  FALSE
      BY DEF Leads, Turned, Msgs
    <3>1. x.msg \in DOMAIN fate
      BY PlacesAre DEF Msgs
    <3>2. home[x.msg] = n.chat
      BY <1>5, <3>1
    <3> QED
      BY <2>1, <3>2 DEF Prompts
  <2>6. /\ Msgs(up') = Msgs(up) \cup {m}
        /\ InLine(up, home', overtakers') => InLine(up', home', overtakers')
    BY <1>3, <1>9, <2>1, <2>2, LineAdds
  <2>7. OrderInv'
    <3>1. /\ InLine(up', home', overtakers') /\ InLine(outbox', home', overtakers')
          /\ \A i, j \in DOMAIN heard' : i < j => ~Turned(heard'[i].msg, heard'[j].msg, home', overtakers')
      BY <1>1, <1>2, <1>5, <2>1, <2>4, <2>6, OrderStays
    <3>2. /\ Leads(Said, Msgs(up'), home', overtakers') /\ Leads(Said, Msgs(outbox'), home', overtakers')
      BY <1>1, <1>5, <1>9, <2>1, <2>4, <2>6, OrderStays DEF Leads
    <3>3. Leads(Msgs(up'), Msgs(outbox'), home', overtakers')
      BY <1>1, <1>5, <2>1, <2>4, <2>5, <2>6, OrderStays DEF Leads
    <3> QED
      BY <1>7, <1>10, <3>1, <3>2, <3>3 DEF OrderInv
  <2>8. KnownInv'
    BY <1>1, <1>2, <1>3, <1>8, <2>1, <2>3 DEF KnownInv, Begun, screenVars
  <2>9. ASSUME NEW c \in Chats, Asked(c)' PROVE Unnamed(c)'
    <3>1. Asked(c)
      BY <1>2, <2>1, <2>9 DEF Asked
    <3>2. Unnamed(c) /\ n.chat # c
      BY <1>11, <1>12, <3>1
    <3> QED
      BY <1>2, <1>3, <2>3, <3>2 DEF Unnamed, screenVars
  <2>10. ASSUME NEW c \in Chats, StartOf(c) \in Range(outbox') PROVE Unsent(c)'
    <3>1. Unsent(c)
      BY <1>1, <2>1, <2>10 DEF NamedInv
    <3>2. StartOf(c) # e
      BY <1>3 DEF StartOf
    <3> QED
      BY <1>2, <2>3, <3>1, <3>2 DEF Unsent
  <2>11. Single(outbox)'
    BY <1>1, <2>1 DEF NamedInv
  <2> QED
    BY <2>7, <2>8, <2>9, <2>10, <2>11 DEF TurnInv, NamedInv
<1>13. CASE ~(~IsPending(n) /\ ws = "up")
  <2>1. /\ outbox' = Append(outbox, e) /\ up' = up /\ overtakers' = overtakers
    BY <1>13 DEF Deliver
  <2>2. e \in Entries /\ outbox \in Seq(Entries)
    BY <1>3, <1>5, Basics DEF Entries, Messages
  <2> HIDE DEF m, e
  <2>3. Range(outbox') = Range(outbox) \cup {e}
    BY <2>1, <2>2, Adds
  <2>4. e \notin Range(outbox)
    BY <1>3, <1>5, PlacesAre DEF Msgs
  <2>6. /\ Msgs(outbox') = Msgs(outbox) \cup {m}
        /\ InLine(outbox, home', overtakers') => InLine(outbox', home', overtakers')
    BY <1>3, <1>9, <2>1, <2>2, LineAdds
  <2>7. OrderInv'
    <3>1. /\ InLine(up', home', overtakers') /\ InLine(outbox', home', overtakers')
          /\ \A i, j \in DOMAIN heard' : i < j => ~Turned(heard'[i].msg, heard'[j].msg, home', overtakers')
      BY <1>1, <1>2, <1>5, <2>1, <2>6, OrderStays
    <3>2. /\ Leads(Said, Msgs(up'), home', overtakers') /\ Leads(Said, Msgs(outbox'), home', overtakers')
      BY <1>1, <1>5, <1>9, <2>1, <2>6, OrderStays DEF Leads
    <3>3. Leads(Msgs(up'), Msgs(outbox'), home', overtakers')
      BY <1>1, <1>5, <1>9, <2>1, <2>6, OrderStays DEF Leads
    <3> QED
      BY <1>7, <1>10, <3>1, <3>2, <3>3 DEF OrderInv
  <2>8. KnownInv'
    BY <1>1, <1>2, <1>3, <1>8, <2>1, <2>3 DEF KnownInv, Begun, screenVars
  <2>12. \A c : StartOf(c) \in Range(outbox') => StartOf(c) \in Range(outbox)
    BY <1>3, <2>3 DEF StartOf
  <2>9. ASSUME NEW c \in Chats, Asked(c)' PROVE Unnamed(c)'
    <3>1. Asked(c)
      BY <1>2, <2>9, <2>12 DEF Asked
    <3>2. Unnamed(c)
      BY <1>11, <3>1
    <3> QED
      BY <1>2, <2>1, <3>2 DEF Unnamed, screenVars
  <2>10. ASSUME NEW c \in Chats, StartOf(c) \in Range(outbox') PROVE Unsent(c)'
    <3>1. Unsent(c)
      BY <1>1, <2>10, <2>12 DEF NamedInv
    <3> QED
      BY <1>2, <2>1, <3>1 DEF Unsent
  <2>11. Single(outbox)'
    BY <1>1, <2>1, <2>2, <2>4, SingleAdds DEF NamedInv
  <2> QED
    BY <2>7, <2>8, <2>9, <2>10, <2>11 DEF TurnInv, NamedInv
<1> QED
  BY <1>12, <1>13

\* start, for a conversation nobody has heard of.
LEMMA BeginTurns ==
  ASSUME MailInv, TurnInv, Len(fate) < MaxMessages, NEW p \in Providers, Begin(p, Len(fate) + 1),
         UNCHANGED <<down, daemonVars, heard, budget>>
  PROVE  TurnInv'
<1> DEFINE c == Len(agent) + 1
           m == Len(fate) + 1
           row == Pending(c)
           start == StartOf(c)
           first == PromptTo(row, m)
<1>1. KnownInv /\ NamedInv /\ OrderInv /\ SlotInv /\ Taken /\ agent \in Seq(Providers)
      /\ rows \subseteq Names
  BY DEF TurnInv, MailInv, MessageInv, Shapes, DaemonShapes, PhoneShapes
<1>2. /\ c <= MaxChats /\ agent' = Append(agent, p) /\ pendingStart' = row
      /\ UNCHANGED <<live, overtakers, down, opening, heard>>
      /\ \/ /\ up' = Append(up, start) /\ outbox' = outbox /\ slot' = m
            /\ home' = Append(home, c) /\ rows' = rows \cup {row} /\ restoring' = NoName
         \/ /\ up' = up /\ outbox' = outbox \o <<start, first>> /\ slot' = 0
            /\ home' = Append(home, c) /\ rows' = rows \cup {row} /\ restoring' = NoName
         \/ /\ up' = up /\ outbox' = outbox /\ slot' = 0 /\ home' = home /\ rows' = rows
            /\ restoring' = restoring
  BY DEF Begin, daemonVars
<1>3. /\ Len(agent) \in Nat /\ Len(agent') = c /\ c \in Chats /\ c >= 1
  BY <1>1, <1>2, OutboxBounds DEF Chats
<1>4. /\ row = [chat |-> c, gen |-> 0] /\ start = [kind |-> "start", name |-> row, msg |-> 0]
      /\ first = [kind |-> "prompt", name |-> row, msg |-> m] /\ IsPending(row)
      /\ NoName.chat = 0
  BY DEF Pending, StartOf, PromptTo, IsPending, NoName
<1>5. ~Begun(c)
  BY <1>3 DEF Begun
<1>6. /\ Len(fate) \in Nat /\ DOMAIN fate = 1..Len(fate) /\ DOMAIN home = DOMAIN fate
      /\ home \in Seq(Chats) /\ Len(home) = Len(fate) /\ up \in Seq(Frames) /\ outbox \in Seq(Entries)
      /\ m \in Messages /\ m \notin DOMAIN fate /\ m # 0
  <2>1. /\ Len(fate) \in Nat /\ DOMAIN fate = 1..Len(fate) /\ DOMAIN home = DOMAIN fate
        /\ home \in Seq(Chats) /\ Len(home) = Len(fate) /\ up \in Seq(Frames) /\ outbox \in Seq(Entries)
    BY Basics
  <2>2. m \in Messages /\ m \notin 1..Len(fate) /\ m # 0
    BY <2>1, OutboxBounds DEF Messages
  <2> QED
    BY <2>1, <2>2
<1> HIDE DEF c, m
<1>7. home' = Append(home, c) =>
        /\ DOMAIN home' = DOMAIN fate \cup {m} /\ home'[m] = c /\ \A x \in DOMAIN fate : home'[x] = home[x]
  <2>1. DOMAIN Append(home, c) = 1..(Len(fate) + 1) /\ Append(home, c)[Len(fate) + 1] = c
        /\ \A x \in 1..Len(fate) : Append(home, c)[x] = home[x]
    BY <1>3, <1>6, AppendIs
  <2>2. 1..(Len(fate) + 1) = 1..Len(fate) \cup {Len(fate) + 1}
    BY <1>6
  <2> QED
    BY <1>6, <2>1, <2>2 DEF m
<1>8. /\ start \in Frames /\ start \in Entries /\ first \in Entries
  <2>1. row \in Names /\ 0 \in 0 .. MaxMessages /\ m \in 0 .. MaxMessages
    BY <1>3, <1>4, <1>6, OutboxBounds DEF Names, Messages
  <2> QED
    BY <1>4, <2>1 DEF Frames, Entries
<1>9. /\ \A n \in rows : n.chat # c
      /\ \A x \in Range(up) : x.name.chat # c
      /\ \A x \in Range(outbox) : x.name.chat # c
      /\ \A x \in Range(down) : x.name.chat # c
      /\ \A n \in opening : n.chat # c
      /\ restoring.chat # c
      /\ \A x \in DOMAIN fate : home[x] # c
      /\ \A i \in DOMAIN heard : heard[i].chat # c
  <2>1. \A x \in DOMAIN fate : home[x] # c
    BY <1>1, <1>5, <1>6 DEF KnownInv
  <2>2. \A i \in DOMAIN heard : heard[i].chat # c
    BY <1>1, <2>1 DEF Taken
  <2> QED
    BY <1>1, <1>5, <2>1, <2>2 DEF KnownInv
<1>10. /\ \A n \in rows' : n \in rows \/ n = row
       /\ restoring' \in {NoName, restoring}
       /\ \A x \in Range(up') : x \in Range(up) \/ x = start
       /\ \A x \in Range(outbox') : x \in Range(outbox) \/ (up' = up /\ x \in {start, first})
       /\ \A x \in DOMAIN home' : (x \in DOMAIN fate /\ home'[x] = home[x]) \/ home'[x] = c
       /\ Single(outbox')
  <2> HIDE DEF row, start, first
  <2>1. CASE /\ up' = Append(up, start) /\ outbox' = outbox
             /\ home' = Append(home, c) /\ rows' = rows \cup {row} /\ restoring' = NoName
    <3>1. Range(up') = Range(up) \cup {start}
      BY <1>6, <1>8, <2>1, Adds
    <3> QED
      BY <1>1, <1>7, <2>1, <3>1 DEF NamedInv
  <2>2. CASE /\ up' = up /\ outbox' = outbox \o <<start, first>>
             /\ home' = Append(home, c) /\ rows' = rows \cup {row} /\ restoring' = NoName
    <3> DEFINE o == Append(outbox, start)
    <3>1. outbox \o <<start, first>> = Append(Append(outbox, start), first)
      BY <1>6, <1>8, Twice
    <3>2. o \in Seq(Entries) /\ Range(o) = Range(outbox) \cup {start}
      BY <1>6, <1>8, Adds
    <3>3. Single(o)
      <4>1. start \notin Range(outbox)
        BY <1>4, <1>9 DEF start, row
      <4> QED
        BY <1>1, <1>6, <1>8, <4>1, SingleAdds DEF NamedInv
    <3>4. outbox' = Append(o, first)
      BY <2>2, <3>1
    <3> HIDE DEF o
    <3>5. Range(outbox') = Range(o) \cup {first}
      BY <1>8, <3>2, <3>4, Adds
    <3>6. first \notin Range(o)
      BY <1>4, <1>9, <3>2 DEF first, start, row
    <3>7. Single(outbox')
      BY <1>8, <3>2, <3>3, <3>4, <3>6, SingleAdds
    <3> QED
      BY <1>7, <2>2, <3>2, <3>5, <3>7
  <2>3. CASE /\ up' = up /\ outbox' = outbox /\ home' = home /\ rows' = rows /\ restoring' = restoring
    BY <1>1, <1>6, <2>3 DEF NamedInv
  <2> QED
    BY <1>2, <2>1, <2>2, <2>3
<1>11. KnownInv'
  <2> DEFINE later == Len(agent')
  <2>2. /\ \A n \in rows' : n.chat \in 0 .. later
        /\ \A x \in Range(up') : x.name.chat \in 0 .. later
        /\ \A x \in Range(outbox') : x.name.chat \in 0 .. later
        /\ \A x \in Range(down) : x.name.chat \in 0 .. later
        /\ \A n \in opening : n.chat \in 0 .. later
        /\ restoring'.chat \in 0 .. later /\ row.chat \in 0 .. later
        /\ \A x \in DOMAIN home' : home'[x] \in 0 .. later
    <3>1. \A x : x \in 0 .. Len(agent) => x \in 0 .. later
      BY <1>3 DEF c
    <3>2. c \in 0 .. later /\ 0 \in 0 .. later
      BY <1>3
    <3> HIDE DEF later, start, first
    <3>3. /\ \A n \in rows : n.chat \in 0 .. Len(agent)
          /\ \A x \in Range(up) : x.name.chat \in 0 .. Len(agent)
          /\ \A x \in Range(outbox) : x.name.chat \in 0 .. Len(agent)
          /\ \A x \in Range(down) : x.name.chat \in 0 .. Len(agent)
          /\ \A n \in opening : n.chat \in 0 .. Len(agent)
          /\ restoring.chat \in 0 .. Len(agent)
          /\ \A x \in DOMAIN fate : home[x] \in 0 .. Len(agent)
      BY <1>1, <1>6 DEF KnownInv, Begun
    <3>4. start.name = row /\ first.name = row /\ row.chat = c
      BY <1>4
    <3> HIDE DEF row
    <3> QED
      BY <1>4, <1>10, <3>1, <3>2, <3>3, <3>4
  <2> QED
    BY <1>2, <2>2 DEF KnownInv, Begun
<1>12. ASSUME NEW d \in Chats, Asked(d)' PROVE Unnamed(d)'
  <2>1. d = c \/ (Asked(d) /\ Unnamed(d) /\ d # c)
    <3>1. CASE StartOf(d) \in Range(outbox)
      <4>1. StartOf(d).name.chat = d
        BY DEF StartOf, Pending
      <4> QED
        BY <1>1, <1>9, <3>1, <4>1 DEF Asked, NamedInv
    <3>2. CASE StartOf(d) \in {start, first}
      BY <1>4, <3>2 DEF StartOf, Pending
    <3>3. CASE pendingStart' = Pending(d)
      BY <1>2, <1>4, <3>3 DEF Pending
    <3> QED
      BY <1>10, <1>12, <3>1, <3>2, <3>3 DEF Asked
  <2>2. /\ \A n \in rows' : n.chat = d => IsPending(n)
        /\ restoring'.chat # d
        /\ \A x \in Range(up') : x.name.chat = d => x.kind = "start"
        /\ \A x \in Range(down) : x.kind = "started" /\ x.name.chat = d => x.asked
        /\ \A i \in DOMAIN heard : heard[i].chat # d
    <3>1. CASE d = c
      <4>1. c # 0
        BY <1>3
      <4> QED
        BY <1>4, <1>9, <1>10, <3>1, <4>1
    <3>2. CASE Unnamed(d) /\ d # c
      <4>1. d # 0
        BY OutboxBounds DEF Chats
      <4> QED
        BY <1>4, <1>10, <3>2, <4>1 DEF Unnamed
    <3> QED
      BY <2>1, <3>1, <3>2
  <2> QED
    BY <1>2, <2>2 DEF Unnamed
<1>13. ASSUME NEW d \in Chats, StartOf(d) \in Range(outbox') PROVE Unsent(d)'
  <2>1. CASE StartOf(d) \in Range(outbox)
    <3>1. StartOf(d).name.chat = d
      BY DEF StartOf, Pending
    <3>2. d # c /\ Unsent(d) /\ StartOf(d) # start
      BY <1>1, <1>4, <1>9, <2>1, <3>1 DEF NamedInv
    <3> QED
      BY <1>2, <1>10, <3>2 DEF Unsent
  <2>2. CASE StartOf(d) \in {start, first} /\ up' = up
    <3>1. d = c /\ StartOf(d) = start
      BY <1>4, <2>2 DEF StartOf, Pending
    <3> QED
      BY <1>2, <1>4, <1>9, <2>2, <3>1 DEF Unsent
  <2> QED
    BY <1>10, <1>13, <2>1, <2>2
<1>14. OrderInv'
  <2> DEFINE k == home'
  <2>1. overtakers \subseteq overtakers' /\ (\A x \in DOMAIN fate : k[x] = home[x]) /\ Said' = Said
    <3>1. \A x \in DOMAIN fate : k[x] = home[x]
      BY <1>2, <1>7
    <3> QED
      BY <1>2, <3>1 DEF Said
  <2>2. /\ InLine(up, k, overtakers') /\ InLine(outbox, k, overtakers')
        /\ Leads(Said, Msgs(up), k, overtakers') /\ Leads(Said, Msgs(outbox), k, overtakers')
        /\ Leads(Msgs(up), Msgs(outbox), k, overtakers')
        /\ \A i, j \in DOMAIN heard : i < j => ~Turned(heard[i].msg, heard[j].msg, k, overtakers')
    BY <1>1, <2>1, OrderStays
  <2>3. /\ Leads(Said, {m}, k, overtakers') /\ Leads(Msgs(up), {m}, k, overtakers')
        /\ Leads(Msgs(outbox), {m}, k, overtakers')
    BY PlacesAre, NewestLast DEF m
  <2> HIDE DEF k
  <2>4. /\ InLine(up', k, overtakers') /\ InLine(outbox', k, overtakers')
        /\ Msgs(up') = Msgs(up)
        /\ Msgs(outbox') = Msgs(outbox) \/ Msgs(outbox') = Msgs(outbox) \cup {m}
    <3> HIDE DEF row, start, first
    <3>0. start.kind = "start" /\ first.kind = "prompt" /\ first.msg = m
      BY <1>4 DEF start, first
    <3>1. CASE up' = Append(up, start) /\ outbox' = outbox
      BY <1>6, <1>8, <2>2, <3>0, <3>1, LineAddsFrame
    <3>2. CASE up' = up /\ outbox' = outbox \o <<start, first>>
      <4> DEFINE o == Append(outbox, start)
      <4>1. outbox \o <<start, first>> = Append(Append(outbox, start), first)
        BY <1>6, <1>8, Twice
      <4>2. o \in Seq(Entries)
        BY <1>6, <1>8, Adds
      <4>3. InLine(o, k, overtakers') /\ Msgs(o) = Msgs(outbox)
        BY <1>6, <1>8, <2>2, <3>0, LineAddsFrame
      <4>4. outbox' = Append(o, first)
        BY <3>2, <4>1
      <4> HIDE DEF o
      <4>5. InLine(outbox', k, overtakers') /\ Msgs(outbox') = Msgs(o) \cup {m}
        BY <1>8, <2>3, <3>0, <4>2, <4>3, <4>4, LineAdds
      <4> QED
        BY <2>2, <3>2, <4>3, <4>5
    <3>3. CASE up' = up /\ outbox' = outbox
      BY <2>2, <3>3
    <3> QED
      BY <1>2, <3>1, <3>2, <3>3
  <2>5. /\ Leads(Said, Msgs(up'), k, overtakers') /\ Leads(Said, Msgs(outbox'), k, overtakers')
        /\ Leads(Msgs(up'), Msgs(outbox'), k, overtakers')
    BY <2>2, <2>3, <2>4 DEF Leads
  <2>6. slot' # 0 => \A x \in DOMAIN home' : k[x] = k[slot'] => slot' <= x
    <3> SUFFICES ASSUME slot' # 0, NEW x \in DOMAIN home', k[x] = k[slot'] PROVE slot' <= x
      OBVIOUS
    <3>1. slot' = m /\ home' = Append(home, c)
      BY <1>2
    <3>2. k[m] = c /\ DOMAIN home' = DOMAIN fate \cup {m} /\ \A y \in DOMAIN fate : k[y] # c
      BY <1>7, <1>9, <3>1 DEF k
    <3>3. x = m
      BY <3>1, <3>2
    <3> QED
      BY <1>6, <3>1, <3>3 DEF Messages
  <2> QED
    BY <1>2, <2>1, <2>2, <2>4, <2>5, <2>6 DEF OrderInv, k
<1>15. Single(outbox)'
  BY <1>10 DEF Single
<1> QED
  BY <1>11, <1>12, <1>13, <1>14, <1>15 DEF TurnInv, NamedInv

\* No start of conversation k is waited for.
NotAsked(k) == \A c \in Chats : Asked(c) => k # c

\* A step that sends nothing from the queue and types nothing.
LEMMA QuietTurns ==
  ASSUME MailInv, TurnInv, UNCHANGED <<outbox, home, heard, overtakers>>,
         slot' \in {0, slot}, pendingStart' \in {NoName, pendingStart}, rows' \subseteq rows,
         \A k \in 0 .. Len(agent) : k \in 0 .. Len(agent'),
         InLine(up', home, overtakers), Msgs(up') \subseteq Msgs(up),
         \A x \in Range(up') : \/ x \in Range(up)
                               \/ /\ x.name.chat \in 0 .. Len(agent')
                                  /\ x.kind # "start" /\ NotAsked(x.name.chat),
         \/ restoring' \in {NoName, restoring}
         \/ restoring'.chat \in 0 .. Len(agent') /\ NotAsked(restoring'.chat),
         \A x \in Range(down') : \/ x \in Range(down)
                                 \/ /\ x.name.chat \in 0 .. Len(agent')
                                    /\ x.kind = "started" =>
                                         /\ x.asked \/ NotAsked(x.name.chat)
                                         /\ StartOf(x.name.chat) \notin Range(outbox),
         \A n \in opening' : \/ n \in opening
                             \/ n.chat \in 0 .. Len(agent') /\ StartOf(n.chat) \notin Range(outbox)
  PROVE  TurnInv'
<1>1. KnownInv /\ NamedInv /\ OrderInv
  BY DEF TurnInv
<1>2. NoName.chat = 0 /\ 0 \in 0 .. Len(agent') /\ \A c \in Chats : c # 0 /\ NoName # Pending(c)
  <2>1. 0 \in 0 .. Len(agent)
    BY DEF MailInv, Shapes, DaemonShapes
  <2>2. \A c \in Chats : c # 0
    BY OutboxBounds DEF Chats
  <2> QED
    BY <2>1, <2>2 DEF NoName, Pending
<1>3. KnownInv'
  <2>1. /\ \A n \in rows' : n.chat \in 0 .. Len(agent')
        /\ \A x \in Range(outbox') : x.name.chat \in 0 .. Len(agent')
        /\ \A m \in DOMAIN home' : home'[m] \in 0 .. Len(agent')
        /\ pendingStart'.chat \in 0 .. Len(agent')
    BY <1>1, <1>2 DEF KnownInv, Begun
  <2>2. \A x \in Range(up') : x.name.chat \in 0 .. Len(agent')
    BY <1>1 DEF KnownInv, Begun
  <2>3. \A x \in Range(down') : x.name.chat \in 0 .. Len(agent')
    BY <1>1 DEF KnownInv, Begun
  <2>4. (\A n \in opening' : n.chat \in 0 .. Len(agent')) /\ restoring'.chat \in 0 .. Len(agent')
    BY <1>1, <1>2 DEF KnownInv, Begun
  <2> QED
    BY <2>1, <2>2, <2>3, <2>4 DEF KnownInv, Begun
<1>4. ASSUME NEW c \in Chats, Asked(c)' PROVE Unnamed(c)'
  <2>1. Asked(c)
    BY <1>2, <1>4 DEF Asked
  <2>2. Unnamed(c) /\ \A k : NotAsked(k) => k # c
    BY <1>1, <2>1 DEF NamedInv, NotAsked
  <2>3. \A n \in rows' : n.chat = c => IsPending(n)
    BY <2>2 DEF Unnamed
  <2>4. restoring'.chat # c
    BY <1>2, <2>2 DEF Unnamed
  <2>5. \A x \in Range(up') : x.name.chat = c => x.kind = "start"
    BY <2>2 DEF Unnamed
  <2>6. \A x \in Range(down') : x.kind = "started" /\ x.name.chat = c => x.asked
    BY <2>2 DEF Unnamed
  <2>7. \A i \in DOMAIN heard' : heard'[i].chat # c
    BY <2>2 DEF Unnamed
  <2> QED
    BY <2>3, <2>4, <2>5, <2>6, <2>7 DEF Unnamed
<1>5. ASSUME NEW c \in Chats, StartOf(c) \in Range(outbox') PROVE Unsent(c)'
  <2>1. Unsent(c) /\ StartOf(c).kind = "start"
    BY <1>1, <1>5 DEF NamedInv, StartOf
  <2>2. StartOf(c) \notin Range(up')
    BY <2>1 DEF Unsent
  <2>3. \A x \in Range(down') : x.kind = "started" => x.name.chat # c
    BY <1>5, <2>1 DEF Unsent
  <2>4. \A n \in opening' : n.chat # c
    BY <1>5, <2>1 DEF Unsent
  <2> QED
    BY <2>2, <2>3, <2>4 DEF Unsent
<1>6. Single(outbox)'
  BY <1>1 DEF NamedInv
<1>7. OrderInv'
  <2>1. /\ Leads(Said, Msgs(up'), home, overtakers) /\ Leads(Msgs(up'), Msgs(outbox), home, overtakers)
    BY <1>1 DEF OrderInv, Leads
  <2>2. Said' = Said
    BY DEF Said
  <2>3. slot' # 0 => \A m \in DOMAIN home' : home'[m] = home'[slot'] => slot' <= m
    BY <1>1 DEF OrderInv
  <2> QED
    BY <1>1, <2>1, <2>2, <2>3 DEF OrderInv
<1> QED
  BY <1>3, <1>4, <1>5, <1>6, <1>7 DEF TurnInv, NamedInv

\* A conversation that has a row with a session id is not one being asked for.
LEMMA RowedApart ==
  ASSUME TurnInv, NEW k, Rowed(k) PROVE NotAsked(k)
BY DEF TurnInv, NamedInv, Unnamed, Rowed, NotAsked

\* Nothing written.
LEMMA SameLine ==
  ASSUME MailInv, TurnInv, up' = up
  PROVE  InLine(up', home, overtakers) /\ Msgs(up') \subseteq Msgs(up) /\ \A x \in Range(up') : x \in Range(up)
BY DEF TurnInv, OrderInv

LEMMA StopTurns ==
  ASSUME MailInv, TurnInv, Stop
  PROVE  TurnInv'
<1>1. slot' = 0 /\ UNCHANGED <<outbox, pendingStart, restoring, rows, up, down, opening, agent, home, heard, overtakers>>
  BY DEF Stop, screenVars, daemonVars, history
<1> QED
  BY <1>1, SameLine, QuietTurns

LEMMA ShowsTurns ==
  ASSUME MailInv, TurnInv, NEW n, Shows(n)
  PROVE  TurnInv'
<1>1. /\ slot' = 0 /\ restoring' = NoName
      /\ UNCHANGED <<outbox, pendingStart, rows, up, down, opening, agent, home, heard, overtakers>>
  BY DEF Shows, daemonVars, history
<1> QED
  BY <1>1, SameLine, QuietTurns

LEMMA ReopenTurns ==
  ASSUME MailInv, TurnInv, NEW n \in rows, Reopen(n)
  PROVE  TurnInv'
<1>1. /\ NeedsResume(n) /\ restoring' = n /\ slot' = 0
      /\ up' = IF ws = "up" THEN Append(up, Resume(n)) ELSE up
      /\ UNCHANGED <<outbox, pendingStart, rows, down, opening, agent, home, heard, overtakers>>
  BY DEF Reopen, daemonVars, history
<1>2. ~IsPending(n) /\ n \in Names /\ n.chat \in 0 .. Len(agent) /\ OrderInv /\ up \in Seq(Frames)
  BY <1>1, Basics DEF NeedsResume, Resumable, MailInv, Shapes, PhoneShapes, TurnInv, KnownInv, Begun
<1>3. NotAsked(n.chat)
  BY <1>2, RowedApart DEF Rowed
<1>4. Resume(n) \in Frames /\ Resume(n).kind = "resume" /\ Resume(n).name = n
  BY <1>2, OutboxBounds DEF Resume, Frames
<1>5. /\ InLine(up', home, overtakers) /\ Msgs(up') \subseteq Msgs(up)
      /\ \A x \in Range(up') : x \in Range(up) \/ x = Resume(n)
  <2>1. CASE ws = "up"
    <3>1. up' = Append(up, Resume(n)) /\ Resume(n).kind # "prompt"
      BY <1>1, <1>4, <2>1
    <3>2. InLine(up, home, overtakers)
      BY <1>2 DEF OrderInv
    <3>3. Range(up') = Range(up) \cup {Resume(n)}
      BY <1>2, <1>4, <3>1, Adds
    <3> QED
      BY <1>2, <1>4, <3>1, <3>2, <3>3, LineAddsFrame
  <2>2. CASE ws # "up"
    BY <1>1, <2>2, SameLine
  <2> QED
    BY <2>1, <2>2
<1>6. \A x \in Range(up') : \/ x \in Range(up)
                            \/ /\ x.name.chat \in 0 .. Len(agent')
                               /\ x.kind # "start" /\ NotAsked(x.name.chat)
  BY <1>1, <1>2, <1>3, <1>4, <1>5
<1> QED
  BY <1>1, <1>2, <1>3, <1>5, <1>6, QuietTurns

LEMMA OpensTurns ==
  ASSUME MailInv, TurnInv, Opens
  PROVE  TurnInv'
<1>1. /\ pendingStart' = NoName /\ rows' \subseteq rows /\ up' = <<Hello>>
      /\ UNCHANGED <<outbox, slot, restoring, down, opening, agent, home, heard, overtakers>>
  BY DEF Opens, daemonVars, history
<1>2. up' \in Seq({Hello}) /\ DOMAIN up' = {1} /\ up'[1] = Hello
  BY <1>1
<1>3. Hello.kind = "hello" /\ Hello.name.chat = 0
  BY DEF Hello, NoName
<1>4. InLine(up', home, overtakers) /\ Msgs(up') = {} /\ \A x \in Range(up') : x = Hello
  BY <1>2, <1>3 DEF InLine, Msgs, Range
<1>5. NotAsked(0) /\ 0 \in 0 .. Len(agent)
  <2>1. \A c \in Chats : c # 0
    BY OutboxBounds DEF Chats
  <2>2. agent \in Seq(Providers)
    BY DEF MailInv, Shapes, DaemonShapes
  <2> QED
    BY <2>1, <2>2 DEF NotAsked
<1>6. \A x \in Range(up') : /\ x.name.chat \in 0 .. Len(agent')
                            /\ x.kind # "start" /\ NotAsked(x.name.chat)
  BY <1>1, <1>3, <1>4, <1>5
<1>7. Msgs(up') \subseteq Msgs(up) /\ \A x \in Range(down') : x \in Range(down)
  BY <1>1, <1>4
<1> QED
  BY <1>1, <1>4, <1>6, <1>7, QuietTurns

LEMMA LosesTurns ==
  ASSUME MailInv, TurnInv, Loses, heard' = heard, opening' \subseteq opening
  PROVE  TurnInv'
<1>1. /\ up' = << >> /\ down' = << >>
      /\ UNCHANGED <<outbox, slot, pendingStart, restoring, rows, agent, home, heard, overtakers>>
  BY DEF Loses, screenVars, history
<1>2. DOMAIN up' = {} /\ DOMAIN down' = {}
  BY <1>1
<1>3. InLine(up', home, overtakers) /\ Msgs(up') = {} /\ Range(up') = {} /\ Range(down') = {}
  BY <1>2 DEF InLine, Msgs, Range
<1>4. Msgs(up') \subseteq Msgs(up) /\ \A n \in opening' : n \in opening
  BY <1>3
<1> QED
  BY <1>1, <1>3, <1>4, QuietTurns

\* A queued message has a pending name, or a conversation whose start was answered.
LEMMA QueuedApart ==
  ASSUME MailInv, TurnInv, NEW e \in Range(outbox), ~IsPending(e.name)
  PROVE  NotAsked(e.name.chat)
BY RowedApart DEF MailInv, RowsInv

\* The providers frame.
LEMMA AnnouncedTurns ==
  ASSUME MailInv, TurnInv, Announced
  PROVE  TurnInv'
<1> DEFINE frame == Head(down)
           stale == IF sessionRef # NoName
                    THEN IF sessionRef \in rows \ frame.live THEN sessionRef ELSE NoName
                    ELSE IF restoring = viewing THEN restoring ELSE NoName
           again == stale # NoName /\ Resumable(stale)
           before == IF again THEN <<Resume(stale)>> ELSE << >>
<1>1. /\ KnownInv /\ NamedInv /\ OrderInv /\ RowsInv /\ PhoneShapes /\ LineShapes
      /\ Lies(outbox, "waiting", fate, home)
  BY DEF TurnInv, MailInv, Shapes, MessageInv
<1>2. /\ down # << >> /\ down' = Tail(down)
      /\ IF again THEN restoring' = stale ELSE restoring' = restoring
      /\ Flush(outbox, pendingStart, live', fate, before)
      /\ UNCHANGED <<slot, rows, opening, agent, home, heard>>
  BY DEF Announced, daemonVars
<1>3. \A x \in Range(down') : x \in Range(down)
  BY <1>1, <1>2, LiesTail DEF LineShapes, Tells
<1> HIDE DEF frame
<1>4. stale \in {NoName, sessionRef, restoring} /\ stale \in Names \cup {NoName}
  BY <1>1 DEF PhoneShapes
<1> HIDE DEF stale
<1>5. again => /\ stale \in Names /\ stale.chat \in 0 .. Len(agent) /\ NotAsked(stale.chat)
               /\ Resume(stale) \in Frames
  <2> SUFFICES ASSUME again PROVE /\ stale \in Names /\ stale.chat \in 0 .. Len(agent) /\ NotAsked(stale.chat)
                                  /\ Resume(stale) \in Frames
    OBVIOUS
  <2>1. stale \in Names /\ stale # NoName
    BY <1>4
  <2>2. Resume(stale) \in Frames
    BY <2>1, OutboxBounds DEF Resume, Frames
  <2>3. CASE stale = sessionRef
    <3>1. Rowed(stale.chat)
      BY <1>1, <2>1, <2>3 DEF RowsInv
    <3>2. stale.chat \in 0 .. Len(agent)
      BY <1>1, <3>1 DEF Rowed, KnownInv, Begun
    <3> QED
      BY <2>1, <2>2, <3>1, <3>2, RowedApart
  <2>4. CASE stale = restoring
    <3>1. stale.chat \in 0 .. Len(agent)
      BY <1>1, <2>4 DEF KnownInv, Begun
    <3>2. NotAsked(stale.chat)
      BY <1>1, <2>4 DEF NamedInv, Unnamed, NotAsked
    <3> QED
      BY <2>1, <2>2, <3>1, <3>2
  <2> QED
    BY <1>4, <2>1, <2>3, <2>4
<1>6. /\ before \in Seq(Frames) /\ \A x \in Range(before) : again /\ x = Resume(stale)
      /\ \A h, ov : InLine(before, h, ov)
  <2>1. CASE again
    <3>1. before = <<Resume(stale)>>
      BY <2>1
    <3> HIDE DEF before, again
    <3>2. before \in Seq(Frames) /\ DOMAIN before = {1} /\ before[1] = Resume(stale)
      BY <1>5, <2>1, <3>1
    <3> QED
      BY <2>1, <3>2 DEF Range, InLine
  <2>2. CASE ~again
    <3>1. before = << >>
      BY <2>2
    <3> HIDE DEF before, again
    <3>2. before \in Seq(Frames) /\ DOMAIN before = {}
      BY <3>1
    <3> QED
      BY <3>2 DEF Range, InLine
  <2> QED
    BY <2>1, <2>2
<1> HIDE DEF before, again
<1>7. Resume(stale).kind = "resume" /\ Resume(stale).name = stale
  BY DEF Resume
<1>8. /\ up \in Seq(Frames) /\ Queue(outbox) /\ Single(outbox)
      /\ InLine(up, home, overtakers) /\ InLine(outbox, home, overtakers)
      /\ Leads(Msgs(up), Msgs(outbox), home, overtakers)
      /\ Leads(Said, Msgs(up), home, overtakers) /\ Leads(Said, Msgs(outbox), home, overtakers)
  BY <1>1, Basics DEF OrderInv, NamedInv, PhoneShapes
<1>9. Msgs(before) = {}
  BY <1>6, <1>7 DEF Msgs
<1>10. Msgs(up \o before) = Msgs(up) /\ InLine(up \o before, home, overtakers)
  <2>1. Leads(Msgs(up), Msgs(before), home, overtakers)
    BY <1>9 DEF Leads
  <2>2. Msgs(up \o before) = Msgs(up) \cup Msgs(before)
    BY <1>6, <1>8, LineJoined
  <2>3. InLine(up \o before, home, overtakers)
    BY <1>6, <1>8, <2>1, LineJoined
  <2> QED
    BY <1>9, <2>2, <2>3
<1>11. /\ InLine(up', home, overtakers') /\ InLine(outbox', home, overtakers')
       /\ Leads(Said, Msgs(up'), home, overtakers') /\ Leads(Said, Msgs(outbox'), home, overtakers')
       /\ Leads(Msgs(up'), Msgs(outbox'), home, overtakers')
       /\ overtakers \subseteq overtakers'
  BY <1>1, <1>2, <1>6, <1>8, <1>10, FlushOrder
<1>12. OrderInv'
  <2>1. \A i, j \in DOMAIN heard : i < j => ~Turned(heard[i].msg, heard[j].msg, home, overtakers')
    BY <1>1, <1>11 DEF OrderInv, Turned
  <2>2. Said' = Said
    BY <1>2 DEF Said
  <2>3. slot' # 0 => \A m \in DOMAIN home' : home'[m] = home'[slot'] => slot' <= m
    BY <1>1, <1>2 DEF OrderInv
  <2> QED
    BY <1>2, <1>11, <2>1, <2>2, <2>3 DEF OrderInv
<1>13. KnownInv'
  <2>1. /\ \A x \in Range(outbox) \cup Range(before) : Begun(x.name.chat)
        /\ Begun(pendingStart.chat) /\ Begun(restoring'.chat)
    BY <1>1, <1>2, <1>5, <1>6, <1>7 DEF KnownInv, Begun
  <2>2. (\A n \in rows' : Begun(n.chat)) /\ (\A x \in Range(down') : Begun(x.name.chat))
    BY <1>1, <1>2, <1>3 DEF KnownInv
  <2> QED
    BY <1>1, <1>2, <1>6, <1>8, <2>1, <2>2, FlushKnows
<1>14. NamedInv'
  <2>1. ASSUME NEW c \in Chats, AskedBy(c, outbox, pendingStart) PROVE UnnamedBy(c, outbox, before)
    <3>1. Asked(c) /\ Unnamed(c)
      BY <1>1, <2>1 DEF AskedBy, Asked, NamedInv
    <3>2. \A k : NotAsked(k) => k # c
      BY <3>1 DEF NotAsked
    <3>3. restoring'.chat # c
      BY <1>2, <1>5, <3>1, <3>2 DEF Unnamed
    <3>4. \A x \in Range(up) \cup Range(before) : x.name.chat = c => x.kind = "start"
      BY <1>5, <1>6, <1>7, <3>1, <3>2 DEF Unnamed
    <3>5. \A e \in Range(outbox) : e.kind = "prompt" /\ e.name.chat = c => IsPending(e.name)
      BY <3>2, QueuedApart
    <3> QED
      BY <1>2, <1>3, <3>1, <3>3, <3>4, <3>5 DEF Unnamed, UnnamedBy
  <2>2. ASSUME NEW c \in Chats, StartOf(c) \in Range(outbox) PROVE UnsentBy(c, before)
    <3>1. Unsent(c)
      BY <1>1, <2>2 DEF NamedInv
    <3>2. StartOf(c) \notin Range(before)
      BY <1>6, <1>7 DEF StartOf
    <3> QED
      BY <1>2, <1>3, <3>1, <3>2 DEF Unsent, UnsentBy
  <2> QED
    BY <1>2, <1>6, <1>8, <2>1, <2>2, FlushNames
<1> QED
  BY <1>12, <1>13, <1>14 DEF TurnInv

\* session.started.
LEMMA NamedTurns ==
  ASSUME MailInv, TurnInv, Named
  PROVE  TurnInv'
<1> DEFINE f == Head(down)
           d == f.name.chat
           adopted == f.asked /\ pendingStart = Pending(d)
           reopened == f.resumed /\ awaiting /\ restoring # NoName /\ restoring.chat = d
           claims == Claims(f, adopted, reopened)
           sends == claims /\ slot # 0
           gone == Renamed(f, adopted)
           o == Remap(outbox, gone, f.name)
           ps == IF adopted THEN NoName ELSE pendingStart
           g == IF sends THEN Mark(fate, {slot}, "written") ELSE fate
           first == PromptTo(f.name, slot)
           before == IF sends THEN <<first>> ELSE << >>
<1>1. /\ KnownInv /\ NamedInv /\ OrderInv /\ RowsInv /\ SlotInv /\ Taken /\ PhoneShapes /\ LineShapes
      /\ Lies(outbox, "waiting", fate, home) /\ Waits(outbox, fate) /\ Lies(up, "written", fate, home)
  BY DEF TurnInv, MailInv, Shapes, MessageInv
<1>2. /\ down # << >> /\ f.kind = "started" /\ down' = Tail(down)
      /\ restoring' \in {NoName, restoring}
      /\ slot' \in {0, slot}
      /\ rows' = (rows \ gone) \cup {f.name}
      /\ Flush(o, ps, live', g, before)
      /\ UNCHANGED <<opening, agent, home, heard>>
  BY DEF Named, daemonVars
<1>3. /\ f \in Range(down) /\ \A x \in Range(down') : x \in Range(down)
  BY <1>1, <1>2, LiesTail DEF LineShapes, Tells
<1>4. f.name \in Names /\ ~IsPending(f.name) /\ d \in 0 .. Len(agent) /\ d \in Chats
  <2>1. f.name \in Names /\ ~IsPending(f.name)
    BY <1>1, <1>2, HeadTold
  <2>2. d \in 0 .. Len(agent)
    BY <1>1, <1>3 DEF KnownInv, Begun
  <2> QED
    BY <2>1, <2>2, Basics
<1>5. \A n \in gone : n.chat = d
  BY DEF Renamed, Pending
<1>6. sends => /\ slot \in DOMAIN fate /\ home[slot] = d /\ pendingStart = Pending(d)
  <2> SUFFICES ASSUME slot # 0, claims PROVE slot \in DOMAIN fate /\ home[slot] = d /\ pendingStart = Pending(d)
    OBVIOUS
  <2>1. slot \in DOMAIN fate /\ viewing = Pending(home[slot]) /\ restoring = NoName
    BY <1>1 DEF SlotInv
  <2>2. home[slot] \in Chats /\ viewing \in Names /\ viewing # NoName
    BY <2>1, Basics
  <2>3. viewing = Pending(d) /\ pendingStart = Pending(d)
    BY <2>1, <2>2 DEF Claims
  <2> QED
    BY <2>1, <2>3 DEF Pending
<1>7. \A c \in Chats : AskedBy(c, outbox, ps) => Asked(c) /\ c # d
  <2> SUFFICES ASSUME NEW c \in Chats, AskedBy(c, outbox, ps) PROVE Asked(c) /\ c # d
    OBVIOUS
  <2>1. CASE StartOf(c) \in Range(outbox)
    <3>1. Unsent(c)
      BY <1>1, <2>1 DEF NamedInv
    <3> QED
      BY <1>2, <1>3, <2>1, <3>1 DEF Unsent, Asked
  <2>2. CASE ps = Pending(c)
    <3>1. NoName # Pending(c)
      BY OutboxBounds DEF NoName, Pending, Chats
    <3>2. ~adopted /\ pendingStart = Pending(c)
      BY <2>2, <3>1
    <3>3. Unnamed(c)
      BY <1>1, <3>2 DEF NamedInv, Asked
    <3>4. c = d => f.asked
      BY <1>2, <1>3, <3>3 DEF Unnamed
    <3> QED
      BY <3>2, <3>4 DEF Asked
  <2> QED
    BY <2>1, <2>2 DEF AskedBy
<1>8. first.kind = "prompt" /\ first.msg = slot /\ first.name = f.name /\ first \in Frames
  <2>1. slot \in 0 .. MaxMessages
    BY <1>1 DEF PhoneShapes
  <2> QED
    BY <1>4, <2>1 DEF PromptTo, Frames
<1>9. adopted => pendingStart = Pending(d)
  OBVIOUS
<1> HIDE DEF f, d, adopted, reopened, claims, gone, g, first
<1>10. /\ Queue(o) /\ DOMAIN o = DOMAIN outbox
       /\ \A i \in DOMAIN outbox : /\ o[i].kind = outbox[i].kind /\ o[i].msg = outbox[i].msg
                                   /\ o[i].name.chat = outbox[i].name.chat
                                   /\ o[i].name = outbox[i].name \/ o[i].name = f.name
       /\ \A i \in DOMAIN outbox : outbox[i].kind # "prompt" => o[i] = outbox[i]
  <2>1. /\ Queue(o) /\ DOMAIN o = DOMAIN outbox
        /\ \A i \in DOMAIN outbox : /\ o[i].kind = outbox[i].kind /\ o[i].msg = outbox[i].msg
                                    /\ o[i].name.chat = outbox[i].name.chat
                                    /\ o[i].name = outbox[i].name \/ o[i].name = f.name
    BY <1>1, <1>4, <1>5, RemapKeeps DEF PhoneShapes, d
  <2>2. \A i \in DOMAIN outbox : outbox[i].kind # "prompt" => o[i] = outbox[i]
    BY DEF Remap
  <2> QED
    BY <2>1, <2>2
<1> HIDE DEF o
<1>11. Lies(o, "waiting", fate, home)
  BY <1>1, <1>10, RemapLies
<1>12. Single(o)
  <2> SUFFICES ASSUME NEW i \in DOMAIN outbox, NEW j \in DOMAIN outbox, o[i] = o[j] PROVE i = j
    BY <1>10 DEF Single
  <2>1. CASE outbox[i].kind = "prompt"
    BY <1>1, <1>10, <2>1 DEF Lies, Apart
  <2>2. CASE outbox[i].kind # "prompt"
    <3>1. o[i] = outbox[i] /\ o[j] = outbox[j]
      BY <1>10, <2>2
    <3> QED
      BY <1>1, <3>1 DEF NamedInv, Single
  <2> QED
    BY <2>1, <2>2
<1>13. \A c : StartOf(c) \in Range(o) => StartOf(c) \in Range(outbox)
  <2> SUFFICES ASSUME NEW c, NEW i \in DOMAIN outbox, o[i] = StartOf(c) PROVE StartOf(c) \in Range(outbox)
    BY <1>10 DEF Range
  <2>1. o[i].kind = "start"
    BY DEF StartOf
  <2> QED
    BY <1>10, <2>1 DEF Range
<1>14. /\ before \in Seq(Frames) /\ (\A x \in Range(before) : sends /\ x = first)
       /\ (\A h, ov : InLine(before, h, ov)) /\ Msgs(before) \subseteq (IF sends THEN {slot} ELSE {})
  <2>1. CASE sends
    <3>1. before = <<first>>
      BY <2>1
    <3> HIDE DEF before, sends
    <3>2. before \in Seq(Frames) /\ DOMAIN before = {1} /\ before[1] = first
      BY <1>8, <3>1
    <3> QED
      BY <1>8, <2>1, <3>2 DEF Range, InLine, Msgs
  <2>2. CASE ~sends
    <3>1. before = << >>
      BY <2>2
    <3> HIDE DEF before, sends
    <3>2. before \in Seq(Frames) /\ DOMAIN before = {}
      BY <3>1
    <3> QED
      BY <2>2, <3>2 DEF Range, InLine, Msgs
  <2> QED
    BY <2>1, <2>2
<1> HIDE DEF before
<1>15. /\ up \in Seq(Frames)
       /\ InLine(up, home, overtakers) /\ InLine(outbox, home, overtakers)
       /\ Leads(Msgs(up), Msgs(outbox), home, overtakers)
       /\ Leads(Said, Msgs(up), home, overtakers) /\ Leads(Said, Msgs(outbox), home, overtakers)
  BY <1>1, Basics DEF OrderInv
<1>16. InLine(o, home, overtakers) /\ Msgs(o) = Msgs(outbox)
  BY <1>10, <1>15, LineRemapped
<1>17. sends => /\ Leads(Msgs(up), {slot}, home, overtakers) /\ Leads(Said, {slot}, home, overtakers)
                /\ Leads({slot}, Msgs(outbox), home, overtakers)
  <2> SUFFICES ASSUME sends
               PROVE  /\ Leads(Msgs(up), {slot}, home, overtakers) /\ Leads(Said, {slot}, home, overtakers)
                      /\ Leads({slot}, Msgs(outbox), home, overtakers)
    OBVIOUS
  <2>1. home[slot] = d /\ Unnamed(d) /\ slot \in DOMAIN fate
    BY <1>1, <1>4, <1>6 DEF NamedInv, Asked
  <2>2. \A x \in Range(up) : x.kind = "prompt" => home[x.msg] # d
    BY <1>1, <2>1 DEF Unnamed, Lies
  <2>3. \A i \in DOMAIN heard : home[heard[i].msg] # d
    BY <1>1, <2>1 DEF Unnamed, Taken
  <2>4. \A y \in Msgs(outbox) : home[y] = d => ~(y < slot)
    <3> SUFFICES ASSUME NEW y \in Msgs(outbox), home[y] = d PROVE ~(y < slot)
      OBVIOUS
    <3>1. y \in DOMAIN home /\ y \in Int /\ slot \in Int
      BY <2>1, PlacesAre, Basics
    <3>2. slot <= y
      BY <1>1, <2>1, <3>1 DEF OrderInv, sends
    <3> QED
      BY <3>1, <3>2
  <2>5. Leads(Msgs(up), {slot}, home, overtakers)
    BY <2>1, <2>2 DEF Leads, Turned, Msgs
  <2>6. Leads(Said, {slot}, home, overtakers)
    BY <2>1, <2>3 DEF Leads, Turned, Said
  <2>7. Leads({slot}, Msgs(outbox), home, overtakers)
    BY <2>1, <2>4 DEF Leads, Turned
  <2> QED
    BY <2>5, <2>6, <2>7
<1> HIDE DEF sends
<1>18. /\ InLine(up \o before, home, overtakers)
       /\ Leads(Msgs(up \o before), Msgs(o), home, overtakers)
       /\ Leads(Said, Msgs(up \o before), home, overtakers)
  <2>1. Leads(Msgs(up), Msgs(before), home, overtakers)
    BY <1>14, <1>17 DEF Leads
  <2>2. Msgs(up \o before) = Msgs(up) \cup Msgs(before)
    BY <1>14, <1>15, LineJoined
  <2>3. InLine(up \o before, home, overtakers)
    BY <1>14, <1>15, <2>1, LineJoined
  <2>4. Leads(Msgs(up \o before), Msgs(o), home, overtakers)
    BY <1>14, <1>15, <1>16, <1>17, <2>2 DEF Leads
  <2>5. Leads(Said, Msgs(up \o before), home, overtakers)
    BY <1>14, <1>15, <1>17, <2>2 DEF Leads
  <2> QED
    BY <2>3, <2>4, <2>5
<1>19. /\ InLine(up', home, overtakers') /\ InLine(outbox', home, overtakers')
       /\ Leads(Said, Msgs(up'), home, overtakers') /\ Leads(Said, Msgs(outbox'), home, overtakers')
       /\ Leads(Msgs(up'), Msgs(outbox'), home, overtakers')
       /\ overtakers \subseteq overtakers'
  BY <1>2, <1>10, <1>11, <1>12, <1>14, <1>15, <1>16, <1>18, FlushOrder
<1>20. OrderInv'
  <2>1. \A i, j \in DOMAIN heard : i < j => ~Turned(heard[i].msg, heard[j].msg, home, overtakers')
    BY <1>1, <1>19 DEF OrderInv, Turned
  <2>2. Said' = Said
    BY <1>2 DEF Said
  <2>3. slot' # 0 => \A m \in DOMAIN home' : home'[m] = home'[slot'] => slot' <= m
    BY <1>1, <1>2 DEF OrderInv
  <2> QED
    BY <1>2, <1>19, <2>1, <2>2, <2>3 DEF OrderInv
<1>21. KnownInv'
  <2>1. \A x \in Range(o) : Begun(x.name.chat)
    BY <1>1, <1>10 DEF KnownInv, Range
  <2>2. \A x \in Range(before) : Begun(x.name.chat)
    BY <1>4, <1>8, <1>14 DEF Begun, d
  <2>3. Begun(0) /\ NoName.chat = 0
    BY <1>4, OutboxBounds DEF Begun, NoName
  <2>4. Begun(ps.chat) /\ Begun(restoring'.chat)
    BY <1>1, <1>2, <2>3 DEF KnownInv
  <2>5. (\A n \in rows' : Begun(n.chat)) /\ (\A x \in Range(down') : Begun(x.name.chat))
    BY <1>1, <1>2, <1>3, <1>4 DEF KnownInv, Begun, d
  <2> QED
    BY <1>1, <1>2, <1>10, <1>12, <1>14, <1>15, <2>1, <2>2, <2>4, <2>5, FlushKnows
<1>22. NamedInv'
  <2>1. ASSUME NEW c \in Chats, AskedBy(c, o, ps) PROVE UnnamedBy(c, o, before)
    <3>0. AskedBy(c, outbox, ps)
      BY <1>13, <2>1 DEF AskedBy
    <3>1. c # d /\ Asked(c) /\ Unnamed(c)
      BY <1>1, <1>7, <3>0 DEF NamedInv
    <3>2. \A k : NotAsked(k) => k # c
      BY <3>1 DEF NotAsked
    <3>3. restoring'.chat # c
      <4>1. c # 0 /\ NoName.chat = 0
        BY OutboxBounds DEF Chats, NoName
      <4> QED
        BY <1>2, <3>1, <4>1 DEF Unnamed
    <3>4. \A x \in Range(up) \cup Range(before) : x.name.chat = c => x.kind = "start"
      BY <1>8, <1>14, <3>1 DEF Unnamed, d
    <3>5. \A e \in Range(o) : e.kind = "prompt" /\ e.name.chat = c => IsPending(e.name)
      <4> SUFFICES ASSUME NEW i \in DOMAIN outbox, o[i].kind = "prompt", o[i].name.chat = c
                   PROVE  IsPending(o[i].name)
        BY <1>10 DEF Range
      <4>1. o[i].name = outbox[i].name
        BY <1>10, <3>1 DEF d
      <4>2. outbox[i] \in Range(outbox)
        BY DEF Range
      <4> QED
        BY <3>2, <4>1, <4>2, QueuedApart
    <3>6. \A n \in rows' : n.chat = c => IsPending(n)
      BY <1>2, <3>1 DEF Unnamed, d
    <3> QED
      BY <1>2, <1>3, <3>1, <3>3, <3>4, <3>5, <3>6 DEF Unnamed, UnnamedBy
  <2>2. ASSUME NEW c \in Chats, StartOf(c) \in Range(o) PROVE UnsentBy(c, before)
    <3>1. Unsent(c)
      BY <1>1, <1>13, <2>2 DEF NamedInv
    <3>2. StartOf(c) \notin Range(before)
      BY <1>8, <1>14 DEF StartOf
    <3> QED
      BY <1>2, <1>3, <3>1, <3>2 DEF Unsent, UnsentBy
  <2> QED
    BY <1>2, <1>10, <1>12, <1>14, <1>15, <2>1, <2>2, FlushNames
<1> QED
  BY <1>20, <1>21, <1>22 DEF TurnInv

\* What the user types: the name it goes under is known.
LEMMA StartTurns ==
  ASSUME MailInv, TurnInv, NEW p \in Providers, Start(p)
  PROVE  TurnInv'
<1>1. /\ Len(fate) < MaxMessages
      /\ UNCHANGED <<down, daemonVars, heard, budget>>
  BY DEF Start
<1>2. CASE StartsFor(p) # << >>
  <2> DEFINE S == {e \in Range(outbox) : e.kind = "start" /\ agent[e.name.chat] = p}
             n == Head(StartsFor(p)).name
  <2>1. Deliver(Len(fate) + 1, n)
    BY <1>2 DEF Start
  <2>2. outbox \in Seq(Entries) /\ Range(outbox) = ToSet(outbox) /\ Queue(outbox)
    BY Basics, RangeOf DEF MailInv, Shapes, PhoneShapes
  <2>3. StartsFor(p) = Keep(outbox, S)
    BY DEF StartsFor
  <2>4. StartsFor(p) \in Seq(Entries) /\ ToSet(StartsFor(p)) \subseteq S
    <3> HIDE DEF S
    <3> QED
      BY <2>2, <2>3, KeepPicks, KeepElements
  <2>5. Head(StartsFor(p)) \in ToSet(StartsFor(p))
    BY <1>2, <2>4 DEF ToSet
  <2>6. PICK e \in Range(outbox) : e.kind = "start" /\ n = e.name
    BY <2>4, <2>5
  <2>7. e \in Entries /\ IsPending(n) /\ n \in Names
    <3>1. e \in Entries
      BY <2>2, <2>6, RangeOf
    <3> HIDE DEF n
    <3> QED
      BY <2>2, <2>6, <3>1 DEF Queue, Entries
  <2>8. Begun(n.chat)
    BY <2>6 DEF TurnInv, KnownInv
  <2> HIDE DEF n
  <2> QED
    BY <1>1, <2>1, <2>7, <2>8, DeliverTurns
<1>3. CASE StartsFor(p) = << >>
  <2>1. Begin(p, Len(fate) + 1)
    BY <1>3 DEF Start
  <2> QED
    BY <1>1, <2>1, BeginTurns
<1> QED
  BY <1>2, <1>3

LEMMA PromptTurns ==
  ASSUME MailInv, TurnInv, NEW n \in rows \cup {sessionRef}, Prompt(n)
  PROVE  TurnInv'
<1>1. /\ Len(fate) < MaxMessages /\ n # NoName
      /\ n = sessionRef \/ (n \in rows /\ ~IsPending(n))
      /\ Deliver(Len(fate) + 1, n)
      /\ UNCHANGED <<down, daemonVars, heard, budget>>
  BY DEF Prompt
<1>2. n \in Names
  BY <1>1 DEF MailInv, Shapes, PhoneShapes
<1>3. Rowed(n.chat)
  BY <1>1, <1>2 DEF MailInv, RowsInv, Rowed
<1>4. Begun(n.chat)
  BY <1>3 DEF Rowed, TurnInv, KnownInv
<1> QED
  BY <1>1, <1>2, <1>3, <1>4, DeliverTurns

\* A frame handled by the daemon.
LEMMA HandledLine ==
  ASSUME MailInv, TurnInv, NEW kind, Takes(kind)
  PROVE  /\ up # << >> /\ Head(up).kind = kind /\ Head(up) \in Range(up) /\ Writable(Head(up))
         /\ up' = Tail(up) /\ Range(up') \subseteq Range(up)
         /\ InLine(up', home, overtakers) /\ Msgs(up') \subseteq Msgs(up)
         /\ Head(up).name.chat \in 0 .. Len(agent)
         /\ UNCHANGED <<outbox, slot, pendingStart, restoring, rows, agent, home, overtakers>>
<1>1. /\ up # << >> /\ Head(up).kind = kind /\ up' = Tail(up)
      /\ UNCHANGED <<outbox, slot, pendingStart, restoring, rows, agent, home, overtakers>>
  BY DEF Takes, phoneVars, screenVars
<1>2. up \in Seq(Frames) /\ LineShapes /\ InLine(up, home, overtakers) /\ KnownInv
  BY Basics DEF MailInv, Shapes, TurnInv, OrderInv
<1>3. Range(Tail(up)) \subseteq Range(up)
  BY <1>1, <1>2, LiesTail
<1>4. InLine(up', home, overtakers) /\ Msgs(up') \subseteq Msgs(up)
  BY <1>1, <1>2, LineTail
<1>5. Head(up) \in Range(up) /\ Writable(Head(up))
  BY <1>1, <1>2, HeadWritten
<1>6. Head(up).name.chat \in 0 .. Len(agent)
  BY <1>2, <1>5 DEF KnownInv, Begun
<1> QED
  BY <1>1, <1>3, <1>4, <1>5, <1>6

LEMMA TakesHelloTurns ==
  ASSUME MailInv, TurnInv, TakesHello
  PROVE  TurnInv'
<1>1. Takes("hello") /\ down' = Append(down, Welcome) /\ UNCHANGED <<daemonVars, fate, heard>>
  BY DEF TakesHello
<1>2. DaemonShapes /\ down \in Seq(Answers)
  BY DEF MailInv, Shapes, LineShapes, Tells
<1>3. Welcome \in Answers /\ Welcome.kind = "providers" /\ Welcome.name.chat = 0
  BY <1>2 DEF Welcome, Answers, DaemonShapes, NoName
<1>4. Range(down') = Range(down) \cup {Welcome}
  BY <1>1, <1>2, <1>3, Adds
<1>5. 0 \in 0 .. Len(agent') /\ agent' = agent
  BY <1>1, <1>2, HandledLine DEF DaemonShapes
<1>6. \A x \in Range(down') : \/ x \in Range(down)
                              \/ x.name.chat \in 0 .. Len(agent') /\ x.kind # "started"
  BY <1>3, <1>4, <1>5
<1>7. UNCHANGED <<opening, heard>>
  BY <1>1 DEF daemonVars
<1> QED
  BY <1>1, <1>6, <1>7, HandledLine, QuietTurns

\* The start of a conversation that the daemon has is not in the queue.
LEMMA TakesStartTurns ==
  ASSUME MailInv, TurnInv, TakesStart
  PROVE  TurnInv'
<1> DEFINE c == Head(up).name.chat
<1>1. /\ Takes("start") /\ opening' = opening \cup {Fresh(c)} /\ UNCHANGED <<down, fate, heard>>
  BY DEF TakesStart
<1>2. DaemonShapes /\ NamedInv
  BY DEF MailInv, Shapes, TurnInv
<1>3. /\ Head(up) \in Range(up) /\ Head(up).kind = "start" /\ Writable(Head(up)) /\ up \in Seq(Frames)
      /\ c \in 0 .. Len(agent) /\ agent' = agent
  BY <1>1, HandledLine, Basics
<1>4. c \in Chats /\ Head(up) = StartOf(c)
  <2>1. Head(up).name \in Names /\ IsPending(Head(up).name) /\ Head(up).msg = 0
    BY <1>3 DEF Writable
  <2>2. Head(up).name = Pending(c) /\ c \in Chats
    BY <2>1 DEF Names, IsPending, Pending
  <2>3. Head(up) \in Frames
    BY <1>3, RangeOf
  <2>4. Head(up) = [kind |-> Head(up).kind, name |-> Head(up).name, msg |-> Head(up).msg]
    BY <2>3 DEF Frames
  <2> QED
    BY <1>3, <2>1, <2>2, <2>4 DEF StartOf
<1> HIDE DEF c
<1>5. Fresh(c).chat = c
  BY <1>2, <1>4, MintKeeps
<1>6. StartOf(c) \notin Range(outbox)
  BY <1>2, <1>3, <1>4 DEF NamedInv, Unsent
<1>7. \A n \in opening' : \/ n \in opening
                          \/ n.chat \in 0 .. Len(agent') /\ StartOf(n.chat) \notin Range(outbox)
  BY <1>1, <1>3, <1>5, <1>6
<1> QED
  BY <1>1, <1>7, HandledLine, QuietTurns

\* A conversation that is resumed had its start answered.
LEMMA TakesResumeTurns ==
  ASSUME MailInv, TurnInv, TakesResume
  PROVE  TurnInv'
<1> DEFINE c == Head(up).name.chat
           x == StartedFrame(Fresh(c), FALSE, TRUE)
<1>1. /\ Takes("resume") /\ down' = Append(down, x) /\ UNCHANGED <<opening, fate, heard>>
  BY DEF TakesResume
<1>2. DaemonShapes /\ NamedInv /\ down \in Seq(Answers)
  BY DEF MailInv, Shapes, TurnInv, LineShapes, Tells
<1>3. /\ Head(up) \in Range(up) /\ Head(up).kind = "resume" /\ Writable(Head(up))
      /\ c \in 0 .. Len(agent) /\ agent' = agent
  BY <1>1, HandledLine
<1>4. c \in Chats
  BY <1>3 DEF Writable, Names
<1>5. NotAsked(c)
  BY <1>2, <1>3 DEF NamedInv, Unnamed, NotAsked
<1>6. StartOf(c) \notin Range(outbox)
  BY <1>4, <1>5 DEF NotAsked, Asked
<1> HIDE DEF c
<1>7. Fresh(c).chat = c /\ x \in Answers /\ x.kind = "started" /\ x.name = Fresh(c)
  BY <1>2, <1>4, MintKeeps
<1> HIDE DEF x
<1>8. Range(down') = Range(down) \cup {x}
  BY <1>1, <1>2, <1>7, Adds
<1>9. \A y \in Range(down') :
        \/ y \in Range(down)
        \/ /\ y.name.chat \in 0 .. Len(agent')
           /\ NotAsked(y.name.chat) /\ StartOf(y.name.chat) \notin Range(outbox)
  BY <1>3, <1>5, <1>6, <1>7, <1>8
<1> QED
  BY <1>1, <1>9, HandledLine, QuietTurns

\* The message a session takes is ahead of those written after it.
LEMMA TakesPromptTurns ==
  ASSUME MailInv, TurnInv, TakesPrompt
  PROVE  TurnInv'
<1> DEFINE m == Head(up).msg
           c == Head(up).name.chat
           it == [msg |-> m, chat |-> c]
<1>1. /\ Takes("prompt") /\ heard' \in {heard, Append(heard, it)} /\ UNCHANGED <<down, daemonVars>>
  BY DEF TakesPrompt
<1>2. /\ Head(up) \in Range(up) /\ Head(up).kind = "prompt" /\ up \in Seq(Frames) /\ up # << >>
      /\ up' = Tail(up) /\ Range(up') \subseteq Range(up)
      /\ InLine(up', home, overtakers) /\ Msgs(up') \subseteq Msgs(up)
      /\ UNCHANGED <<outbox, slot, pendingStart, restoring, rows, agent, home, overtakers>>
  BY <1>1, HandledLine, Basics
<1>3. UNCHANGED <<down, opening>>
  BY <1>1 DEF daemonVars
<1>4. KnownInv /\ NamedInv /\ OrderInv /\ heard \in Seq([msg : Messages, chat : Chats])
  BY DEF TurnInv, MailInv, Shapes, HistoryShapes
<1>5. it.msg = m /\ it.chat = c /\ it \in [msg : Messages, chat : Chats]
  <2>1. m \in DOMAIN fate /\ Writable(Head(up))
    BY <1>1, <1>2, HandledLine DEF MailInv, MessageInv, Lies
  <2>2. m \in Messages /\ c \in Chats
    BY <1>2, <2>1, Basics DEF Writable, Names, Messages
  <2> QED
    BY <2>2
<1> HIDE DEF m, c, it
<1>6. /\ DOMAIN heard = 1 .. Len(heard) /\ Len(heard) \in Nat
      /\ \A i \in DOMAIN heard' : \/ i \in DOMAIN heard /\ heard'[i] = heard[i]
                                  \/ i = Len(heard) + 1 /\ heard'[i] = it
  <2>1. /\ DOMAIN Append(heard, it) = 1 .. Len(heard) + 1 /\ Append(heard, it)[Len(heard) + 1] = it
        /\ \A i \in 1 .. Len(heard) : Append(heard, it)[i] = heard[i]
    BY <1>4, <1>5, AppendIs
  <2>2. DOMAIN heard = 1 .. Len(heard) /\ Len(heard) \in Nat
    BY <1>4
  <2>3. \A i \in 1 .. Len(heard) + 1 : i \in 1 .. Len(heard) \/ i = Len(heard) + 1
    BY <2>2
  <2>4. CASE heard' = heard
    BY <2>2, <2>4
  <2>5. CASE heard' = Append(heard, it)
    BY <2>1, <2>2, <2>3, <2>5
  <2> QED
    BY <1>1, <2>2, <2>4, <2>5
<1>7. KnownInv'
  BY <1>2, <1>3, <1>4 DEF KnownInv, Begun
<1>8. ASSUME NEW d \in Chats, Asked(d)' PROVE Unnamed(d)'
  <2>1. Asked(d) /\ Unnamed(d)
    BY <1>2, <1>4, <1>8 DEF Asked, NamedInv
  <2>2. c # d
    BY <1>2, <2>1 DEF Unnamed, c
  <2>3. \A i \in DOMAIN heard' : heard'[i].chat # d
    BY <1>5, <1>6, <2>1, <2>2 DEF Unnamed
  <2> QED
    BY <1>2, <1>3, <2>1, <2>3 DEF Unnamed
<1>9. ASSUME NEW d \in Chats, StartOf(d) \in Range(outbox') PROVE Unsent(d)'
  BY <1>2, <1>3, <1>4, <1>9 DEF NamedInv, Unsent
<1>10. Single(outbox)'
  BY <1>2, <1>4 DEF NamedInv
<1>11. Said' \subseteq Said \cup {m}
  BY <1>5, <1>6 DEF Said
<1>12. /\ m \in Msgs(up) /\ Leads({m}, Msgs(up'), home, overtakers)
  <2>1. m \in Msgs(up)
    BY <1>2, LineTail DEF m
  <2>2. Leads({m}, Msgs(up'), home, overtakers)
    BY <1>2, <1>4, LineTail DEF OrderInv, m
  <2> QED
    BY <2>1, <2>2
<1>13. OrderInv'
  <2>1. /\ Leads(Said, Msgs(up), home, overtakers) /\ Leads(Said, Msgs(outbox), home, overtakers)
        /\ Leads(Msgs(up), Msgs(outbox), home, overtakers)
        /\ \A i, j \in DOMAIN heard : i < j => ~Turned(heard[i].msg, heard[j].msg, home, overtakers)
    BY <1>4 DEF OrderInv
  <2>2. Leads(Said', Msgs(up'), home, overtakers)
    BY <1>2, <1>11, <1>12, <2>1 DEF Leads
  <2>3. Leads(Said', Msgs(outbox), home, overtakers)
    BY <1>11, <1>12, <2>1 DEF Leads
  <2>4. Leads(Msgs(up'), Msgs(outbox), home, overtakers)
    BY <1>2, <2>1 DEF Leads
  <2>5. ASSUME NEW i \in DOMAIN heard', NEW j \in DOMAIN heard', i < j
        PROVE  ~Turned(heard'[i].msg, heard'[j].msg, home, overtakers)
    <3>1. CASE j \in DOMAIN heard /\ heard'[j] = heard[j]
      <4>1. i \in DOMAIN heard /\ heard'[i] = heard[i]
        BY <1>6, <2>5, <3>1
      <4> QED
        BY <2>1, <2>5, <3>1, <4>1
    <3>2. CASE j = Len(heard) + 1 /\ heard'[j] = it
      <4>1. i \in DOMAIN heard /\ heard'[i] = heard[i]
        BY <1>6, <2>5, <3>2
      <4>2. heard[i].msg \in Said
        BY <4>1 DEF Said
      <4> QED
        BY <1>5, <1>12, <2>1, <3>2, <4>1, <4>2 DEF Leads
    <3> QED
      BY <1>6, <3>1, <3>2
  <2>6. slot' # 0 => \A k \in DOMAIN home' : home'[k] = home'[slot'] => slot' <= k
    BY <1>2, <1>4 DEF OrderInv
  <2>7. InLine(up', home, overtakers) /\ InLine(outbox, home, overtakers)
    BY <1>2, <1>4 DEF OrderInv
  <2> QED
    BY <1>2, <2>2, <2>3, <2>4, <2>5, <2>6, <2>7 DEF OrderInv
<1> QED
  BY <1>7, <1>8, <1>9, <1>10, <1>13 DEF TurnInv, NamedInv

\* A broadcast adds one frame at most.
LEMMA ToldLine ==
  ASSUME MailInv, NEW x \in Answers, Broadcast(x)
  PROVE  \A y \in Range(down') : y \in Range(down) \/ y = x
<1>1. down \in Seq(Answers)
  BY DEF MailInv, Shapes, LineShapes, Tells
<1>2. Range(Append(down, x)) = Range(down) \cup {x}
  BY <1>1, Adds
<1> QED
  BY <1>2 DEF Broadcast

\* The answer to a start is to one that was sent.
LEMMA StartedTurns ==
  ASSUME MailInv, TurnInv, NEW n \in opening, Started(n)
  PROVE  TurnInv'
<1> DEFINE x == StartedFrame(n, TRUE, FALSE)
<1>1. /\ opening' = opening \ {n} /\ Broadcast(x)
      /\ UNCHANGED <<outbox, slot, pendingStart, restoring, rows, up, agent, home, heard, overtakers>>
  BY DEF Started, phoneVars, screenVars, history
<1>2. NamedInv /\ KnownInv /\ n \in Names
  BY DEF TurnInv, MailInv, Shapes, DaemonShapes
<1>3. x \in Answers /\ x.name = n /\ x.asked
  BY <1>2 DEF StartedFrame, Answers
<1>4. n.chat \in 0 .. Len(agent) /\ n.chat \in Chats
  BY <1>2 DEF KnownInv, Begun, Names
<1>5. StartOf(n.chat) \notin Range(outbox)
  BY <1>2, <1>4 DEF NamedInv, Unsent
<1> HIDE DEF x
<1>6. \A y \in Range(down') : y \in Range(down) \/ y = x
  BY <1>1, <1>3, ToldLine
<1>7. \A y \in Range(down') :
        \/ y \in Range(down)
        \/ y.name.chat \in 0 .. Len(agent') /\ y.asked /\ StartOf(y.name.chat) \notin Range(outbox)
  BY <1>1, <1>3, <1>4, <1>5, <1>6
<1>8. \A k \in opening' : k \in opening
  BY <1>1
<1> QED
  BY <1>1, <1>7, <1>8, SameLine, QuietTurns

\* A conversation another phone begins is new: nobody here asked for it.
LEMMA ElsewhereTurns ==
  ASSUME MailInv, TurnInv, NEW p \in Providers, Elsewhere(p)
  PROVE  TurnInv'
<1> DEFINE c == Len(agent) + 1
           x == StartedFrame(Fresh(c), FALSE, FALSE)
<1>1. /\ Len(agent) < MaxChats /\ agent' = Append(agent, p) /\ Broadcast(x)
      /\ UNCHANGED <<outbox, slot, pendingStart, restoring, rows, up, opening, home, heard, overtakers>>
  BY DEF Elsewhere, phoneVars, screenVars, history
<1>2. DaemonShapes /\ KnownInv /\ agent \in Seq(Providers) /\ Len(agent) \in Nat
  BY DEF TurnInv, MailInv, Shapes, DaemonShapes
<1>3. c \in Chats /\ c \notin 0 .. Len(agent) /\ c \in 0 .. Len(agent')
      /\ \A k \in 0 .. Len(agent) : k \in 0 .. Len(agent')
  BY <1>1, <1>2, OutboxBounds DEF Chats
<1> HIDE DEF c
<1>4. /\ \A d \in Chats : Pending(d).chat = d
      /\ \A d \in Chats : StartOf(d).name.chat = d
  BY DEF Pending, StartOf
<1>5. \A d \in Chats : Asked(d) => d \in 0 .. Len(agent)
  BY <1>2, <1>4 DEF Asked, KnownInv, Begun
<1>6. NotAsked(c) /\ StartOf(c) \notin Range(outbox)
  BY <1>3, <1>5 DEF NotAsked, Asked
<1>7. Fresh(c).chat = c /\ x \in Answers /\ x.name = Fresh(c)
  BY <1>2, <1>3, MintKeeps
<1> HIDE DEF x
<1>8. \A y \in Range(down') : y \in Range(down) \/ y = x
  BY <1>1, <1>7, ToldLine
<1>9. \A y \in Range(down') :
        \/ y \in Range(down)
        \/ /\ y.name.chat \in 0 .. Len(agent')
           /\ NotAsked(y.name.chat) /\ StartOf(y.name.chat) \notin Range(outbox)
  BY <1>3, <1>6, <1>7, <1>8
<1> QED
  BY <1>1, <1>3, <1>9, SameLine, QuietTurns

\* Steps that take from the daemon's sessions, or nothing.
LEMMA FewerTurns ==
  ASSUME MailInv, TurnInv, opening' \subseteq opening,
         UNCHANGED <<phoneVars, up, down, agent, history>>
  PROVE  TurnInv'
<1>1. UNCHANGED <<outbox, slot, pendingStart, restoring, rows, up, down, agent, home, heard, overtakers>>
  BY DEF phoneVars, screenVars, history
<1> QED
  BY <1>1, SameLine, QuietTurns

LEMMA UpsetTurns ==
  ASSUME MailInv, TurnInv, Upset
  PROVE  TurnInv'
<1>1. CASE Drop
  <2>1. Loses /\ UNCHANGED daemonVars
    BY <1>1 DEF Drop
  <2>2. heard' = heard /\ opening' \subseteq opening
    BY <2>1 DEF Loses, history, daemonVars
  <2> QED
    BY <2>1, <2>2, LosesTurns
<1>2. CASE Restart
  <2>1. Loses /\ opening' = {}
    BY <1>2 DEF Restart
  <2>2. heard' = heard
    BY <2>1 DEF Loses, history
  <2> QED
    BY <2>1, <2>2, LosesTurns
<1>3. CASE \E n \in opening : StartFails(n)
  BY <1>3, FewerTurns DEF StartFails
<1>4. CASE \E n \in sessions : Closes(n)
  BY <1>4, FewerTurns DEF Closes
<1>5. CASE \E p \in Providers : Elsewhere(p)
  BY <1>5, ElsewhereTurns
<1> QED
  BY <1>1, <1>2, <1>3, <1>4, <1>5 DEF Upset

LEMMA InitTurns == Init => TurnInv
<1> SUFFICES ASSUME Init PROVE TurnInv
  OBVIOUS
<1>1. DOMAIN outbox = {} /\ DOMAIN up = {} /\ DOMAIN down = {} /\ DOMAIN heard = {} /\ DOMAIN home = {}
      /\ Len(agent) = 0
  BY DEF Init
<1>2. Range(outbox) = {} /\ Range(up) = {} /\ Range(down) = {} /\ Said = {} /\ Msgs(up) = {} /\ Msgs(outbox) = {}
  BY <1>1 DEF Range, Said, Msgs
<1>3. rows = {} /\ opening = {} /\ restoring = NoName /\ pendingStart = NoName /\ slot = 0
  BY DEF Init
<1>4. KnownInv
  BY <1>1, <1>2, <1>3 DEF KnownInv, Begun, NoName
<1>5. NamedInv
  <2>1. \A c \in Chats : ~Asked(c)
    BY <1>2, <1>3, OutboxBounds DEF Asked, Chats, Pending, NoName
  <2> QED
    BY <1>1, <1>2, <2>1 DEF NamedInv, Single
<1>6. OrderInv
  BY <1>1, <1>2, <1>3 DEF OrderInv, InLine, Leads
<1> QED
  BY <1>4, <1>5, <1>6 DEF TurnInv

LEMMA NextTurns == MailInv /\ TurnInv /\ [Next]_vars => TurnInv'
<1> SUFFICES ASSUME MailInv, TurnInv, [Next]_vars PROVE TurnInv'
  OBVIOUS
<1>1. CASE UNCHANGED vars
  BY <1>1, FewerTurns DEF vars, daemonVars
<1>2. CASE User
  BY <1>2, StartTurns, StopTurns, ShowsTurns, PromptTurns, ReopenTurns DEF User, Leave, Open
<1>3. CASE Opens
  BY <1>3, OpensTurns
<1>4. CASE Receives
  BY <1>4, AnnouncedTurns, NamedTurns DEF Receives
<1>5. CASE Daemon
  BY <1>5, TakesHelloTurns, TakesStartTurns, TakesResumeTurns, TakesPromptTurns, StartedTurns DEF Daemon
<1>6. CASE Upset
  BY <1>6, UpsetTurns
<1> QED
  BY <1>1, <1>2, <1>3, <1>4, <1>5, <1>6 DEF Next

\* The agent reads a conversation in the order it was typed, whatever is put back, renamed,
\* resumed and restarted, but for what passed an older message that could not go yet.
THEOREM ReadInOrder == Safety => []InOrder
<1>1. Init => MailInv /\ TurnInv
  BY InitMail, InitTurns
<1>2. MailInv /\ TurnInv /\ [Next]_vars => (MailInv /\ TurnInv)'
  BY NextMail, NextTurns
<1>3. MailInv /\ TurnInv => InOrder
  <2> SUFFICES ASSUME MailInv, TurnInv, NEW i \in DOMAIN heard, NEW j \in DOMAIN heard,
                      i < j, heard[i].chat = heard[j].chat, heard[i].msg > heard[j].msg
               PROVE  heard[i].msg \in overtakers
    BY DEF InOrder
  <2>1. ~Turned(heard[i].msg, heard[j].msg, home, overtakers)
    BY DEF TurnInv, OrderInv
  <2>2. heard[i].chat = home[heard[i].msg] /\ heard[j].chat = home[heard[j].msg]
    BY DEF MailInv, MessageInv, Taken
  <2>3. heard[j].msg < heard[i].msg
    BY DEF MailInv, Shapes, HistoryShapes, Messages
  <2> QED
    BY <2>1, <2>2, <2>3 DEF Turned
<1> QED
  BY <1>1, <1>2, <1>3, PTL DEF Safety


-----------------------------------------------------------------------------
(***************************************************************************)
(* What becomes of a message.                                              *)
(***************************************************************************)

\* What was typed is sent or given up, what was sent is heard, refused or lost, and
\* that is the end of it.
Moves(m) ==
    \/ fate[m] \in {"waiting", "slot"} /\ fate'[m] = "written"
    \/ fate[m] = "slot" /\ fate'[m] \in {"stopped", "forgotten"}
    \/ fate[m] = "written" /\ fate'[m] \in {"refused", "lost"}
    \/ /\ fate[m] = "written" /\ fate'[m] = "heard"
       /\ heard' = Append(heard, [msg |-> m, chat |-> home[m]])
Onward ==
    /\ \A m \in DOMAIN fate : /\ m \in DOMAIN fate' /\ home'[m] = home[m]
                              /\ fate'[m] = fate[m] \/ Moves(m)
    /\ \A m \in DOMAIN fate' \ DOMAIN fate : fate'[m] \in {"waiting", "slot", "written"}
    /\ \/ heard' = heard
       \/ \E m \in DOMAIN fate : /\ fate[m] = "written" /\ fate'[m] = "heard"
                                 /\ heard' = Append(heard, [msg |-> m, chat |-> home[m]])

\* Nothing typed and nothing taken: the fates alone move.
LEMMA FatesMove ==
  ASSUME MailInv, UNCHANGED <<home, heard>>, DOMAIN fate' = DOMAIN fate,
         \A m \in DOMAIN fate : fate'[m] = fate[m] \/ Moves(m)
  PROVE  Onward
BY DEF Onward

LEMMA MarkMoves ==
  ASSUME MailInv, UNCHANGED <<home, heard>>, NEW S, NEW how \in Fates, fate' = Mark(fate, S, how),
         \A m \in S \cap DOMAIN fate : \/ fate[m] = "slot" /\ how \in {"stopped", "forgotten"}
                                       \/ fate[m] = "written" /\ how \in {"refused", "lost"}
  PROVE  Onward
<1>1. DOMAIN fate' = DOMAIN fate /\ \A m \in DOMAIN fate : fate'[m] = IF m \in S THEN how ELSE fate[m]
  BY MarkKeeps, Basics
<1>2. \A m \in DOMAIN fate : fate'[m] = fate[m] \/ Moves(m)
  BY <1>1 DEF Moves
<1> QED
  BY <1>1, <1>2, FatesMove

\* The message held for a start.
LEMMA SlotMoves ==
  ASSUME MailInv, UNCHANGED <<home, heard>>, NEW how \in {"stopped", "forgotten"},
         fate' = Mark(fate, {slot}, how)
  PROVE  Onward
<1>1. \A m \in {slot} \cap DOMAIN fate : fate[m] = "slot"
  BY Basics DEF MailInv, SlotInv
<1>2. how \in Fates
  BY DEF Fates
<1> QED
  BY <1>1, <1>2, MarkMoves

LEMMA DeliverMoves ==
  ASSUME MailInv, Len(fate) < MaxMessages, NEW n \in Names, Deliver(Len(fate) + 1, n), heard' = heard
  PROVE  Onward
<1>1. n.chat \in Chats /\ {"written", "waiting"} \subseteq Fates
  BY Basics DEF Fates
<1>2. PICK how \in {"written", "waiting"} : Typed(Len(fate) + 1, n.chat, how)
  BY DEF Deliver
<1>3. /\ DOMAIN fate' = DOMAIN fate \cup {Len(fate) + 1} /\ fate'[Len(fate) + 1] = how
      /\ \A m \in DOMAIN fate : fate'[m] = fate[m] /\ home'[m] = home[m]
  BY <1>1, <1>2, TypedStill
<1> QED
  BY <1>3 DEF Onward

LEMMA BeginMoves ==
  ASSUME MailInv, Len(fate) < MaxMessages, NEW p \in Providers, Begin(p, Len(fate) + 1), heard' = heard
  PROVE  Onward
<1> DEFINE g == Forget(fate)
           c == Len(agent) + 1
<1>1. c \in Chats
  BY OutboxBounds DEF MailInv, Shapes, DaemonShapes, Begin, Chats
<1>2. /\ g \in Seq(Fates) /\ Len(g) = Len(fate) /\ DOMAIN g = DOMAIN fate
      /\ \A m \in DOMAIN fate : g[m] = IF m \in {slot} THEN "forgotten" ELSE fate[m]
  BY MarkKeeps, Basics DEF Forget, Fates
<1>3. \A m \in DOMAIN fate : m = slot => fate[m] = "slot"
  BY Basics DEF MailInv, SlotInv
<1>4. \/ fate' = Append(g, "slot") /\ home' = Append(home, c)
      \/ fate' = Append(g, "waiting") /\ home' = Append(home, c)
      \/ fate' = g /\ home' = home
  BY DEF Begin
<1> HIDE DEF g, c
<1>5. ASSUME NEW how \in {"slot", "waiting"}, fate' = Append(g, how), home' = Append(home, c)
      PROVE  Onward
  <2>1. how \in Fates /\ HistoryShapes
    BY DEF Fates, MailInv, Shapes
  <2>2. /\ DOMAIN fate' = DOMAIN fate \cup {Len(fate) + 1} /\ fate'[Len(fate) + 1] = how
        /\ \A m \in DOMAIN fate : fate'[m] = g[m] /\ home'[m] = home[m]
    BY <1>1, <1>2, <1>5, <2>1, TypedKeeps
  <2>3. \A m \in DOMAIN fate : fate'[m] = fate[m] \/ Moves(m)
    BY <1>2, <1>3, <2>2 DEF Moves
  <2> QED
    BY <2>2, <2>3 DEF Onward
<1>6. ASSUME fate' = g, home' = home PROVE Onward
  <2>1. \A m \in DOMAIN fate : fate'[m] = fate[m] \/ Moves(m)
    BY <1>2, <1>3, <1>6 DEF Moves
  <2> QED
    BY <1>2, <1>6, <2>1, FatesMove
<1> QED
  BY <1>4, <1>5, <1>6

LEMMA StartMoves ==
  ASSUME MailInv, NEW p \in Providers, Start(p)
  PROVE  Onward
<1>1. Len(fate) < MaxMessages /\ heard' = heard
  BY DEF Start
<1>2. CASE StartsFor(p) # << >>
  <2> DEFINE S == {e \in Range(outbox) : e.kind = "start" /\ agent[e.name.chat] = p}
             n == Head(StartsFor(p)).name
  <2>1. Deliver(Len(fate) + 1, n)
    BY <1>2 DEF Start
  <2>2. outbox \in Seq(Entries) /\ StartsFor(p) = Keep(outbox, S)
    BY Basics DEF StartsFor
  <2>3. StartsFor(p) \in Seq(Entries)
    <3> HIDE DEF S
    <3> QED
      BY <2>2, KeepPicks
  <2>4. Head(StartsFor(p)) \in Entries
    BY <1>2, <2>3
  <2>5. n \in Names
    BY <2>4 DEF Entries
  <2> HIDE DEF n
  <2> QED
    BY <1>1, <2>1, <2>5, DeliverMoves
<1>3. CASE StartsFor(p) = << >>
  <2>1. Begin(p, Len(fate) + 1)
    BY <1>3 DEF Start
  <2> QED
    BY <1>1, <2>1, BeginMoves
<1> QED
  BY <1>2, <1>3

LEMMA PromptMoves ==
  ASSUME MailInv, NEW n \in rows \cup {sessionRef}, Prompt(n)
  PROVE  Onward
<1>1. Len(fate) < MaxMessages /\ n # NoName /\ Deliver(Len(fate) + 1, n) /\ heard' = heard
  BY DEF Prompt
<1>2. n \in Names
  BY <1>1 DEF MailInv, Shapes, PhoneShapes
<1> QED
  BY <1>1, <1>2, DeliverMoves

LEMMA UserMoves ==
  ASSUME MailInv, User
  PROVE  Onward
<1>1. ASSUME NEW n, Shows(n) \/ Reopen(n) PROVE Onward
  <2>1. fate' = Mark(fate, {slot}, "forgotten") /\ UNCHANGED <<home, heard>>
    BY <1>1 DEF Shows, Reopen, history, Forget
  <2> QED
    BY <2>1, SlotMoves
<1>2. ASSUME Stop PROVE Onward
  <2>1. fate' = Mark(fate, {slot}, "stopped") /\ UNCHANGED <<home, heard>>
    BY <1>2 DEF Stop, history
  <2> QED
    BY <2>1, SlotMoves
<1> QED
  BY <1>1, <1>2, StartMoves, PromptMoves DEF User, Leave, Open

LEMMA LosesMoves ==
  ASSUME MailInv, Loses
  PROVE  Onward
<1> DEFINE S == {f.msg : f \in Range(up)}
<1>1. fate' = Mark(fate, S, "lost") /\ UNCHANGED <<home, heard>>
  BY DEF Loses, history
<1>2. \A m \in S \cap DOMAIN fate : fate[m] = "written"
  <2> SUFFICES ASSUME NEW x \in Range(up), x.msg \in DOMAIN fate PROVE fate[x.msg] = "written"
    OBVIOUS
  <2>1. x \in Frames /\ Writable(x)
    BY RangeOf DEF MailInv, Shapes, LineShapes, Writes
  <2>2. x.kind = "prompt"
    BY <2>1, Basics DEF Frames, Writable
  <2> QED
    BY <2>2 DEF MailInv, MessageInv, Lies
<1>3. "lost" \in Fates
  BY DEF Fates
<1> HIDE DEF S
<1> QED
  BY <1>1, <1>2, <1>3, MarkMoves

\* The one step that takes a message.
LEMMA TakesPromptMoves ==
  ASSUME MailInv, TakesPrompt
  PROVE  Onward
<1> DEFINE m == Head(up).msg
           known == Head(up).name \in sessions
           how == IF known THEN "heard" ELSE "refused"
           it == [msg |-> m, chat |-> Head(up).name.chat]
<1>1. /\ Takes("prompt") /\ fate' = Mark(fate, {m}, how)
      /\ heard' = (IF known THEN Append(heard, it) ELSE heard)
  BY DEF TakesPrompt
<1>2. LineShapes /\ MessageInv /\ up # << >> /\ Head(up).kind = "prompt" /\ home' = home
  BY <1>1 DEF MailInv, Shapes, Takes
<1>3. m \in DOMAIN fate /\ fate[m] = "written" /\ home[m] = Head(up).name.chat
  BY <1>2, HeadWritten DEF MessageInv, Lies
<1>4. it = [msg |-> m, chat |-> home[m]] /\ how \in Fates
  BY <1>3 DEF Fates
<1> HIDE DEF m, known, it
<1>5. CASE ~known
  <2>1. how = "refused" /\ heard' = heard
    BY <1>1, <1>5
  <2> HIDE DEF how
  <2> QED
    BY <1>1, <1>2, <1>3, <1>4, <2>1, MarkMoves
<1>6. CASE known
  <2>1. how = "heard" /\ heard' = Append(heard, [msg |-> m, chat |-> home[m]])
    BY <1>1, <1>4, <1>6
  <2> HIDE DEF how
  <2>2. DOMAIN fate' = DOMAIN fate /\ \A k \in DOMAIN fate : fate'[k] = IF k \in {m} THEN how ELSE fate[k]
    BY <1>1, <1>4, MarkKeeps, Basics
  <2>3. \A k \in DOMAIN fate : fate'[k] = fate[k] \/ Moves(k)
    BY <1>3, <2>1, <2>2 DEF Moves
  <2> QED
    BY <1>2, <1>3, <2>1, <2>2, <2>3 DEF Onward
<1> QED
  BY <1>5, <1>6

LEMMA NextMoves == MailInv /\ Next => Onward
<1> SUFFICES ASSUME MailInv, Next PROVE Onward
  OBVIOUS
<1>1. ASSUME UNCHANGED <<fate, home, heard>> PROVE Onward
  BY <1>1 DEF Onward
<1>2. CASE Opens
  BY <1>1, <1>2 DEF Opens, history
<1>3. CASE Receives
  <2>1. SentOnly /\ UNCHANGED <<home, heard>>
    BY <1>3, AnnouncedKeeps, NamedKeeps DEF Receives, Announced, Named
  <2> QED
    BY <2>1, FatesMove DEF SentOnly, Moves
<1>4. CASE Daemon
  BY <1>1, <1>4, TakesPromptMoves
  DEF Daemon, TakesHello, TakesStart, TakesResume, Started, Takes, history
<1>5. CASE Upset
  BY <1>1, <1>5, LosesMoves DEF Upset, Drop, Restart, StartFails, Closes, Elsewhere, history
<1> QED
  BY <1>2, <1>3, <1>4, <1>5, UserMoves DEF Next

\* A message goes one way: written once, then heard, refused or lost, and never
\* again after that, whatever is put back, resumed and reconnected; and it counts as
\* heard exactly when a session of its own conversation takes it.
THEOREM MessagesMoveOn == Safety => [][Onward]_<<fate, home, heard>>
<1>1. MailInv /\ [Next]_vars => [Onward]_<<fate, home, heard>>
  <2> SUFFICES ASSUME MailInv, [Next]_vars PROVE [Onward]_<<fate, home, heard>>
    OBVIOUS
  <2>1. CASE Next
    BY <2>1, NextMoves
  <2>2. CASE UNCHANGED vars
    BY <2>2 DEF vars, history
  <2> QED
    BY <2>1, <2>2
<1> QED
  BY <1>1, MailInvariant, PTL DEF Safety


\* The messages whose fate is to be heard are those that a session took.
HeardAreSaid == {m \in DOMAIN fate : fate[m] = "heard"} = Said

LEMMA HeardStays == MailInv /\ HeardAreSaid /\ [Next]_vars => HeardAreSaid'
<1> SUFFICES ASSUME MailInv, HeardAreSaid, [Next]_vars PROVE HeardAreSaid'
  OBVIOUS
<1>1. heard \in Seq([msg : Messages, chat : Chats])
  BY DEF MailInv, Shapes, HistoryShapes
<1>2. ASSUME NEW m \in DOMAIN fate, heard' = Append(heard, [msg |-> m, chat |-> home[m]])
      PROVE  Said' = Said \cup {m}
  <2> DEFINE it == [msg |-> m, chat |-> home[m]]
  <2>1. it \in [msg : Messages, chat : Chats] /\ it.msg = m
    BY Basics DEF Messages
  <2> HIDE DEF it
  <2>2. /\ DOMAIN heard = 1 .. Len(heard) /\ Len(heard) \in Nat /\ DOMAIN heard' = 1 .. Len(heard) + 1
        /\ heard'[Len(heard) + 1] = it /\ \A i \in 1 .. Len(heard) : heard'[i] = heard[i]
    BY <1>1, <1>2, <2>1, AppendIs DEF it
  <2>3. 1 .. Len(heard) + 1 = (1 .. Len(heard)) \cup {Len(heard) + 1}
    BY <2>2
  <2> QED
    BY <2>1, <2>2, <2>3 DEF Said
<1>3. CASE Next
  <2>1. Onward
    BY <1>3, NextMoves
  <2>2. \A m \in DOMAIN fate : fate[m] = "heard" => fate'[m] = "heard"
    BY <2>1 DEF Onward, Moves
  <2>3. CASE heard' = heard
    <3>1. Said' = Said
      BY <2>3 DEF Said
    <3>2. \A m \in DOMAIN fate' : fate'[m] = "heard" => m \in DOMAIN fate /\ (fate[m] = "heard" \/ m \in Said')
      BY <1>2, <2>1 DEF Onward, Moves
    <3> QED
      BY <2>1, <2>2, <3>1, <3>2 DEF HeardAreSaid, Onward
  <2>4. ASSUME NEW m \in DOMAIN fate, fate[m] = "written", fate'[m] = "heard",
               heard' = Append(heard, [msg |-> m, chat |-> home[m]])
        PROVE  HeardAreSaid'
    <3>1. Said' = Said \cup {m}
      BY <1>2, <2>4
    <3>2. \A k \in DOMAIN fate' : fate'[k] = "heard" => k \in DOMAIN fate /\ (fate[k] = "heard" \/ k \in Said')
      BY <1>2, <2>1 DEF Onward, Moves
    <3> QED
      BY <2>1, <2>2, <2>4, <3>1, <3>2 DEF HeardAreSaid, Onward
  <2> QED
    BY <2>1, <2>3, <2>4 DEF Onward
<1>4. CASE UNCHANGED vars
  BY <1>4 DEF vars, history, HeardAreSaid, Said
<1> QED
  BY <1>3, <1>4

\* The fates and the sessions agree on what was taken: no message more, and none less.
THEOREM HeardMeansTaken == Safety => []HeardAreSaid
<1>1. Init => HeardAreSaid
  BY DEF Init, HeardAreSaid, Said
<1> QED
  BY <1>1, HeardStays, MailInvariant, PTL DEF Safety
=============================================================================
