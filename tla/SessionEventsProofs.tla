------------------------- MODULE SessionEventsProofs -------------------------
(***************************************************************************)
(* Theorems about the events of a conversation: for any number of phones,  *)
(* events and drops, and any size of the log and of a batch.               *)
(***************************************************************************)
EXTENDS SessionEvents, WellFoundedInduction, TLAPS

\* A set of events that is not empty has a newest one, which is what Max returns.
LEMMA NewestExists ==
  ASSUME NEW F \in SUBSET Seqs, F # {}
  PROVE  Max(F) \in F /\ \A s \in F : s <= Max(F)
<1> DEFINE T == {MaxEvents - s : s \in F}
<1>1. T \subseteq Nat /\ T # {}
  <2>1. \A s \in F : MaxEvents - s \in Nat
    BY Sizes DEF Seqs
  <2>2. PICK s \in F : TRUE
    OBVIOUS
  <2>3. MaxEvents - s \in T
    OBVIOUS
  <2> QED
    BY <2>1, <2>3
<1>2. PICK least \in T : \A y \in T : ~ (<<y, least>> \in OpToRel(<, Nat))
  <2> HIDE DEF T
  <2> QED
    BY <1>1, NatLessThanWellFounded, WFMin
<1>3. \A y \in T : ~ (y < least)
  BY <1>1, <1>2 DEF OpToRel
<1>4. PICK top \in F : least = MaxEvents - top
  BY <1>2
<1>5. \A s \in F : top >= s
  BY <1>3, <1>4, Sizes DEF Seqs
<1>6. Max(F) \in F /\ \A s \in F : Max(F) >= s
  BY <1>5 DEF Max
<1> QED
  BY <1>6, Sizes DEF Seqs

\* Every frame the daemon sends from its log is a set of logged events.
LEMMA SinceType ==
  ASSUME TypeOK, NEW c, NEW s \in Since(c, first, next)
  PROVE  s \in Seqs /\ s \in first .. next - 1
  BY Sizes DEF Since, TypeOK, Seqs

-----------------------------------------------------------------------------
(***************************************************************************)
(* Types.                                                                  *)
(***************************************************************************)
LEMMA AppendType ==
  ASSUME TypeOK, Append1
  PROVE  /\ next' = next + 1 /\ next' \in Seqs /\ next \in Seqs
         /\ first' \in Seqs /\ first <= first' /\ (first <= next => first' <= next')
  BY Sizes DEF TypeOK, Append1, Seqs

LEMMA BroadcastType ==
  ASSUME TypeOK, NEW F \in SUBSET Seqs, Broadcast(F)
  PROVE  wire' \in [Phones -> Seq(SUBSET Seqs)]
<1>1. \A p \in Phones : Append(wire[p], F) \in Seq(SUBSET Seqs) /\ wire[p] \in Seq(SUBSET Seqs)
  BY DEF TypeOK
<1> QED
  BY <1>1 DEF Broadcast

\* What a phone takes from a frame: events it has not seen, and a cursor on the
\* newest of them.
LEMMA ReceiveFrame ==
  ASSUME TypeOK, NEW p \in Phones, Receive(p)
  PROVE  LET H == Head(wire[p])  N == Fresh(p, H)
         IN  /\ H \in SUBSET Seqs /\ N \in SUBSET H
             /\ \A s \in H : s \in N <=> s > cursor[p]
             /\ shown' = [shown EXCEPT ![p] = Shown(@, N)]
             /\ cursor' \in [Phones -> -1 .. MaxEvents]
             /\ \A q \in Phones : q # p => cursor'[q] = cursor[q]
             /\ N = {} => cursor'[p] = cursor[p]
             /\ N # {} => cursor'[p] \in N /\ \A s \in N : s <= cursor'[p]
             /\ cursor[p] <= cursor'[p]
<1> DEFINE H == Head(wire[p])
           N == Fresh(p, H)
<1>1. H \in SUBSET Seqs /\ cursor \in [Phones -> -1 .. MaxEvents]
  BY DEF Receive, TypeOK
<1>2. N \in SUBSET H /\ \A s \in H : s \in N <=> s > cursor[p]
  BY <1>1, Sizes DEF Fresh, AlreadySeen, Seqs
<1>3. shown' = [shown EXCEPT ![p] = Shown(@, N)]
      /\ cursor' = [cursor EXCEPT ![p] = IF N = {} THEN @ ELSE Max(N)]
  BY DEF Receive
<1>4. ASSUME N # {} PROVE Max(N) \in N /\ \A s \in N : s <= Max(N)
  BY <1>1, <1>2, <1>4, NewestExists
<1> HIDE DEF H, N
<1>5. CASE N = {}
  BY <1>1, <1>2, <1>3, <1>5, Sizes DEF H, N
<1>6. CASE N # {}
  <2>1. Max(N) \in Seqs /\ Max(N) \in -1 .. MaxEvents /\ Max(N) > cursor[p]
    <3>1. Max(N) \in N /\ Max(N) \in H
      BY <1>2, <1>4, <1>6
    <3>2. Max(N) \in 0 .. MaxEvents /\ Max(N) > cursor[p]
      BY <1>1, <1>2, <3>1 DEF Seqs
    <3> QED
      BY <3>2, Sizes DEF Seqs
  <2>2. cursor' = [cursor EXCEPT ![p] = Max(N)]
    BY <1>3, <1>6
  <2>3. cursor'[p] = Max(N) /\ (\A q \in Phones : q # p => cursor'[q] = cursor[q])
        /\ cursor' \in [Phones -> -1 .. MaxEvents]
    BY <1>1, <2>1, <2>2
  <2>4. cursor[p] <= cursor'[p]
    BY <1>1, <2>1, <2>3, Sizes DEF Seqs
  <2> QED
    BY <1>1, <1>2, <1>3, <1>4, <1>6, <2>3, <2>4 DEF H, N
<1> QED
  BY <1>5, <1>6

LEMMA TypeStep == TypeOK /\ [Next]_vars => TypeOK'
<1> SUFFICES ASSUME TypeOK, [Next]_vars PROVE TypeOK'
  OBVIOUS
<1> USE DEF logVars, phoneVars
<1>1. CASE UNCHANGED vars
  BY <1>1 DEF vars, TypeOK
<1>2. CASE Record
  <2>1. next' \in Seqs /\ first' \in Seqs /\ {next} \in SUBSET Seqs /\ pending \cup {next} \in SUBSET Seqs
    BY <1>2, AppendType DEF Record, TypeOK
  <2>2. wire' \in [Phones -> Seq(SUBSET Seqs)] /\ pending' \in SUBSET Seqs
    <3>1. CASE ~live
      BY <1>2, <3>1 DEF Record, TypeOK
    <3>2. CASE live /\ ~streaming
      BY <1>2, <2>1, <3>2, BroadcastType DEF Record, TypeOK
    <3>3. CASE live /\ streaming
      <4>1. CASE Cardinality(pending) + 1 >= BatchSize
        BY <1>2, <2>1, <3>3, <4>1, BroadcastType DEF Record
      <4>2. CASE ~ (Cardinality(pending) + 1 >= BatchSize)
        BY <1>2, <2>1, <3>3, <4>2 DEF Record, TypeOK
      <4> QED
        BY <4>1, <4>2
    <3> QED
      BY <3>1, <3>2, <3>3
  <2> QED
    BY <1>2, <2>1, <2>2 DEF Record, TypeOK
<1>3. CASE LogUserMessage
  <2>1. next' \in Seqs /\ first' \in Seqs /\ {next} \in SUBSET Seqs
    BY <1>3, AppendType DEF LogUserMessage
  <2> QED
    BY <1>3, <2>1, BroadcastType DEF LogUserMessage, TypeOK
<1>4. Since(-1, first, next) \in SUBSET Seqs
  BY SinceType
<1>5. CASE MarkLive
  BY <1>4, <1>5, BroadcastType DEF MarkLive, TypeOK
<1>6. CASE MarkStreaming
  <2>1. wire' \in [Phones -> Seq(SUBSET Seqs)]
    BY <1>4, <1>6, BroadcastType DEF MarkStreaming, TypeOK
  <2> QED
    BY <1>6, <2>1 DEF MarkStreaming, TypeOK
<1>7. CASE FlushTimer
  BY <1>7, BroadcastType DEF FlushTimer, TypeOK
<1>8. CASE FinishStreaming
  BY <1>8, BroadcastType DEF FinishStreaming, TypeOK
<1>9. ASSUME NEW p \in Phones, CatchUp(p) PROVE TypeOK'
  <2>1. \A c : Since(c, first, next) \in SUBSET Seqs
    BY SinceType
  <2>2. \A c : Append(wire[p], Since(c, first, next)) \in Seq(SUBSET Seqs)
    BY <2>1 DEF TypeOK
  <2>3. wire' \in [Phones -> Seq(SUBSET Seqs)]
    <3>1. CASE hello[p] = -1 \/ ~live
      BY <1>9, <3>1 DEF CatchUp, TypeOK
    <3>2. CASE ~ (hello[p] = -1 \/ ~live) /\ RelayRoom
      BY <1>9, <2>1, <3>2, BroadcastType DEF CatchUp
    <3>3. CASE ~ (hello[p] = -1 \/ ~live) /\ ~RelayRoom
      BY <1>9, <2>2, <3>3 DEF CatchUp, TypeOK
    <3> QED
      BY <3>1, <3>2, <3>3
  <2> QED
    BY <1>9, <2>3 DEF CatchUp, TypeOK, None
<1>10. ASSUME NEW p \in Phones, Drop(p) PROVE TypeOK'
  <2>1. <<>> \in Seq(SUBSET Seqs)
    OBVIOUS
  <2>2. drops' \in 0 .. MaxDrops
    BY <1>10, Sizes DEF Drop, TypeOK
  <2> QED
    BY <1>10, <2>1, <2>2 DEF Drop, TypeOK, None
<1>11. ASSUME NEW p \in Phones, Reconnect(p) PROVE TypeOK'
  BY <1>11 DEF Reconnect, TypeOK
<1>12. ASSUME NEW p \in Phones, Receive(p) PROVE TypeOK'
  <2>1. wire' \in [Phones -> Seq(SUBSET Seqs)]
    <3>1. Tail(wire[p]) \in Seq(SUBSET Seqs)
      BY <1>12 DEF Receive, TypeOK
    <3> QED
      BY <1>12, <3>1 DEF Receive, TypeOK
  <2>2. shown' \in [Phones -> [Seqs -> Nat]]
    <3>1. \A N : Shown(shown[p], N) \in [Seqs -> Nat]
      BY DEF Shown, TypeOK
    <3>2. PICK N : shown' = [shown EXCEPT ![p] = Shown(@, N)]
      BY <1>12, ReceiveFrame
    <3>3. Shown(shown[p], N) \in [Seqs -> Nat] /\ shown \in [Phones -> [Seqs -> Nat]]
      BY <3>1 DEF TypeOK
    <3> QED
      BY <3>2, <3>3
  <2>3. cursor' \in [Phones -> -1 .. MaxEvents]
    BY <1>12, ReceiveFrame
  <2> QED
    BY <1>12, <2>1, <2>2, <2>3 DEF Receive, TypeOK
<1> QED
  BY <1>1, <1>2, <1>3, <1>5, <1>6, <1>7, <1>8, <1>9, <1>10, <1>11, <1>12 DEF Next, Session

LEMMA TypeInit == Init => TypeOK
<1> SUFFICES ASSUME Init PROVE TypeOK
  OBVIOUS
<1>1. 0 \in Seqs /\ -1 \in -1 .. MaxEvents /\ 0 \in 0 .. MaxDrops
  BY Sizes DEF Seqs
<1>2. <<>> \in Seq(SUBSET Seqs) /\ [s \in Seqs |-> 0] \in [Seqs -> Nat]
  OBVIOUS
<1>3. wire \in [Phones -> Seq(SUBSET Seqs)] /\ shown \in [Phones -> [Seqs -> Nat]]
  BY <1>2 DEF Init
<1> QED
  BY <1>1, <1>3 DEF Init, TypeOK

\* The types of the daemon's session, of the sockets and of what phones hold stand.
THEOREM TypeCorrect == Safety => []TypeOK
  BY TypeInit, TypeStep, PTL DEF Safety

-----------------------------------------------------------------------------
(***************************************************************************)
(* No event is shown twice, in a LAN or in a relay room.                   *)
(***************************************************************************)
\* What a phone has shown lies at or below its cursor, so the cursor alone tells
\* what is new.
SeenInv ==
    \A p \in Phones : \A s \in Seqs : shown[p][s] <= 1 /\ (shown[p][s] > 0 => s <= cursor[p])

LEMMA SeenStep == TypeOK /\ SeenInv /\ [Next]_vars => SeenInv'
<1> SUFFICES ASSUME TypeOK, SeenInv, [Next]_vars PROVE SeenInv'
  OBVIOUS
<1>1. ASSUME NEW p \in Phones, Receive(p) PROVE SeenInv'
  <2> DEFINE N == Fresh(p, Head(wire[p]))
  <2>1. /\ N \in SUBSET Seqs
        /\ \A s \in N : s > cursor[p]
        /\ shown' = [shown EXCEPT ![p] = Shown(@, N)]
        /\ cursor' \in [Phones -> -1 .. MaxEvents]
        /\ \A q \in Phones : q # p => cursor'[q] = cursor[q]
        /\ N # {} => \A s \in N : s <= cursor'[p]
        /\ cursor[p] <= cursor'[p]
    BY <1>1, ReceiveFrame
  <2> HIDE DEF N
  <2> SUFFICES ASSUME NEW q \in Phones, NEW s \in Seqs
               PROVE  shown'[q][s] <= 1 /\ (shown'[q][s] > 0 => s <= cursor'[q])
    BY DEF SeenInv
  <2>2. shown[q][s] \in Nat /\ shown[q][s] <= 1 /\ (shown[q][s] > 0 => s <= cursor[q])
        /\ cursor[q] \in Int /\ s \in Int
    BY Sizes DEF SeenInv, TypeOK, Seqs
  <2>3. CASE q # p
    <3>1. shown'[q] = shown[q] /\ cursor'[q] = cursor[q]
      BY <2>1, <2>3 DEF TypeOK
    <3> QED
      BY <2>2, <3>1
  <2>4. CASE q = p
    <3>1. shown'[p][s] = IF s \in N THEN shown[p][s] + 1 ELSE shown[p][s]
      BY <2>1 DEF TypeOK, Shown
    <3>2. cursor'[p] \in Int
      BY <2>1, Sizes
    <3>3. CASE s \in N
      <4>1. s > cursor[p] /\ s <= cursor'[p]
        BY <2>1, <3>3
      <4>2. shown[p][s] = 0
        BY <2>2, <2>4, <4>1
      <4> QED
        BY <2>4, <3>1, <3>3, <4>1, <4>2
    <3>4. CASE s \notin N
      BY <2>1, <2>2, <2>4, <3>1, <3>2, <3>4
    <3> QED
      BY <3>3, <3>4
  <2> QED
    BY <2>3, <2>4
<1>2. CASE UNCHANGED phoneVars
  BY <1>2 DEF phoneVars, SeenInv
<1>3. UNCHANGED phoneVars \/ \E p \in Phones : Receive(p)
  BY DEF Next, Session, Record, LogUserMessage, MarkLive, MarkStreaming, FlushTimer, FinishStreaming,
         CatchUp, Drop, Reconnect, vars
<1> QED
  BY <1>1, <1>2, <1>3

\* No event is in a transcript twice, however replays, batches and live frames
\* overlap, on a LAN and in a relay room (cursors.ts:34).
THEOREM NothingShownTwice == Safety => []ShownOnce
<1>1. Init => SeenInv
  BY Sizes DEF Init, SeenInv, Seqs
<1>2. SeenInv => ShownOnce
  BY DEF SeenInv, ShownOnce
<1> QED
  BY <1>1, <1>2, TypeInit, TypeStep, SeenStep, PTL DEF Safety

-----------------------------------------------------------------------------
(***************************************************************************)
(* On a LAN no transcript has a hole.                                      *)
(***************************************************************************)
\* A LAN, history loaded before prompts, phones that have seen an event.
Lan == ~RelayRoom /\ ~PromptsEarly /\ ~DropsEarly

\* Settled: the daemon owes this phone nothing for this event.
Settled(p, s) == shown[p][s] > 0 \/ s < first

\* The log is a window of events, and only a streamed history waits in a batch.
LogInv ==
    /\ first <= next
    /\ streaming => live
    /\ pending # {} => streaming
    /\ \A s \in pending : s < next

\* A socket whose hello is not answered carries nothing, and its hello names the
\* phone's own cursor, which is past the start.
HelloInv ==
    \A p \in Phones : link[p] # "up" =>
        /\ live /\ cursor[p] >= 0 /\ wire[p] = <<>>
        /\ link[p] = "open" => hello[p] = cursor[p]

\* A frame comes with, or after, everything older that is still owed.
WireInv ==
    \A p \in Phones : \A i \in 1 .. Len(wire[p]) : \A e \in wire[p][i] : \A s \in 0 .. e :
        Settled(p, s) \/ \E j \in 1 .. i : s \in wire[p][j]

\* Every event of a live session is settled, on its way, or waiting in the batch.
EdgeInv ==
    \A p \in Phones : live /\ link[p] = "up" =>
        \A s \in 0 .. next - 1 :
            Settled(p, s) \/ s \in pending \/ \E j \in 1 .. Len(wire[p]) : s \in wire[p][j]

LanInv == LogInv /\ HelloInv /\ WireInv /\ EdgeInv /\ NoGap

-----------------------------------------------------------------------------
LEMMA Appended ==
  ASSUME NEW w \in Seq(SUBSET Seqs), NEW F \in SUBSET Seqs
  PROVE  /\ Len(Append(w, F)) = Len(w) + 1 /\ Len(w) \in Nat
         /\ \A i \in 1 .. Len(w) : Append(w, F)[i] = w[i]
         /\ Append(w, F)[Len(w) + 1] = F
  OBVIOUS

LEMMA Shifted ==
  ASSUME NEW w \in Seq(SUBSET Seqs), w # <<>>
  PROVE  /\ Len(Tail(w)) = Len(w) - 1 /\ Len(w) \in Nat \ {0} /\ Head(w) = w[1]
         /\ \A i \in 1 .. Len(w) - 1 : Tail(w)[i] = w[i + 1]
  OBVIOUS

\* What is settled stays so while the log moves on and transcripts stand.
LEMMA StaysSettled ==
  ASSUME TypeOK, first' \in Seqs, first <= first', shown' = shown, NEW p, NEW s \in Int, Settled(p, s)
  PROVE  Settled(p, s)'
  BY Sizes DEF Settled, TypeOK, Seqs

\* A step that sends nothing keeps every promise about frames and transcripts.
LEMMA NothingSent ==
  ASSUME TypeOK, first' \in Seqs, first <= first', UNCHANGED <<wire, shown, cursor>>, WireInv, NoGap
  PROVE  WireInv' /\ NoGap'
<1>1. NoGap'
  <2> SUFFICES ASSUME NEW p \in Phones, NEW s \in 0 .. cursor[p]
               PROVE  shown'[p][s] > 0 \/ s < first'
    BY DEF NoGap
  <2> QED
    BY StaysSettled DEF NoGap, Settled
<1>2. WireInv'
  <2> SUFFICES ASSUME NEW p \in Phones, NEW i \in 1 .. Len(wire[p]), NEW e \in wire[p][i], NEW s \in 0 .. e
               PROVE  Settled(p, s)' \/ \E j \in 1 .. i : s \in wire[p][j]
    BY DEF WireInv
  <2>1. Settled(p, s) \/ \E j \in 1 .. i : s \in wire[p][j]
    BY DEF WireInv
  <2> QED
    BY <2>1, StaysSettled
<1> QED
  BY <1>1, <1>2

\* A frame to one socket that carries, or is preceded by, all that is owed.
LEMMA OneSent ==
  ASSUME TypeOK, WireInv, NEW p \in Phones, NEW F \in SUBSET Seqs, first' \in Seqs, first <= first',
         shown' = shown, NEW n \in Int,
         wire'[p] = Append(wire[p], F),
         \A e \in F : e < n,
         \A s \in 0 .. n - 1 : Settled(p, s)' \/ s \in F \/ \E j \in 1 .. Len(wire[p]) : s \in wire[p][j]
  PROVE  /\ \A i \in 1 .. Len(wire'[p]) : \A e \in wire'[p][i] : \A s \in 0 .. e :
              Settled(p, s)' \/ \E j \in 1 .. i : s \in wire'[p][j]
         /\ \A s \in 0 .. n - 1 : Settled(p, s)' \/ \E j \in 1 .. Len(wire'[p]) : s \in wire'[p][j]
<1> DEFINE w == wire[p]
           v == Append(w, F)
<1>1. w \in Seq(SUBSET Seqs)
  BY DEF TypeOK
<1>2. /\ Len(v) = Len(w) + 1 /\ Len(w) \in Nat
      /\ \A i \in 1 .. Len(w) : v[i] = w[i]
      /\ v[Len(w) + 1] = F
  BY <1>1, Appended
<1>3. ASSUME NEW s \in 0 .. n - 1 PROVE Settled(p, s)' \/ \E j \in 1 .. Len(v) : s \in v[j]
  <2>1. CASE Settled(p, s)'
    BY <2>1
  <2>2. CASE s \in F
    <3>1. Len(w) + 1 \in 1 .. Len(v)
      BY <1>2
    <3> QED
      BY <1>2, <2>2, <3>1
  <2>3. ASSUME NEW j \in 1 .. Len(w), s \in w[j] PROVE \E k \in 1 .. Len(v) : s \in v[k]
    <3>1. j \in 1 .. Len(v) /\ v[j] = w[j]
      BY <1>2
    <3> QED
      BY <2>3, <3>1
  <2> QED
    BY <2>1, <2>2, <2>3
<1>4. ASSUME NEW i \in 1 .. Len(v), NEW e \in v[i], NEW s \in 0 .. e
      PROVE  Settled(p, s)' \/ \E j \in 1 .. i : s \in v[j]
  <2>1. CASE i \in 1 .. Len(w)
    <3>1. v[i] = w[i] /\ \A j \in 1 .. i : v[j] = w[j]
      BY <1>2, <2>1
    <3>2. Settled(p, s) \/ \E j \in 1 .. i : s \in w[j]
      BY <2>1, <3>1 DEF WireInv
    <3> QED
      BY <3>1, <3>2, StaysSettled
  <2>2. CASE i = Len(w) + 1
    <3>1. e \in F /\ i = Len(v)
      BY <1>2, <2>2
    <3>2. e \in Int /\ s \in 0 .. n - 1
      <4>1. e \in Int /\ e < n
        BY <3>1, Sizes DEF Seqs
      <4> QED
        BY <4>1
    <3> QED
      BY <1>3, <3>1, <3>2
  <2> QED
    BY <1>2, <2>1, <2>2
<1> QED
  BY <1>3, <1>4

\* A broadcast of all that is owed: to each answered socket, and to no other.
LEMMA AllSent ==
  ASSUME Lan, TypeOK, WireInv, HelloInv, NoGap, NEW F \in SUBSET Seqs, Broadcast(F),
         first' \in Seqs, first <= first', next' \in Seqs, UNCHANGED <<shown, cursor, link>>,
         \A e \in F : e < next',
         \A p \in Phones : link[p] = "up" => \A s \in 0 .. next' - 1 :
             Settled(p, s)' \/ s \in F \/ \E j \in 1 .. Len(wire[p]) : s \in wire[p][j]
  PROVE  WireInv' /\ EdgeInv' /\ NoGap' /\ \A p \in Phones : link[p] # "up" => wire'[p] = wire[p]
<1>1. next' \in Int
  BY Sizes DEF Seqs
<1>2. \A p \in Phones : wire'[p] = IF link[p] = "up" THEN Append(wire[p], F) ELSE wire[p]
  BY DEF Lan, Broadcast, Reached
<1>3. ASSUME NEW p \in Phones, link[p] = "up"
      PROVE  /\ \A i \in 1 .. Len(wire'[p]) : \A e \in wire'[p][i] : \A s \in 0 .. e :
                  Settled(p, s)' \/ \E j \in 1 .. i : s \in wire'[p][j]
             /\ \A s \in 0 .. next' - 1 : Settled(p, s)' \/ \E j \in 1 .. Len(wire'[p]) : s \in wire'[p][j]
  BY <1>1, <1>2, <1>3, OneSent
<1>4. ASSUME NEW p \in Phones, link[p] # "up" PROVE wire'[p] = wire[p] /\ wire[p] = <<>>
  BY <1>2, <1>4 DEF HelloInv
<1>5. WireInv'
  <2> SUFFICES ASSUME NEW p \in Phones
               PROVE  \A i \in 1 .. Len(wire'[p]) : \A e \in wire'[p][i] : \A s \in 0 .. e :
                        Settled(p, s)' \/ \E j \in 1 .. i : s \in wire'[p][j]
    BY DEF WireInv
  <2>1. CASE link[p] = "up"
    BY <1>3, <2>1
  <2>2. CASE link[p] # "up"
    <3>1. Len(wire'[p]) = 0
      BY <1>4, <2>2
    <3> QED
      BY <3>1
  <2> QED
    BY <2>1, <2>2
<1>6. EdgeInv'
  BY <1>3 DEF EdgeInv
<1>7. NoGap'
  <2> SUFFICES ASSUME NEW p \in Phones, NEW s \in 0 .. cursor[p]
               PROVE  shown'[p][s] > 0 \/ s < first'
    BY DEF NoGap
  <2> QED
    BY StaysSettled DEF NoGap, Settled
<1> QED
  BY <1>4, <1>5, <1>6, <1>7

-----------------------------------------------------------------------------
\* What the agent says, replays or is told is sent, batched, or logged before a start.
LEMMA RecordStep ==
  ASSUME Lan, TypeOK, LanInv, Record \/ LogUserMessage
  PROVE  LanInv'
<1> USE DEF phoneVars
<1>1. Append1 /\ UNCHANGED <<live, streaming, loading, link, hello, shown, cursor, drops>>
  BY DEF Record, LogUserMessage
<1>2. /\ next' = next + 1 /\ next' \in Seqs /\ next \in Seqs /\ first' \in Seqs /\ first <= first'
      /\ first' <= next' /\ next \in Int
  BY <1>1, AppendType, Sizes DEF LanInv, LogInv, Seqs
<1>3. \A p \in Phones : link[p] = "up" => \A s \in 0 .. next' - 1 :
        (live => Settled(p, s)' \/ s = next \/ s \in pending \/ \E j \in 1 .. Len(wire[p]) : s \in wire[p][j])
  <2> SUFFICES ASSUME NEW p \in Phones, link[p] = "up", NEW s \in 0 .. next' - 1, live, s # next
               PROVE  Settled(p, s)' \/ s \in pending \/ \E j \in 1 .. Len(wire[p]) : s \in wire[p][j]
    OBVIOUS
  <2>1. s \in 0 .. next - 1
    BY <1>2
  <2>2. Settled(p, s) \/ s \in pending \/ \E j \in 1 .. Len(wire[p]) : s \in wire[p][j]
    BY <2>1 DEF LanInv, EdgeInv
  <2> QED
    BY <1>1, <1>2, <2>2, StaysSettled
<1>4. \A s \in pending : s \in Seqs /\ s < next'
  <2> TAKE s \in pending
  <2>1. s \in Seqs /\ s < next
    BY DEF LanInv, LogInv, TypeOK
  <2>2. s \in Int
    BY <2>1, Sizes DEF Seqs
  <2> QED
    BY <1>2, <2>1, <2>2
<1>5. HelloInv /\ WireInv /\ EdgeInv /\ NoGap /\ LogInv
  BY DEF LanInv
<1>6. CASE pending' = pending /\ live /\ ~streaming /\ Broadcast({next})
  <2>1. pending = {}
    BY <1>5, <1>6 DEF LogInv
  <2>2. {next} \in SUBSET Seqs /\ \A e \in {next} : e < next'
    BY <1>2
  <2>3. WireInv' /\ EdgeInv' /\ NoGap' /\ \A p \in Phones : link[p] # "up" => wire'[p] = wire[p]
    BY <1>1, <1>2, <1>3, <1>5, <1>6, <2>1, <2>2, AllSent
  <2>4. HelloInv'
    BY <1>1, <1>5, <2>3 DEF HelloInv
  <2>5. LogInv'
    BY <1>1, <1>2, <1>5, <1>6, <2>1 DEF LogInv
  <2> QED
    BY <2>3, <2>4, <2>5 DEF LanInv
<1>7. CASE live /\ streaming /\ Broadcast(pending \cup {next}) /\ pending' = {}
  <2>1. pending \cup {next} \in SUBSET Seqs /\ \A e \in pending \cup {next} : e < next'
    BY <1>2, <1>4
  <2>2. WireInv' /\ EdgeInv' /\ NoGap' /\ \A p \in Phones : link[p] # "up" => wire'[p] = wire[p]
    BY <1>1, <1>2, <1>3, <1>5, <1>7, <2>1, AllSent
  <2>3. HelloInv'
    BY <1>1, <1>5, <2>2 DEF HelloInv
  <2>4. LogInv'
    BY <1>1, <1>2, <1>5, <1>7 DEF LogInv
  <2> QED
    BY <2>2, <2>3, <2>4 DEF LanInv
<1>8. CASE live /\ streaming /\ pending' = pending \cup {next} /\ wire' = wire
  <2>1. WireInv' /\ NoGap'
    BY <1>1, <1>2, <1>5, <1>8, NothingSent
  <2>2. EdgeInv'
    BY <1>1, <1>2, <1>3, <1>8 DEF EdgeInv
  <2>3. HelloInv'
    BY <1>1, <1>5, <1>8 DEF HelloInv
  <2>4. LogInv'
    BY <1>1, <1>2, <1>4, <1>5, <1>8 DEF LogInv
  <2> QED
    BY <2>1, <2>2, <2>3, <2>4 DEF LanInv
<1>9. CASE ~live /\ pending' = pending /\ wire' = wire
  <2>1. WireInv' /\ NoGap'
    BY <1>1, <1>2, <1>5, <1>9, NothingSent
  <2>2. EdgeInv' /\ HelloInv'
    BY <1>1, <1>5, <1>9 DEF EdgeInv, HelloInv
  <2>3. LogInv'
    BY <1>1, <1>2, <1>4, <1>5, <1>9 DEF LogInv
  <2> QED
    BY <2>1, <2>2, <2>3 DEF LanInv
<1>10. CASE LogUserMessage
  <2>1. live /\ ~streaming /\ Broadcast({next}) /\ pending' = pending
    BY <1>10 DEF LogUserMessage, Lan
  <2> QED
    BY <1>6, <2>1
<1>11. CASE Record
  <2>1. CASE ~live
    BY <1>9, <1>11, <2>1 DEF Record
  <2>2. CASE live /\ ~streaming
    BY <1>6, <1>11, <2>2 DEF Record
  <2>3. CASE live /\ streaming
    <3>1. CASE Cardinality(pending) + 1 >= BatchSize
      BY <1>7, <1>11, <2>3, <3>1 DEF Record
    <3>2. CASE ~ (Cardinality(pending) + 1 >= BatchSize)
      BY <1>8, <1>11, <2>3, <3>2 DEF Record
    <3> QED
      BY <3>1, <3>2
  <2> QED
    BY <2>1, <2>2, <2>3
<1> QED
  BY <1>10, <1>11

\* Going live, and the batches of a streamed history, send all that is owed.
LEMMA SessionStep ==
  ASSUME Lan, TypeOK, LanInv, MarkLive \/ MarkStreaming \/ FlushTimer \/ FinishStreaming
  PROVE  LanInv'
<1> USE DEF phoneVars, logVars
<1>1. UNCHANGED <<next, first, link, hello, shown, cursor>> /\ live' /\ pending' = {}
  <2>1. CASE MarkLive
    BY <2>1 DEF MarkLive, LanInv, LogInv
  <2>2. CASE MarkStreaming \/ FlushTimer \/ FinishStreaming
    BY <2>2 DEF MarkStreaming, FlushTimer, FinishStreaming, LanInv, LogInv
  <2> QED
    BY <2>1, <2>2
<1>2. next \in Seqs /\ next \in Int /\ first \in Seqs /\ first \in Int
  BY Sizes DEF TypeOK, Seqs
<1>3. HelloInv /\ WireInv /\ EdgeInv /\ NoGap /\ LogInv
  BY DEF LanInv
<1>4. \A p, s : Settled(p, s)' <=> Settled(p, s)
  BY <1>1 DEF Settled
<1>5. LogInv'
  BY <1>1, <1>3 DEF LogInv
<1>6. \A s \in 0 .. next - 1 : s < first \/ s \in Since(-1, first, next)
  BY <1>2 DEF Since
<1>7. CASE \E F \in SUBSET Seqs :
             /\ Broadcast(F) /\ \A e \in F : e < next
             /\ \A p \in Phones : link[p] = "up" => \A s \in 0 .. next - 1 :
                  Settled(p, s) \/ s \in F \/ \E j \in 1 .. Len(wire[p]) : s \in wire[p][j]
  <2>1. PICK F \in SUBSET Seqs :
             /\ Broadcast(F) /\ \A e \in F : e < next
             /\ \A p \in Phones : link[p] = "up" => \A s \in 0 .. next - 1 :
                  Settled(p, s) \/ s \in F \/ \E j \in 1 .. Len(wire[p]) : s \in wire[p][j]
    BY <1>7
  <2>2. \A p \in Phones : link[p] = "up" => \A s \in 0 .. next' - 1 :
             Settled(p, s)' \/ s \in F \/ \E j \in 1 .. Len(wire[p]) : s \in wire[p][j]
    BY <1>1, <1>4, <2>1
  <2>3. first' \in Seqs /\ first <= first' /\ next' \in Seqs /\ \A e \in F : e < next'
    BY <1>1, <1>2, <2>1
  <2>4. WireInv' /\ EdgeInv' /\ NoGap' /\ \A p \in Phones : link[p] # "up" => wire'[p] = wire[p]
    BY <1>1, <1>3, <2>1, <2>2, <2>3, AllSent
  <2>5. HelloInv'
    BY <1>1, <1>3, <2>4 DEF HelloInv
  <2> QED
    BY <1>5, <2>4, <2>5 DEF LanInv
<1>8. Since(-1, first, next) \in SUBSET Seqs /\ \A e \in Since(-1, first, next) : e < next
  BY <1>2, SinceType
<1>9. \A p \in Phones : \A s \in 0 .. next - 1 : Settled(p, s) \/ s \in Since(-1, first, next)
  BY <1>6 DEF Settled
<1>10. CASE Broadcast(Since(-1, first, next))
  BY <1>7, <1>8, <1>9, <1>10
<1>11. CASE Broadcast(pending) /\ live
  <2>1. pending \in SUBSET Seqs /\ \A e \in pending : e < next
    BY <1>3 DEF TypeOK, LogInv
  <2>2. \A p \in Phones : link[p] = "up" => \A s \in 0 .. next - 1 :
           Settled(p, s) \/ s \in pending \/ \E j \in 1 .. Len(wire[p]) : s \in wire[p][j]
    BY <1>3, <1>11 DEF EdgeInv
  <2> QED
    BY <1>7, <1>11, <2>1, <2>2
<1>12. CASE next = first /\ wire' = wire /\ ~live
  <2>1. first' \in Seqs /\ first <= first'
    BY <1>1, <1>2
  <2>2. WireInv' /\ NoGap'
    BY <1>1, <1>3, <1>12, <2>1, NothingSent
  <2>3. EdgeInv'
    <3>1. \A p \in Phones : \A s \in 0 .. next - 1 : Settled(p, s)
      BY <1>2, <1>12 DEF Settled
    <3> QED
      BY <1>1, <1>4, <3>1 DEF EdgeInv
  <2>4. HelloInv'
    BY <1>1, <1>3, <1>12 DEF HelloInv
  <2> QED
    BY <1>5, <2>2, <2>3, <2>4 DEF LanInv
<1>13. CASE MarkLive
  BY <1>10, <1>13 DEF MarkLive
<1>14. CASE MarkStreaming
  BY <1>10, <1>12, <1>14 DEF MarkStreaming
<1>15. CASE FlushTimer \/ FinishStreaming
  BY <1>3, <1>11, <1>15 DEF FlushTimer, FinishStreaming, LogInv
<1> QED
  BY <1>13, <1>14, <1>15

\* A hello is answered with what came after its cursor; the rest is already shown.
LEMMA CatchUpStep ==
  ASSUME Lan, TypeOK, LanInv, NEW p \in Phones, CatchUp(p)
  PROVE  LanInv'
<1> DEFINE F == Since(hello[p], first, next)
<1> USE DEF phoneVars, logVars
<1>1. HelloInv /\ WireInv /\ EdgeInv /\ NoGap /\ LogInv
  BY DEF LanInv
<1>2. /\ link[p] = "open" /\ link' = [link EXCEPT ![p] = "up"] /\ hello' = [hello EXCEPT ![p] = None]
      /\ UNCHANGED <<next, first, live, streaming, pending, shown, cursor>>
  BY DEF CatchUp
<1>3. live /\ hello[p] = cursor[p] /\ cursor[p] >= 0 /\ wire[p] = <<>>
  BY <1>1, <1>2 DEF HelloInv
<1>4. hello[p] # -1 /\ ~RelayRoom
  BY <1>3 DEF Lan
<1>5. wire' = [wire EXCEPT ![p] = Append(@, F)]
  BY <1>3, <1>4 DEF CatchUp
<1>6. \A q \in Phones : q # p => wire'[q] = wire[q] /\ link'[q] = link[q] /\ hello'[q] = hello[q]
  BY <1>2, <1>5 DEF TypeOK
<1>7. wire'[p] = Append(wire[p], F) /\ link'[p] = "up"
  BY <1>2, <1>5 DEF TypeOK
<1>8. next \in Seqs /\ next \in Int /\ first \in Seqs /\ first \in Int /\ cursor[p] \in Int
  BY Sizes DEF TypeOK, Seqs
<1>9. F \in SUBSET Seqs /\ \A e \in F : e < next
  BY <1>8, SinceType
<1>10. \A q, s : Settled(q, s)' <=> Settled(q, s)
  BY <1>2 DEF Settled
<1>11. \A s \in 0 .. next - 1 : Settled(p, s)' \/ s \in F
  <2> SUFFICES ASSUME NEW s \in 0 .. next - 1 PROVE Settled(p, s) \/ s \in F
    BY <1>10
  <2>1. CASE s <= cursor[p]
    BY <1>1, <1>8, <2>1 DEF NoGap, Settled
  <2>2. CASE s > cursor[p]
    BY <1>3, <1>8, <2>2 DEF Settled, Since
  <2> QED
    BY <1>8, <2>1, <2>2
<1>12. first' \in Seqs /\ first <= first' /\ next \in Int
  BY <1>2, <1>8
<1> HIDE DEF F
<1>13. /\ \A i \in 1 .. Len(wire'[p]) : \A e \in wire'[p][i] : \A s \in 0 .. e :
              Settled(p, s)' \/ \E j \in 1 .. i : s \in wire'[p][j]
       /\ \A s \in 0 .. next - 1 : Settled(p, s)' \/ \E j \in 1 .. Len(wire'[p]) : s \in wire'[p][j]
  BY <1>1, <1>2, <1>7, <1>9, <1>11, <1>12, OneSent
<1>14. WireInv'
  <2> SUFFICES ASSUME NEW q \in Phones
               PROVE  \A i \in 1 .. Len(wire'[q]) : \A e \in wire'[q][i] : \A s \in 0 .. e :
                        Settled(q, s)' \/ \E j \in 1 .. i : s \in wire'[q][j]
    BY DEF WireInv
  <2>1. CASE q = p
    BY <1>13, <2>1
  <2>2. CASE q # p
    BY <1>1, <1>6, <1>10, <2>2 DEF WireInv
  <2> QED
    BY <2>1, <2>2
<1>15. EdgeInv'
  <2> SUFFICES ASSUME NEW q \in Phones, link'[q] = "up", NEW s \in 0 .. next - 1
               PROVE  Settled(q, s)' \/ s \in pending' \/ \E j \in 1 .. Len(wire'[q]) : s \in wire'[q][j]
    BY <1>2 DEF EdgeInv
  <2>1. CASE q = p
    BY <1>13, <2>1
  <2>2. CASE q # p
    BY <1>1, <1>2, <1>3, <1>6, <1>10, <2>2 DEF EdgeInv
  <2> QED
    BY <2>1, <2>2
<1>16. HelloInv'
  BY <1>1, <1>2, <1>6, <1>7 DEF HelloInv
<1>17. LogInv' /\ NoGap'
  BY <1>1, <1>2 DEF LogInv, NoGap
<1> QED
  BY <1>14, <1>15, <1>16, <1>17 DEF LanInv

\* A drop loses what is on the wire, and the next hello asks from the cursor.
LEMMA DropStep ==
  ASSUME Lan, TypeOK, LanInv, NEW p \in Phones, Drop(p) \/ Reconnect(p)
  PROVE  LanInv'
<1> USE DEF phoneVars, logVars
<1>1. HelloInv /\ WireInv /\ EdgeInv /\ NoGap /\ LogInv
  BY DEF LanInv
<1>2. UNCHANGED <<next, first, live, streaming, pending, shown, cursor>> /\ live /\ cursor[p] >= 0
  <2>1. CASE Drop(p)
    BY <2>1 DEF Drop, Lan
  <2>2. CASE Reconnect(p)
    <3>1. link[p] # "up"
      BY <2>2 DEF Reconnect
    <3> QED
      BY <1>1, <2>2, <3>1 DEF Reconnect, HelloInv
  <2> QED
    BY <2>1, <2>2
<1>3. \A q \in Phones : q # p => wire'[q] = wire[q] /\ link'[q] = link[q] /\ hello'[q] = hello[q]
  BY DEF Drop, Reconnect, TypeOK
<1>4. wire'[p] = <<>> /\ link'[p] # "up" /\ (link'[p] = "open" => hello'[p] = cursor[p])
  <2>1. CASE Drop(p)
    BY <2>1 DEF Drop, TypeOK
  <2>2. CASE Reconnect(p)
    <3>1. wire[p] = <<>>
      BY <1>1, <2>2 DEF Reconnect, HelloInv
    <3> QED
      BY <2>2, <3>1 DEF Reconnect, TypeOK
  <2> QED
    BY <2>1, <2>2
<1>5. \A q, s : Settled(q, s)' <=> Settled(q, s)
  BY <1>2 DEF Settled
<1>6. WireInv'
  <2> SUFFICES ASSUME NEW q \in Phones
               PROVE  \A i \in 1 .. Len(wire'[q]) : \A e \in wire'[q][i] : \A s \in 0 .. e :
                        Settled(q, s)' \/ \E j \in 1 .. i : s \in wire'[q][j]
    BY DEF WireInv
  <2>1. CASE q = p
    <3>1. Len(wire'[q]) = 0
      BY <1>4, <2>1
    <3> QED
      BY <3>1
  <2>2. CASE q # p
    BY <1>1, <1>3, <1>5, <2>2 DEF WireInv
  <2> QED
    BY <2>1, <2>2
<1>7. EdgeInv'
  BY <1>1, <1>2, <1>3, <1>4, <1>5 DEF EdgeInv
<1>8. HelloInv'
  BY <1>1, <1>2, <1>3, <1>4 DEF HelloInv
<1>9. LogInv' /\ NoGap'
  BY <1>1, <1>2 DEF LogInv, NoGap
<1> QED
  BY <1>6, <1>7, <1>8, <1>9 DEF LanInv

\* The cursor moves to the end of a frame only over events that are settled.
LEMMA ReceiveStep ==
  ASSUME Lan, TypeOK, LanInv, NEW p \in Phones, Receive(p)
  PROVE  LanInv'
<1> DEFINE w == wire[p]
           H == Head(wire[p])
           N == Fresh(p, Head(wire[p]))
<1> USE DEF logVars
<1>1. HelloInv /\ WireInv /\ EdgeInv /\ NoGap /\ LogInv
  BY DEF LanInv
<1>2. /\ w # <<>> /\ wire' = [wire EXCEPT ![p] = Tail(@)]
      /\ UNCHANGED <<next, first, live, streaming, pending, link, hello>>
  BY DEF Receive
<1>3. w \in Seq(SUBSET Seqs) /\ wire'[p] = Tail(w) /\ \A q \in Phones : q # p => wire'[q] = wire[q]
  BY <1>2 DEF TypeOK
<1>4. /\ Len(Tail(w)) = Len(w) - 1 /\ Len(w) \in Nat \ {0} /\ H = w[1]
      /\ \A i \in 1 .. Len(w) - 1 : Tail(w)[i] = w[i + 1]
  BY <1>2, <1>3, Shifted
<1>5. /\ H \in SUBSET Seqs /\ N \in SUBSET H /\ \A s \in H : s \in N <=> s > cursor[p]
      /\ shown' = [shown EXCEPT ![p] = Shown(@, N)]
      /\ cursor' \in [Phones -> -1 .. MaxEvents]
      /\ \A q \in Phones : q # p => cursor'[q] = cursor[q]
      /\ N = {} => cursor'[p] = cursor[p]
      /\ N # {} => cursor'[p] \in N
      /\ cursor[p] <= cursor'[p]
  BY ReceiveFrame
<1> HIDE DEF w, H, N
<1>6. link[p] = "up"
  BY <1>1, <1>2 DEF HelloInv, w
<1>7. cursor[p] \in Int /\ cursor'[p] \in Int
  BY <1>5, Sizes DEF TypeOK
<1>8. \A q \in Phones : q # p => shown'[q] = shown[q]
  BY <1>5 DEF TypeOK
<1>9. \A s \in Seqs : shown'[p][s] = IF s \in N THEN shown[p][s] + 1 ELSE shown[p][s]
  BY <1>5 DEF TypeOK, Shown
<1>10. \A s \in Seqs : Settled(p, s) => Settled(p, s)'
  <2> SUFFICES ASSUME NEW s \in Seqs, Settled(p, s) PROVE shown'[p][s] > 0 \/ s < first'
    BY DEF Settled
  <2>1. shown[p][s] \in Nat
    BY DEF TypeOK
  <2> QED
    BY <1>2, <1>9, <2>1 DEF Settled
<1>11. \A s \in H : Settled(p, s)'
  <2> TAKE s \in H
  <2>1. s \in Seqs /\ s \in Int /\ shown[p][s] \in Nat
    BY <1>5, Sizes DEF TypeOK, Seqs
  <2>2. CASE s > cursor[p]
    <3>1. shown'[p][s] = shown[p][s] + 1
      BY <1>5, <1>9, <2>1, <2>2
    <3>2. shown'[p][s] > 0
      BY <2>1, <3>1
    <3> QED
      BY <3>2 DEF Settled
  <2>3. CASE s <= cursor[p]
    <3>1. s \in 0 .. cursor[p]
      BY <1>5, <1>7, <2>1, <2>3, Sizes DEF Seqs
    <3>2. Settled(p, s)
      BY <1>1, <3>1 DEF NoGap, Settled
    <3> QED
      BY <1>10, <2>1, <3>2
  <2> QED
    BY <1>7, <2>1, <2>2, <2>3
<1>12. \A i \in 1 .. Len(w) : \A s \in Seqs :
          (Settled(p, s) \/ \E j \in 1 .. i : s \in w[j]) =>
             Settled(p, s)' \/ \E j \in 1 .. i - 1 : s \in wire'[p][j]
  <2> SUFFICES ASSUME NEW i \in 1 .. Len(w), NEW s \in Seqs, NEW j \in 1 .. i, s \in w[j]
               PROVE  Settled(p, s)' \/ \E k \in 1 .. i - 1 : s \in wire'[p][k]
    BY <1>10
  <2>1. CASE j = 1
    BY <1>4, <1>11, <2>1
  <2>2. CASE j > 1
    <3>1. j - 1 \in 1 .. i - 1 /\ j - 1 \in 1 .. Len(w) - 1 /\ (j - 1) + 1 = j
      BY <1>4, <2>2
    <3>2. wire'[p][j - 1] = w[j]
      BY <1>3, <1>4, <3>1
    <3> QED
      BY <3>1, <3>2
  <2> QED
    BY <1>4, <2>1, <2>2
<1>13. WireInv'
  <2> SUFFICES ASSUME NEW q \in Phones, NEW i \in 1 .. Len(wire'[q]), NEW e \in wire'[q][i], NEW s \in 0 .. e
               PROVE  Settled(q, s)' \/ \E j \in 1 .. i : s \in wire'[q][j]
    BY DEF WireInv
  <2>1. CASE q = p
    <3>1. i \in 1 .. Len(w) - 1 /\ i + 1 \in 1 .. Len(w) /\ e \in w[i + 1] /\ (i + 1) - 1 = i
      BY <1>3, <1>4, <2>1
    <3>2. w[i + 1] \in SUBSET Seqs
      BY <1>3, <3>1
    <3>3. s \in Seqs
      BY <3>1, <3>2, Sizes DEF Seqs
    <3>4. Settled(p, s) \/ \E j \in 1 .. i + 1 : s \in w[j]
      BY <1>1, <3>1 DEF WireInv, w
    <3> QED
      BY <1>12, <2>1, <3>1, <3>3, <3>4
  <2>2. CASE q # p
    <3>1. Settled(q, s) \/ \E j \in 1 .. i : s \in wire[q][j]
      BY <1>1, <1>3, <2>2 DEF WireInv
    <3> QED
      BY <1>2, <1>3, <1>8, <2>2, <3>1 DEF Settled
  <2> QED
    BY <2>1, <2>2
<1>14. EdgeInv'
  <2> SUFFICES ASSUME NEW q \in Phones, live, link[q] = "up", NEW s \in 0 .. next - 1
               PROVE  Settled(q, s)' \/ s \in pending \/ \E j \in 1 .. Len(wire'[q]) : s \in wire'[q][j]
    BY <1>2 DEF EdgeInv
  <2>1. Settled(q, s) \/ s \in pending \/ \E j \in 1 .. Len(wire[q]) : s \in wire[q][j]
    BY <1>1 DEF EdgeInv
  <2>2. CASE q = p
    <3>1. s \in Seqs
      BY Sizes DEF TypeOK, Seqs
    <3>2. Len(w) \in 1 .. Len(w) /\ Len(wire'[p]) = Len(w) - 1
      BY <1>3, <1>4
    <3> QED
      BY <1>12, <2>1, <2>2, <3>1, <3>2 DEF w
  <2>3. CASE q # p
    BY <1>2, <1>3, <1>8, <2>1, <2>3 DEF Settled
  <2> QED
    BY <2>2, <2>3
<1>15. NoGap'
  <2> SUFFICES ASSUME NEW q \in Phones, NEW s \in 0 .. cursor'[q] PROVE Settled(q, s)'
    BY DEF NoGap, Settled
  <2>1. CASE q # p
    <3>1. Settled(q, s)
      BY <1>1, <1>5, <2>1 DEF NoGap, Settled
    <3> QED
      BY <1>2, <1>8, <2>1, <3>1 DEF Settled
  <2>2. CASE q = p /\ s <= cursor[p]
    <3>1. s \in 0 .. cursor[p] /\ s \in Seqs
      BY <1>7, <2>2, Sizes DEF TypeOK, Seqs
    <3>2. Settled(p, s)
      BY <1>1, <3>1 DEF NoGap, Settled
    <3> QED
      BY <1>10, <2>2, <3>1, <3>2
  <2>3. CASE q = p /\ s > cursor[p]
    <3>1. N # {} /\ cursor'[p] \in H
      BY <1>5, <1>7, <2>3
    <3>2. s \in 0 .. cursor'[p] /\ s \in Seqs /\ 1 \in 1 .. Len(w)
      BY <1>4, <1>5, <1>7, <2>3, <3>1, Sizes DEF Seqs
    <3>3. Settled(p, s) \/ \E j \in 1 .. 1 : s \in w[j]
      BY <1>1, <1>4, <3>1, <3>2 DEF WireInv, w
    <3> QED
      BY <1>4, <1>10, <1>11, <2>3, <3>2, <3>3
  <2> QED
    BY <1>7, <2>1, <2>2, <2>3
<1>16. HelloInv'
  <2> SUFFICES ASSUME NEW q \in Phones, link[q] # "up"
               PROVE  live /\ cursor'[q] >= 0 /\ wire'[q] = <<>> /\ (link[q] = "open" => hello[q] = cursor'[q])
    BY <1>2 DEF HelloInv
  <2> QED
    BY <1>1, <1>3, <1>5, <1>6 DEF HelloInv
<1>17. LogInv'
  BY <1>1, <1>2 DEF LogInv
<1> QED
  BY <1>13, <1>14, <1>15, <1>16, <1>17 DEF LanInv

LEMMA LanInit == Init => LanInv
  BY Sizes DEF Init, LanInv, LogInv, HelloInv, WireInv, EdgeInv, NoGap

LEMMA LanStep == Lan /\ TypeOK /\ LanInv /\ [Next]_vars => LanInv'
<1>1. UNCHANGED vars /\ LanInv => LanInv'
  BY DEF vars, logVars, phoneVars, LanInv, LogInv, HelloInv, WireInv, EdgeInv, NoGap, Settled
<1> QED
  BY <1>1, RecordStep, SessionStep, CatchUpStep, DropStep, ReceiveStep DEF Next, Session

\* On a LAN, whatever sockets drop and whatever the log trims, each event up to a
\* phone's cursor is in its transcript, unless the log had let it go (wire.ts:81).
THEOREM NoHoleOnLan ==
  ASSUME Lan
  PROVE  Safety => []NoGap
<1>1. LanInv => NoGap
  BY DEF LanInv
<1>2. TypeOK /\ LanInv /\ [Next]_vars => LanInv'
  BY LanStep
<1> QED
  BY <1>1, <1>2, TypeInit, TypeStep, LanInit, PTL DEF Safety
=============================================================================
