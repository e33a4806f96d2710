-------------------------- MODULE PromptQueueProofs --------------------------
(***************************************************************************)
(* Theorems about PromptQueue, for every set of messages and every bound.  *)
(*                                                                         *)
(* For every agent: the types; one turn at a time; what the lines of the   *)
(* two pipes are, from which a message is read at most once, a withdrawal  *)
(* is honest, and nothing accepted is lost.  For an agent without GG's     *)
(* queue extension: nothing is stranded, a message has one fate, and the   *)
(* turn loop implements MessageFate.                                       *)
(***************************************************************************)
EXTENDS MCPromptQueue, FiniteSetTheorems, TLAPS

(***************************************************************************)
(* Type correctness, for every agent and every kind of failure.            *)
(***************************************************************************)

\* What one step does to the variables' types, one lemma per group of actions.
LEMMA InitTyped == Init => TypeOK
<1>1. 0 \in Nat
  OBVIOUS
<1>2. Init => toAgent \in Seq(ToAgent) /\ fromAgent \in Seq(FromAgent)
  BY DEF Init
<1> QED
  BY <1>1, <1>2 DEF Init, TypeOK

\* What is read from a pipe, and what is left in it, is of the pipe's type.
LEMMA HeadTailTyped ==
  ASSUME NEW T, NEW q \in Seq(T), q # <<>>
  PROVE  Head(q) \in T /\ Tail(q) \in Seq(T)
  OBVIOUS

\* Two runs of lines written one after the other.
LEMMA ConcatTyped ==
  ASSUME NEW T, NEW p \in Seq(T), NEW q \in Seq(T)
  PROVE  p \o q \in Seq(T)
  OBVIOUS

\* The last lines of a turn.
LEMMA LastLinesTyped ==
  ASSUME NEW answer \in {"answer", "error"}, NEW S \in SUBSET Msgs, NEW noteFirst
  PROVE  LastLines(answer, S, noteFirst) \in Seq(FromAgent)
<1> DEFINE reply == <<[kind |-> answer, items |-> {}]>>
           note  == <<[kind |-> "leftover", items |-> S]>>
<1>1. [kind |-> answer, items |-> {}] \in FromAgent /\ [kind |-> "leftover", items |-> S] \in FromAgent
  BY DEF FromAgent
<1>2. reply \in Seq(FromAgent) /\ note \in Seq(FromAgent)
  BY <1>1
<1>3. note \o reply \in Seq(FromAgent) /\ reply \o note \in Seq(FromAgent)
  <2> HIDE DEF reply, note
  <2> QED
    BY <1>2, ConcatTyped
<1> QED
  BY <1>2, <1>3 DEF LastLines

\* Writing a line to the agent's stdin.
LEMMA TellTyped ==
  ASSUME TypeOK, NEW S \in SUBSET Msgs, NEW k, Tell(k, S),
         k \in {"prompt", "control", "queue", "unqueue", "cancel"}
  PROVE  toAgent' \in Seq(ToAgent)
<1>1. [kind |-> k, items |-> S] \in ToAgent
  BY DEF ToAgent
<1>2. toAgent \in Seq(ToAgent)
  BY DEF TypeOK
<1> QED
  BY <1>1, <1>2 DEF Tell

\* Writing a line to the agent's stdout.
LEMMA SayTyped ==
  ASSUME TypeOK, NEW S \in SUBSET Msgs, NEW k, Say(k, S),
         k \in {"drained", "cancelled", "leftover", "answer", "error"}
  PROVE  fromAgent' \in Seq(FromAgent)
<1>1. [kind |-> k, items |-> S] \in FromAgent
  BY DEF FromAgent
<1>2. fromAgent \in Seq(FromAgent)
  BY DEF TypeOK
<1> QED
  BY <1>1, <1>2 DEF Say

\* The actions of a phone keep the types.
LEMMA UserTyped == TypeOK /\ User => TypeOK'
<1> SUFFICES ASSUME TypeOK, User PROVE TypeOK'
  OBVIOUS
<1> USE DEF TypeOK, userVars, loopVars, entryVars, fateVars, agentVars
<1>1. ASSUME NEW m \in Msgs, Prompt(m) PROVE TypeOK'
  <2>1. CASE working
    <3>1. toAgent' \in Seq(ToAgent)
      BY <1>1, <2>1, TellTyped, {m} \in SUBSET Msgs DEF Prompt, Enqueue
    <3>2. store' \in [Msgs -> {"none", "pending", "ok", "failed"}]
      BY <1>1, <2>1 DEF Prompt, Enqueue, Storing
    <3>3. /\ queueAck' \in [Msgs -> {"none", "asked", "ok", "refused"}]
          /\ forwarded' \subseteq Msgs /\ queue' \subseteq Msgs
      BY <1>1, <2>1 DEF Prompt, Enqueue
    <3> QED
      BY <1>1, <2>1, <3>1, <3>2, <3>3 DEF Prompt
  <2>2. CASE ~working
    BY <1>1, <2>2 DEF Prompt, StartTurn, Storing
  <2> QED
    BY <2>1, <2>2
<1>2. ASSUME NEW m \in Msgs, Withdraw(m) PROVE TypeOK'
  <2>1. CASE m \in named
    <3>1. toAgent' \in Seq(ToAgent)
      BY <1>2, <2>1, TellTyped, {m} \in SUBSET Msgs DEF Withdraw
    <3> QED
      BY <1>2, <2>1, <3>1 DEF Withdraw
  <2>2. CASE m \notin named
    BY <1>2, <2>2 DEF Withdraw
  <2> QED
    BY <2>1, <2>2
<1>3. CASE PromptControl
  <2>1. controls' \in Nat
    BY <1>3 DEF PromptControl
  <2> QED
    BY <1>3, <2>1 DEF PromptControl
<1>4. CASE Stop
  <2>1. stops' \in Nat
    BY <1>4 DEF Stop
  <2>2. toAgent' \in Seq(ToAgent)
    BY <1>4, TellTyped, {} \in SUBSET Msgs DEF Stop
  <2> QED
    BY <1>4, <2>1, <2>2 DEF Stop, ReturnQueue
<1> QED
  BY <1>1, <1>2, <1>3, <1>4 DEF User

\* The turn loop's steps keep the types.
LEMMA LoopTyped == TypeOK /\ Loop => TypeOK'
<1> SUFFICES ASSUME TypeOK, Loop PROVE TypeOK'
  OBVIOUS
<1> USE DEF TypeOK, userVars, loopVars, entryVars, fateVars, agentVars
<1>1. CASE EchoTurn
  BY <1>1 DEF EchoTurn, LogUserMessages, Count
<1>2. CASE FirstStoreFails
  BY <1>2 DEF FirstStoreFails, Finally
<1>3. CASE TakenStoreFails
  BY <1>3 DEF TakenStoreFails, ReturnQueue, Finally
<1>4. CASE SendTurn
  <2>1. toAgent' \in Seq(ToAgent)
    BY <1>4, TellTyped DEF SendTurn
  <2> QED
    BY <1>4, <2>1 DEF SendTurn
<1>5. CASE OpenFails
  BY <1>5 DEF OpenFails, ReturnQueue, Finally
<1>6. CASE LeaveLoop
  BY <1>6 DEF LeaveLoop, Finally
<1> QED
  BY <1>1, <1>2, <1>3, <1>4, <1>5, <1>6 DEF Loop
\* Reading the agent's stdout keeps the types.
LEMMA PipeTyped == TypeOK /\ Pipe => TypeOK'
<1> SUFFICES ASSUME TypeOK, Pipe PROVE TypeOK'
  OBVIOUS
<1> USE DEF TypeOK, userVars, loopVars, entryVars, fateVars, agentVars
<1>0. ASSUME NEW k, Receive(k)
      PROVE  /\ fromAgent' \in Seq(FromAgent) /\ Head(fromAgent).items \subseteq Msgs
             /\ Matched \subseteq Msgs
  <2>1. Head(fromAgent) \in FromAgent /\ Tail(fromAgent) \in Seq(FromAgent)
    BY <1>0, HeadTailTyped DEF Receive
  <2> QED
    BY <1>0, <2>1 DEF Receive, FromAgent, Matched
<1>1. CASE TurnAnswered
  BY <1>1, <1>0 DEF TurnAnswered, TakeQueuedTurn, Receive
<1>2. CASE TurnFailed
  BY <1>2, <1>0 DEF TurnFailed, ReturnQueue, Finally, Receive
<1>3. CASE Drained
  <2>1. logged' \in [Msgs -> Nat]
    BY <1>3 DEF Drained, LogUserMessages, Count
  <2> QED
    BY <1>3, <1>0, <2>1 DEF Drained, Receive
<1>4. CASE HandedBack
  BY <1>4, <1>0 DEF HandedBack, Receive
<1>5. CASE LeftOver
  <2> DEFINE foreign == Head(fromAgent).items \ (Matched \cup sent)
  <2>1. foreign \subseteq Msgs
    BY <1>5, <1>0 DEF LeftOver
  <2>2. /\ queueAck' \in [Msgs -> {"none", "asked", "ok", "refused"}]
        /\ forwarded' \subseteq Msgs /\ named' \subseteq Msgs /\ sent' \subseteq Msgs
    BY <1>5 DEF LeftOver
  <2>3. CASE working \/ foreign = {}
    BY <1>5, <1>0, <2>1, <2>2, <2>3 DEF LeftOver, Receive
  <2>4. CASE ~(working \/ foreign = {})
    <3>1. PICK m \in foreign :
             /\ working' = TRUE /\ cancelling' = FALSE
             /\ pc' = "storing" /\ turn' = {m} /\ control' = FALSE
             /\ queue' = queue \cup (foreign \ {m})
             /\ store' = [f \in Msgs |-> IF f \in foreign THEN "ok" ELSE store[f]]
      BY <1>5, <2>4 DEF LeftOver
    <3> QED
      BY <1>5, <1>0, <2>1, <2>2, <3>1 DEF LeftOver, Receive
  <2> QED
    BY <2>3, <2>4
<1> QED
  BY <1>1, <1>2, <1>3, <1>4, <1>5 DEF Pipe

\* The answers to extension requests keep the types.
LEMMA AnswersTyped == TypeOK /\ Answers => TypeOK'
<1> SUFFICES ASSUME TypeOK, NEW m \in Msgs, QueueAnswered(m) \/ WithdrawAnswered(m)
             PROVE  TypeOK'
  BY DEF Answers
<1> USE DEF TypeOK, userVars, loopVars, entryVars, fateVars, agentVars
<1>1. CASE QueueAnswered(m)
  BY <1>1 DEF QueueAnswered
<1>2. CASE WithdrawAnswered(m)
  BY <1>2 DEF WithdrawAnswered
<1> QED
  BY <1>1, <1>2

\* The disk, the connect and the rest of a stop keep the types.
LEMMA OutsideTyped == TypeOK /\ (Disk \/ SessionOpens \/ StopReachesAgent) => TypeOK'
<1> SUFFICES ASSUME TypeOK, Disk \/ SessionOpens \/ StopReachesAgent PROVE TypeOK'
  OBVIOUS
<1> USE DEF TypeOK, userVars, loopVars, entryVars, fateVars, agentVars
<1>1. CASE Disk
  BY <1>1 DEF Disk, StoreDone
<1>2. CASE SessionOpens
  BY <1>2 DEF SessionOpens
<1>3. CASE StopReachesAgent
  <2>1. toAgent' \in Seq(ToAgent)
    BY <1>3, TellTyped, {} \in SUBSET Msgs DEF StopReachesAgent
  <2> QED
    BY <1>3, <2>1 DEF StopReachesAgent
<1> QED
  BY <1>1, <1>2, <1>3

\* The agent keeps the types.
LEMMA AgentTyped == TypeOK /\ (Inbox \/ AgentDrains \/ AgentEnds) => TypeOK'
<1> SUFFICES ASSUME TypeOK, Inbox \/ AgentDrains \/ AgentEnds PROVE TypeOK'
  OBVIOUS
<1> USE DEF TypeOK, userVars, loopVars, entryVars, fateVars, agentVars
<1>0. ASSUME NEW k, AgentReads(k)
      PROVE  toAgent' \in Seq(ToAgent) /\ Head(toAgent).items \subseteq Msgs
  <2>1. Head(toAgent) \in ToAgent /\ Tail(toAgent) \in Seq(ToAgent)
    BY <1>0, HeadTailTyped DEF AgentReads
  <2> QED
    BY <1>0, <2>1 DEF AgentReads, ToAgent
<1>1. CASE AgentStarts
  <2>1. heard' \in [Msgs -> Nat]
    BY <1>1 DEF AgentStarts, Count
  <2> QED
    BY <1>1, <1>0, <2>1 DEF AgentStarts, AgentReads
<1>2. CASE AgentQueues
  BY <1>2, <1>0 DEF AgentQueues, AgentReads
<1>3. CASE AgentUnqueues
  <2>1. cancelAck' \in [Msgs -> {"none", "asked", "yes", "no", "error"}] /\ agentQueue' \subseteq agentQueue
    BY <1>3 DEF AgentUnqueues
  <2> QED
    BY <1>3, <1>0, <2>1 DEF AgentUnqueues, AgentReads
<1>4. CASE AgentCancels
  <2>1. fromAgent' \in Seq(FromAgent)
    BY <1>4, SayTyped DEF AgentCancels
  <2> QED
    BY <1>4, <1>0, <2>1 DEF AgentCancels, AgentReads
<1>5. CASE AgentDrains
  <2>1. heard' \in [Msgs -> Nat]
    BY <1>5 DEF AgentDrains, Count
  <2>2. fromAgent' \in Seq(FromAgent)
    BY <1>5, SayTyped DEF AgentDrains
  <2> QED
    BY <1>5, <2>1, <2>2 DEF AgentDrains
<1>6. CASE AgentEnds
  <2>1. fromAgent' \in Seq(FromAgent) /\ used' \subseteq Msgs
    <3>1. PICK answer \in {"answer", "error"}, late \in SUBSET (Late \ used), noteFirst \in BOOLEAN :
             /\ fromAgent' = fromAgent \o LastLines(answer, agentQueue \cup late, noteFirst)
             /\ used' = used \cup late
      BY <1>6 DEF AgentEnds
    <3>2. late \subseteq Msgs /\ agentQueue \cup late \in SUBSET Msgs
      BY MessageSets
    <3>3. LastLines(answer, agentQueue \cup late, noteFirst) \in Seq(FromAgent)
      BY <3>2, LastLinesTyped
    <3> QED
      BY <3>1, <3>2, <3>3, ConcatTyped
  <2> QED
    BY <1>6, <2>1 DEF AgentEnds
<1> QED
  BY <1>1, <1>2, <1>3, <1>4, <1>5, <1>6 DEF Inbox

\* Any step keeps the types.
LEMMA StepTyped == TypeOK /\ [Next]_vars => TypeOK'
<1>1. TypeOK /\ UNCHANGED vars => TypeOK'
  BY DEF TypeOK, vars, userVars, loopVars, entryVars, fateVars, agentVars
<1> QED
  BY <1>1, UserTyped, LoopTyped, PipeTyped, AnswersTyped, OutsideTyped, AgentTyped DEF Next

\* Every reachable state is well typed, whatever the agent, the disk and the users do.
THEOREM TypeCorrect == Safety => []TypeOK
  BY InitTyped, StepTyped, PTL DEF Safety

-----------------------------------------------------------------------------
(***************************************************************************)
(* Counting the lines of a pipe.                                           *)
(***************************************************************************)

\* Where in a pipe there are lines of these kinds.
Lines(s, K) == {i \in 1..Len(s) : s[i].kind \in K}

LEMMA LinesCounted ==
  ASSUME NEW T, NEW s \in Seq(T), NEW K
  PROVE  IsFiniteSet(Lines(s, K)) /\ Cardinality(Lines(s, K)) \in Nat
<1>1. IsFiniteSet(1..Len(s)) /\ Lines(s, K) \in SUBSET (1..Len(s))
  BY FS_Interval DEF Lines
<1> QED
  BY <1>1, FS_Subset, FS_CardinalityType

\* One more line at the end.
LEMMA OneMoreLine ==
  ASSUME NEW T, NEW s \in Seq(T), NEW x \in T, NEW K
  PROVE  Cardinality(Lines(Append(s, x), K))
           = Cardinality(Lines(s, K)) + (IF x.kind \in K THEN 1 ELSE 0)
<1> DEFINE t == Append(s, x)
           n == Len(s) + 1
<1>1. Len(t) = n /\ Len(s) \in Nat /\ t[n] = x /\ \A i \in 1..Len(s) : t[i] = s[i]
  OBVIOUS
<1>2. IsFiniteSet(Lines(s, K)) /\ Cardinality(Lines(s, K)) \in Nat /\ n \notin Lines(s, K)
  <2>1. IsFiniteSet(Lines(s, K)) /\ Cardinality(Lines(s, K)) \in Nat
    BY LinesCounted
  <2>2. n \notin 1..Len(s)
    BY <1>1
  <2> QED
    BY <2>1, <2>2 DEF Lines
<1> HIDE DEF t, n
<1>3. \A i \in 1..Len(t) : i \in 1..Len(s) \/ i = n
  BY <1>1 DEF n
<1>4. 1..Len(s) \subseteq 1..Len(t) /\ n \in 1..Len(t)
  BY <1>1 DEF n
<1>5. CASE x.kind \in K
  <2>1. Lines(t, K) = Lines(s, K) \cup {n}
    BY <1>1, <1>3, <1>4, <1>5 DEF Lines
  <2> QED
    BY <1>2, <1>5, <2>1, FS_AddElement DEF t
<1>6. CASE x.kind \notin K
  <2>1. Lines(t, K) = Lines(s, K)
    BY <1>1, <1>3, <1>4, <1>6 DEF Lines
  <2> QED
    BY <1>2, <1>6, <2>1 DEF t
<1> QED
  BY <1>5, <1>6

\* The first line is read.
LEMMA OneLineLess ==
  ASSUME NEW T, NEW s \in Seq(T), s # <<>>, NEW K
  PROVE  Cardinality(Lines(s, K))
           = Cardinality(Lines(Tail(s), K)) + (IF Head(s).kind \in K THEN 1 ELSE 0)
<1> DEFINE t == Tail(s)
           f == [i \in Lines(t, K) |-> i + 1]
<1>1. /\ Len(s) \in Nat /\ Len(s) >= 1 /\ Len(t) = Len(s) - 1 /\ Head(s) = s[1] /\ t \in Seq(T)
      /\ \A i \in 1..Len(t) : t[i] = s[i + 1]
  OBVIOUS
<1>2. IsFiniteSet(Lines(t, K)) /\ Cardinality(Lines(t, K)) \in Nat /\ IsFiniteSet(Lines(s, K))
      /\ Cardinality(Lines(s, K)) \in Nat
  BY <1>1, LinesCounted
<1> HIDE DEF t
<1>3. \A i \in Lines(t, K) : i + 1 \in Lines(s, K) /\ i + 1 # 1 /\ i \in Nat
  BY <1>1 DEF Lines
<1>4. \A j \in Lines(s, K) : j # 1 => j - 1 \in Lines(t, K) /\ j = (j - 1) + 1
  BY <1>1 DEF Lines
<1>5. f \in Bijection(Lines(t, K), Lines(s, K) \ {1})
  <2>1. f \in [Lines(t, K) -> Lines(s, K) \ {1}]
    BY <1>3
  <2>2. \A i, j \in Lines(t, K) : f[i] = f[j] => i = j
    BY <1>3
  <2>3. \A j \in Lines(s, K) \ {1} : \E i \in Lines(t, K) : f[i] = j
    BY <1>4
  <2> HIDE DEF f
  <2> QED
    BY <2>1, <2>2, <2>3 DEF Bijection, Injection, IsInjective, Surjection
<1>6. Cardinality(Lines(s, K) \ {1}) = Cardinality(Lines(t, K))
  BY <1>2, <1>5, FS_Bijection DEF ExistsBijection
<1>7. 1 \in Lines(s, K) <=> Head(s).kind \in K
  BY <1>1 DEF Lines
<1>8. Cardinality(Lines(s, K) \ {1})
        = IF 1 \in Lines(s, K) THEN Cardinality(Lines(s, K)) - 1 ELSE Cardinality(Lines(s, K))
  BY <1>2, FS_RemoveElement
<1>9. Cardinality(Lines(s, K)) = Cardinality(Lines(t, K)) + (IF Head(s).kind \in K THEN 1 ELSE 0)
  <2> HIDE DEF f
  <2> QED
    BY <1>2, <1>6, <1>7, <1>8
<1> QED
  BY <1>9 DEF t

-----------------------------------------------------------------------------
(***************************************************************************)
(* One turn at a time.                                                     *)
(***************************************************************************)
Turns   == {"prompt", "control"}
Replies == {"answer", "error"}
Asked    == Cardinality(Lines(toAgent, Turns))
Answered == Cardinality(Lines(fromAgent, Replies))
Turning  == IF agentTurn = "none" THEN 0 ELSE 1

\* What it takes to keep OneTurnAtATime: a loop that is parked is marked working,
\* so nothing else starts a turn.
TurnInv ==
    /\ Asked + Turning + Answered = (IF pc = "prompting" THEN 1 ELSE 0)
    /\ pc # "idle" => working

LEMMA Counts ==
  ASSUME TypeOK
  PROVE  Asked \in Nat /\ Answered \in Nat
  BY LinesCounted DEF Asked, Answered, TypeOK

LEMMA TellCounts ==
  ASSUME TypeOK, NEW S \in SUBSET Msgs, NEW k, Tell(k, S),
         k \in {"prompt", "control", "queue", "unqueue", "cancel"}
  PROVE  Asked' = Asked + (IF k \in Turns THEN 1 ELSE 0)
<1>1. [kind |-> k, items |-> S] \in ToAgent /\ toAgent \in Seq(ToAgent)
  BY DEF ToAgent, TypeOK
<1> QED
  BY <1>1, OneMoreLine DEF Asked, Tell

LEMMA SayCounts ==
  ASSUME TypeOK, NEW S \in SUBSET Msgs, NEW k, Say(k, S),
         k \in {"drained", "cancelled", "leftover"}
  PROVE  Answered' = Answered
<1>1. [kind |-> k, items |-> S] \in FromAgent /\ fromAgent \in Seq(FromAgent)
  BY DEF FromAgent, TypeOK
<1>2. Answered' = Answered + (IF k \in Replies THEN 1 ELSE 0)
  BY <1>1, OneMoreLine DEF Answered, Say
<1> QED
  BY <1>2, Counts DEF Replies

LEMMA ReadCounts ==
  ASSUME TypeOK, NEW k, AgentReads(k)
  PROVE  Asked' = Asked - (IF k \in Turns THEN 1 ELSE 0) /\ Asked' \in Nat
<1>1. toAgent \in Seq(ToAgent) /\ toAgent # <<>> /\ Head(toAgent).kind = k /\ toAgent' = Tail(toAgent)
  BY DEF AgentReads, TypeOK
<1>2. Tail(toAgent) \in Seq(ToAgent)
  BY <1>1
<1>3. Cardinality(Lines(toAgent, Turns))
        = Cardinality(Lines(Tail(toAgent), Turns)) + (IF k \in Turns THEN 1 ELSE 0)
  BY <1>1, OneLineLess
<1>4. Cardinality(Lines(Tail(toAgent), Turns)) \in Nat
  BY <1>2, LinesCounted
<1> QED
  BY <1>1, <1>3, <1>4 DEF Asked

LEMMA ReceiveCounts ==
  ASSUME TypeOK, NEW k, Receive(k)
  PROVE  Answered' = Answered - (IF k \in Replies THEN 1 ELSE 0) /\ Answered' \in Nat
<1>1. fromAgent \in Seq(FromAgent) /\ fromAgent # <<>> /\ Head(fromAgent).kind = k
      /\ fromAgent' = Tail(fromAgent)
  BY DEF Receive, TypeOK
<1>2. Tail(fromAgent) \in Seq(FromAgent)
  BY <1>1
<1>3. Cardinality(Lines(fromAgent, Replies))
        = Cardinality(Lines(Tail(fromAgent), Replies)) + (IF k \in Replies THEN 1 ELSE 0)
  BY <1>1, OneLineLess
<1>4. Cardinality(Lines(Tail(fromAgent), Replies)) \in Nat
  BY <1>2, LinesCounted
<1> QED
  BY <1>1, <1>3, <1>4 DEF Answered

\* However the last lines of a turn are ordered, one of them is its answer.
LEMMA EndCounts ==
  ASSUME TypeOK, NEW answer \in Replies, NEW S \in SUBSET Msgs, NEW noteFirst,
         fromAgent' = fromAgent \o LastLines(answer, S, noteFirst)
  PROVE  Answered' = Answered + 1
<1> DEFINE reply == [kind |-> answer, items |-> {}]
           note  == [kind |-> "leftover", items |-> S]
<1>1. /\ reply \in FromAgent /\ note \in FromAgent /\ fromAgent \in Seq(FromAgent)
      /\ reply.kind \in Replies /\ note.kind \notin Replies
  BY DEF FromAgent, Replies, TypeOK
<1>2. \/ fromAgent' = fromAgent \o <<reply>>
      \/ fromAgent' = fromAgent \o (<<note>> \o <<reply>>)
      \/ fromAgent' = fromAgent \o (<<reply>> \o <<note>>)
  BY DEF LastLines
<1> HIDE DEF reply, note
<1>3. ASSUME NEW a \in FromAgent
      PROVE  fromAgent \o <<a>> = Append(fromAgent, a) /\ Append(fromAgent, a) \in Seq(FromAgent)
  BY <1>1
<1>4. ASSUME NEW a \in FromAgent, NEW b \in FromAgent
      PROVE  fromAgent \o (<<a>> \o <<b>>) = Append(Append(fromAgent, a), b)
  BY <1>1
<1>5. ASSUME NEW a \in FromAgent
      PROVE  Cardinality(Lines(Append(fromAgent, a), Replies))
               = Answered + (IF a.kind \in Replies THEN 1 ELSE 0)
  BY <1>1, OneMoreLine DEF Answered
<1>6. ASSUME NEW a \in FromAgent, NEW b \in FromAgent
      PROVE  Cardinality(Lines(Append(Append(fromAgent, a), b), Replies))
               = Cardinality(Lines(Append(fromAgent, a), Replies)) + (IF b.kind \in Replies THEN 1 ELSE 0)
  <2> DEFINE s == Append(fromAgent, a)
  <2>1. s \in Seq(FromAgent)
    BY <1>3
  <2> HIDE DEF s
  <2>2. Cardinality(Lines(Append(s, b), Replies))
          = Cardinality(Lines(s, Replies)) + (IF b.kind \in Replies THEN 1 ELSE 0)
    BY <2>1, OneMoreLine
  <2> QED
    BY <2>2 DEF s
<1>7. CASE fromAgent' = fromAgent \o <<reply>>
  BY <1>1, <1>3, <1>5, <1>7 DEF Answered
<1>8. CASE fromAgent' = fromAgent \o (<<note>> \o <<reply>>)
  <2>1. Answered' = Cardinality(Lines(Append(Append(fromAgent, note), reply), Replies))
    BY <1>1, <1>4, <1>8 DEF Answered
  <2>2. Cardinality(Lines(Append(fromAgent, note), Replies)) = Answered
    BY <1>1, <1>5, Counts
  <2> QED
    BY <1>1, <1>6, <2>1, <2>2
<1>9. CASE fromAgent' = fromAgent \o (<<reply>> \o <<note>>)
  <2>1. Answered' = Cardinality(Lines(Append(Append(fromAgent, reply), note), Replies))
    BY <1>1, <1>4, <1>9 DEF Answered
  <2>2. Cardinality(Lines(Append(fromAgent, reply), Replies)) = Answered + 1
    BY <1>1, <1>5
  <2>3. Answered' = Answered + 1 + 0
    BY <1>1, <1>6, <2>1, <2>2
  <2> QED
    BY <2>3, Counts
<1> QED
  BY <1>2, <1>7, <1>8, <1>9

LEMMA TurnInit == Init => TurnInv
<1> SUFFICES ASSUME Init PROVE TurnInv
  OBVIOUS
<1>1. Lines(<<>>, Turns) = {} /\ Lines(<<>>, Replies) = {}
  BY DEF Lines
<1>2. Asked = 0 /\ Answered = 0
  BY <1>1, FS_EmptySet DEF Asked, Answered, Init
<1> QED
  BY <1>2 DEF Init, TurnInv, Turning

LEMMA TurnStep == TypeOK /\ TurnInv /\ [Next]_vars => TurnInv'
<1> SUFFICES ASSUME TypeOK, TurnInv, [Next]_vars PROVE TurnInv'
  OBVIOUS
<1>0. Asked \in Nat /\ Answered \in Nat /\ Turning \in Nat
  BY Counts DEF Turning
<1> USE DEF userVars, loopVars, entryVars, fateVars, agentVars
\* Nothing of a turn has changed.
<1>1. ASSUME Asked' = Asked, Answered' = Answered, agentTurn' = agentTurn, pc' = pc, working' = working
      PROVE  TurnInv'
  BY <1>1 DEF TurnInv, Turning
<1>2. UNCHANGED toAgent => Asked' = Asked
  BY DEF Asked
<1>3. UNCHANGED fromAgent => Answered' = Answered
  BY DEF Answered
\* The loop has moved, but not to or from handle.prompt.
<1>4. ASSUME Asked' = Asked, Answered' = Answered, agentTurn' = agentTurn,
             pc # "prompting", pc' # "prompting", pc' # "idle" => working'
      PROVE  TurnInv'
  BY <1>4 DEF TurnInv, Turning
<1>5. CASE UNCHANGED vars
  BY <1>1, <1>2, <1>3, <1>5 DEF vars
<1>6. ASSUME NEW m \in Msgs, Prompt(m) PROVE TurnInv'
  <2>1. CASE working
    <3>1. Asked' = Asked
      <4>1. CASE Tell("queue", {m})
        BY <1>0, <4>1, TellCounts DEF Turns
      <4> QED
        BY <1>2, <1>6, <2>1, <4>1 DEF Prompt, Enqueue
    <3> QED
      BY <1>1, <1>3, <1>6, <2>1, <3>1 DEF Prompt
  <2>2. CASE ~working
    BY <1>2, <1>3, <1>4, <1>6, <2>2 DEF Prompt, StartTurn, TurnInv
  <2> QED
    BY <2>1, <2>2
<1>7. ASSUME NEW m \in Msgs, Withdraw(m) PROVE TurnInv'
  <2>1. Asked' = Asked
    <3>1. CASE Tell("unqueue", {m})
      BY <1>0, <3>1, TellCounts DEF Turns
    <3> QED
      BY <1>2, <1>7, <3>1 DEF Withdraw
  <2> QED
    BY <1>1, <1>3, <1>7, <2>1 DEF Withdraw
<1>8. CASE PromptControl
  BY <1>2, <1>3, <1>4, <1>8 DEF PromptControl, TurnInv
<1>9. CASE Stop \/ StopReachesAgent
  <2>1. Asked' = Asked
    <3>1. CASE Tell("cancel", {})
      BY <1>0, <3>1, TellCounts, {} \in SUBSET Msgs DEF Turns
    <3> QED
      BY <1>2, <1>9, <3>1 DEF Stop, StopReachesAgent
  <2> QED
    BY <1>1, <1>3, <1>9, <2>1 DEF Stop, StopReachesAgent
<1>10. CASE Disk \/ SessionOpens \/ Answers
  BY <1>1, <1>2, <1>3, <1>10 DEF Disk, StoreDone, SessionOpens, Answers, QueueAnswered, WithdrawAnswered
<1>11. CASE EchoTurn \/ FirstStoreFails \/ TakenStoreFails \/ OpenFails \/ LeaveLoop
  BY <1>2, <1>3, <1>4, <1>11
     DEF EchoTurn, FirstStoreFails, TakenStoreFails, OpenFails, LeaveLoop, Finally, TurnInv
<1>12. CASE SendTurn
  <2>1. Asked' = Asked + 1
    BY <1>12, TellCounts DEF SendTurn, Turns, TypeOK
  <2> QED
    BY <1>0, <1>3, <1>12, <2>1 DEF SendTurn, TurnInv, Turning
<1>13. CASE TurnAnswered
  <2>1. Answered' = Answered - 1 /\ Answered' \in Nat
    BY <1>13, ReceiveCounts DEF TurnAnswered, Replies
  <2>2. Asked' = Asked /\ agentTurn' = agentTurn /\ pc = "prompting" /\ pc' \in {"leaving", "taking"}
        /\ working' = working
    BY <1>2, <1>13 DEF TurnAnswered, Receive, TakeQueuedTurn
  <2>3. Asked + Turning + Answered = 1
    BY <2>2 DEF TurnInv
  <2>4. Asked' = Asked /\ Turning' = Turning
    BY <2>2 DEF Turning
  <2>5. Asked' + Turning' + Answered' = 0
    BY <1>0, <2>1, <2>3, <2>4
  <2> QED
    BY <2>2, <2>5 DEF TurnInv
<1>14. CASE TurnFailed
  <2>1. Answered' = Answered - 1 /\ Answered' \in Nat
    BY <1>14, ReceiveCounts DEF TurnFailed, Replies
  <2>2. Asked' = Asked /\ agentTurn' = agentTurn /\ pc = "prompting" /\ pc' = "idle"
    BY <1>2, <1>14 DEF TurnFailed, Receive, Finally
  <2>3. Asked + Turning + Answered = 1
    BY <2>2 DEF TurnInv
  <2>4. Asked' = Asked /\ Turning' = Turning
    BY <2>2 DEF Turning
  <2>5. Asked' + Turning' + Answered' = 0
    BY <1>0, <2>1, <2>3, <2>4
  <2> QED
    BY <2>2, <2>5 DEF TurnInv
<1>15. CASE Drained \/ HandedBack
  <2>1. Answered' = Answered
    BY <1>0, <1>15, ReceiveCounts DEF Drained, HandedBack, Replies
  <2> QED
    BY <1>1, <1>2, <1>15, <2>1 DEF Drained, HandedBack, Receive
<1>16. CASE LeftOver
  <2>1. Answered' = Answered /\ Asked' = Asked /\ agentTurn' = agentTurn
    BY <1>0, <1>2, <1>16, ReceiveCounts DEF LeftOver, Receive, Replies
  <2>2. \/ UNCHANGED loopVars
        \/ ~working /\ working' = TRUE /\ pc' = "storing"
    BY <1>16 DEF LeftOver
  <2> QED
    BY <1>1, <1>4, <2>1, <2>2 DEF TurnInv
<1>17. CASE AgentStarts
  <2>1. Asked' = Asked - 1 /\ Asked' \in Nat
    BY <1>17, ReadCounts DEF AgentStarts, Turns
  <2>2. Answered' = Answered /\ agentTurn' # "none" /\ pc' = pc /\ working' = working
    BY <1>3, <1>17 DEF AgentStarts, AgentReads
  <2>3. Turning = 0 /\ Turning' = 1
    <3>1. Asked + Turning + Answered <= 1
      BY DEF TurnInv
    <3>2. Turning \in {0, 1} /\ Turning' = 1
      BY <2>2 DEF Turning
    <3> QED
      BY <1>0, <2>1, <3>1, <3>2
  <2>4. Asked' + Turning' + Answered' = Asked + Turning + Answered
    BY <1>0, <2>1, <2>2, <2>3
  <2> QED
    BY <2>2, <2>4 DEF TurnInv
<1>18. CASE AgentQueues \/ AgentUnqueues
  <2>1. Asked' = Asked
    BY <1>0, <1>18, ReadCounts DEF AgentQueues, AgentUnqueues, Turns
  <2> QED
    BY <1>1, <1>3, <1>18, <2>1 DEF AgentQueues, AgentUnqueues, AgentReads
<1>19. CASE AgentCancels
  <2>1. Asked' = Asked
    BY <1>0, <1>19, ReadCounts DEF AgentCancels, Turns
  <2>2. Answered' = Answered
    BY <1>3, <1>19, SayCounts DEF AgentCancels, TypeOK
  <2> QED
    BY <1>1, <1>19, <2>1, <2>2 DEF AgentCancels, AgentReads
<1>20. CASE AgentDrains
  <2>1. Answered' = Answered
    BY <1>20, SayCounts DEF AgentDrains, TypeOK
  <2> QED
    BY <1>1, <1>2, <1>20, <2>1 DEF AgentDrains
<1>21. CASE AgentEnds
  <2>1. PICK answer \in Replies, late \in SUBSET (Late \ used), noteFirst \in BOOLEAN :
           fromAgent' = fromAgent \o LastLines(answer, agentQueue \cup late, noteFirst)
    BY <1>21 DEF AgentEnds, Replies
  <2>2. agentQueue \cup late \in SUBSET Msgs
    BY MessageSets DEF TypeOK
  <2>3. Answered' = Answered + 1
    BY <2>1, <2>2, EndCounts
  <2>4. Asked' = Asked /\ agentTurn # "none" /\ agentTurn' = "none" /\ pc' = pc /\ working' = working
    BY <1>2, <1>21 DEF AgentEnds
  <2> QED
    BY <1>0, <2>3, <2>4 DEF TurnInv, Turning
<1> QED
  BY <1>5, <1>6, <1>7, <1>8, <1>9, <1>10, <1>11, <1>12, <1>13, <1>14, <1>15, <1>16, <1>17, <1>18,
     <1>19, <1>20, <1>21 DEF Next, User, Loop, Pipe, Inbox

\* ACP allows one turn at a time: whatever stops, failures and adopted messages do,
\* for every agent, one session/prompt is in the pipe, running or answered while the
\* loop is parked on handle.prompt, and none otherwise.
THEOREM TurnsNeverOverlap == Safety => []OneTurnAtATime
<1>1. TurnInv => OneTurnAtATime
  BY DEF TurnInv, OneTurnAtATime, Asked, Answered, Turning, Lines, Turns, Replies
<1> QED
  BY <1>1, InitTyped, TurnInit, StepTyped, TurnStep, PTL DEF Safety

-----------------------------------------------------------------------------
(***************************************************************************)
(* The lines of the pipes.                                                 *)
(***************************************************************************)
\* What one turn at a time says of the lines themselves.
LEMMA TurnFacts ==
  ASSUME TypeOK, TurnInv
  PROVE  /\ \A i \in 1..Len(toAgent) : toAgent[i].kind \in Turns =>
              /\ pc = "prompting" /\ agentTurn = "none"
              /\ \A j \in 1..Len(fromAgent) : fromAgent[j].kind \notin Replies
         /\ agentTurn # "none" => pc = "prompting"
         /\ \A j \in 1..Len(fromAgent) : fromAgent[j].kind \in Replies =>
              pc = "prompting" /\ agentTurn = "none"
         /\ \A i, j \in 1..Len(toAgent) :
              toAgent[i].kind \in Turns /\ toAgent[j].kind \in Turns => i = j
         /\ \A i, j \in 1..Len(fromAgent) :
              fromAgent[i].kind \in Replies /\ fromAgent[j].kind \in Replies => i = j
<1>0. Asked \in Nat /\ Answered \in Nat /\ Turning \in {0, 1} /\ (Turning = 0 <=> agentTurn = "none")
  BY Counts DEF Turning
<1>1. ASSUME NEW T, NEW s \in Seq(T), NEW K, NEW i \in Lines(s, K)
      PROVE  Cardinality(Lines(s, K)) >= 1
  <2>1. IsFiniteSet(Lines(s, K)) /\ Cardinality(Lines(s, K)) \in Nat
    BY LinesCounted
  <2>2. Cardinality(Lines(s, K)) # 0
    BY <2>1, FS_EmptySet
  <2> QED
    BY <2>1, <2>2
<1>2. ASSUME NEW T, NEW s \in Seq(T), NEW K, NEW i \in Lines(s, K), NEW j \in Lines(s, K), i # j
      PROVE  Cardinality(Lines(s, K)) >= 2
  <2>1. IsFiniteSet(Lines(s, K)) /\ Cardinality(Lines(s, K)) \in Nat
    BY LinesCounted
  <2>2. IsFiniteSet(Lines(s, K) \ {i}) /\ Cardinality(Lines(s, K) \ {i}) = Cardinality(Lines(s, K)) - 1
    BY <2>1, FS_RemoveElement
  <2>3. Cardinality(Lines(s, K) \ {i}) \in Nat \ {0}
    <3>1. j \in Lines(s, K) \ {i}
      BY <1>2
    <3> QED
      BY <2>2, <3>1, FS_EmptySet, FS_CardinalityType
  <2> QED
    BY <2>1, <2>2, <2>3
<1>3. toAgent \in Seq(ToAgent) /\ fromAgent \in Seq(FromAgent)
  BY DEF TypeOK
<1>4. \A i \in 1..Len(toAgent) : toAgent[i].kind \in Turns => i \in Lines(toAgent, Turns)
  BY DEF Lines
<1>5. \A i \in 1..Len(fromAgent) : fromAgent[i].kind \in Replies => i \in Lines(fromAgent, Replies)
  BY DEF Lines
<1>6. \A i \in 1..Len(toAgent) : toAgent[i].kind \in Turns => Asked >= 1
  BY <1>1, <1>3, <1>4 DEF Asked
<1>7. \A i \in 1..Len(fromAgent) : fromAgent[i].kind \in Replies => Answered >= 1
  BY <1>1, <1>3, <1>5 DEF Answered
<1>8. \A i, j \in 1..Len(toAgent) :
              toAgent[i].kind \in Turns /\ toAgent[j].kind \in Turns /\ i # j => Asked >= 2
  BY <1>2, <1>3, <1>4 DEF Asked
<1>9. \A i, j \in 1..Len(fromAgent) :
              fromAgent[i].kind \in Replies /\ fromAgent[j].kind \in Replies /\ i # j => Answered >= 2
  BY <1>2, <1>3, <1>5 DEF Answered
<1>10. Asked + Turning + Answered = (IF pc = "prompting" THEN 1 ELSE 0)
  BY DEF TurnInv
<1> QED
  BY <1>0, <1>6, <1>7, <1>8, <1>9, <1>10

-----------------------------------------------------------------------------
\* The lines a step leaves in the pipes.
LEMMA TellLines ==
  ASSUME TypeOK, NEW S \in SUBSET Msgs, NEW k, Tell(k, S),
         k \in {"prompt", "control", "queue", "unqueue", "cancel"}
  PROVE  /\ Len(toAgent) \in Nat /\ Len(toAgent') = Len(toAgent) + 1
         /\ \A i \in 1..Len(toAgent) : toAgent'[i] = toAgent[i]
         /\ toAgent'[Len(toAgent) + 1].kind = k /\ toAgent'[Len(toAgent) + 1].items = S
         /\ \A i \in 1..Len(toAgent') : i \in 1..Len(toAgent) \/ i = Len(toAgent) + 1
<1> DEFINE line == [kind |-> k, items |-> S]
<1>1. line \in ToAgent /\ toAgent \in Seq(ToAgent) /\ toAgent' = Append(toAgent, line)
  BY DEF ToAgent, TypeOK, Tell
<1>2. line.kind = k /\ line.items = S
  OBVIOUS
<1> HIDE DEF line
<1> QED
  BY <1>1, <1>2

LEMMA ReadLines ==
  ASSUME TypeOK, NEW k, AgentReads(k)
  PROVE  /\ Len(toAgent) \in Nat /\ Len(toAgent) >= 1 /\ Len(toAgent') = Len(toAgent) - 1
         /\ Head(toAgent) = toAgent[1] /\ toAgent[1].kind = k /\ toAgent[1] \in ToAgent
         /\ \A i \in 1..Len(toAgent') : toAgent'[i] = toAgent[i + 1]
<1>1. toAgent \in Seq(ToAgent) /\ toAgent # <<>> /\ Head(toAgent).kind = k /\ toAgent' = Tail(toAgent)
  BY DEF AgentReads, TypeOK
<1> QED
  BY <1>1

LEMMA SayLines ==
  ASSUME TypeOK, NEW S \in SUBSET Msgs, NEW k, Say(k, S), k \in {"drained", "cancelled", "leftover"}
  PROVE  /\ Len(fromAgent) \in Nat /\ Len(fromAgent') = Len(fromAgent) + 1
         /\ \A i \in 1..Len(fromAgent) : fromAgent'[i] = fromAgent[i]
         /\ fromAgent'[Len(fromAgent) + 1].kind = k /\ fromAgent'[Len(fromAgent) + 1].items = S
         /\ \A i \in 1..Len(fromAgent') : i \in 1..Len(fromAgent) \/ i = Len(fromAgent) + 1
<1> DEFINE line == [kind |-> k, items |-> S]
<1>1. line \in FromAgent /\ fromAgent \in Seq(FromAgent) /\ fromAgent' = Append(fromAgent, line)
  BY DEF FromAgent, TypeOK, Say
<1>2. line.kind = k /\ line.items = S
  OBVIOUS
<1> HIDE DEF line
<1> QED
  BY <1>1, <1>2

LEMMA ReceiveLines ==
  ASSUME TypeOK, NEW k, Receive(k)
  PROVE  /\ Len(fromAgent) \in Nat /\ Len(fromAgent) >= 1 /\ Len(fromAgent') = Len(fromAgent) - 1
         /\ Head(fromAgent) = fromAgent[1] /\ fromAgent[1].kind = k /\ fromAgent[1] \in FromAgent
         /\ \A i \in 1..Len(fromAgent') : fromAgent'[i] = fromAgent[i + 1]
<1>1. fromAgent \in Seq(FromAgent) /\ fromAgent # <<>> /\ Head(fromAgent).kind = k
      /\ fromAgent' = Tail(fromAgent)
  BY DEF Receive, TypeOK
<1> QED
  BY <1>1

\* A turn ends with its answer and at most one note, of what is left over.
LEMMA EndLines ==
  ASSUME TypeOK, NEW answer \in Replies, NEW S \in SUBSET Msgs, NEW noteFirst,
         fromAgent' = fromAgent \o LastLines(answer, S, noteFirst)
  PROVE  /\ Len(fromAgent) \in Nat /\ Len(fromAgent') \in {Len(fromAgent) + 1, Len(fromAgent) + 2}
         /\ \A i \in 1..Len(fromAgent) : fromAgent'[i] = fromAgent[i]
         /\ \A i \in 1..Len(fromAgent') : i > Len(fromAgent) =>
              \/ fromAgent'[i] = [kind |-> answer, items |-> {}]
              \/ fromAgent'[i] = [kind |-> "leftover", items |-> S]
         /\ \E i \in 1..Len(fromAgent') : i > Len(fromAgent) /\ fromAgent'[i].kind = answer
         /\ \A i, j \in 1..Len(fromAgent') :
              i > Len(fromAgent) /\ j > Len(fromAgent) /\ fromAgent'[i].kind = fromAgent'[j].kind => i = j
<1> DEFINE reply == [kind |-> answer, items |-> {}]
           note  == [kind |-> "leftover", items |-> S]
<1>1. /\ reply \in FromAgent /\ note \in FromAgent /\ fromAgent \in Seq(FromAgent)
      /\ reply.kind = answer /\ note.kind = "leftover" /\ answer # "leftover"
  BY DEF FromAgent, Replies, TypeOK
<1>2. \/ fromAgent' = fromAgent \o <<reply>>
      \/ fromAgent' = fromAgent \o (<<note>> \o <<reply>>)
      \/ fromAgent' = fromAgent \o (<<reply>> \o <<note>>)
  BY DEF LastLines
<1> HIDE DEF reply, note
<1>3. ASSUME NEW a \in FromAgent, NEW b \in FromAgent
      PROVE  /\ Len(fromAgent \o <<a>>) = Len(fromAgent) + 1
             /\ (fromAgent \o <<a>>)[Len(fromAgent) + 1] = a
             /\ \A i \in 1..Len(fromAgent) : (fromAgent \o <<a>>)[i] = fromAgent[i]
  BY <1>1
<1>4. ASSUME NEW a \in FromAgent, NEW b \in FromAgent
      PROVE  LET t == fromAgent \o (<<a>> \o <<b>>)
             IN  /\ Len(t) = Len(fromAgent) + 2
                 /\ t[Len(fromAgent) + 1] = a /\ t[Len(fromAgent) + 2] = b
                 /\ \A i \in 1..Len(fromAgent) : t[i] = fromAgent[i]
  BY <1>1
<1>5. Len(fromAgent) \in Nat
  BY <1>1
<1> DEFINE Ended ==
      /\ Len(fromAgent') \in {Len(fromAgent) + 1, Len(fromAgent) + 2}
      /\ \A i \in 1..Len(fromAgent) : fromAgent'[i] = fromAgent[i]
      /\ \A i \in 1..Len(fromAgent') : i > Len(fromAgent) => fromAgent'[i] \in {reply, note}
      /\ \E i \in 1..Len(fromAgent') : i > Len(fromAgent) /\ fromAgent'[i] = reply
      /\ \A i, j \in 1..Len(fromAgent') :
           i > Len(fromAgent) /\ j > Len(fromAgent) /\ fromAgent'[i].kind = fromAgent'[j].kind => i = j
<1>6. ASSUME fromAgent' = fromAgent \o <<reply>> PROVE Ended
  <2>1. \A i \in 1..Len(fromAgent') : i > Len(fromAgent) => i = Len(fromAgent) + 1
    BY <1>1, <1>3, <1>5, <1>6
  <2> QED
    BY <1>1, <1>3, <1>5, <1>6, <2>1
<1>7. ASSUME fromAgent' = fromAgent \o (<<note>> \o <<reply>>) PROVE Ended
  <2>1. \A i \in 1..Len(fromAgent') : i > Len(fromAgent) => i = Len(fromAgent) + 1 \/ i = Len(fromAgent) + 2
    BY <1>1, <1>4, <1>5, <1>7
  <2> QED
    BY <1>1, <1>4, <1>5, <1>7, <2>1
<1>8. ASSUME fromAgent' = fromAgent \o (<<reply>> \o <<note>>) PROVE Ended
  <2>1. \A i \in 1..Len(fromAgent') : i > Len(fromAgent) => i = Len(fromAgent) + 1 \/ i = Len(fromAgent) + 2
    BY <1>1, <1>4, <1>5, <1>8
  <2> QED
    BY <1>1, <1>4, <1>5, <1>8, <2>1
<1>9. Ended
  BY <1>2, <1>6, <1>7, <1>8
<1>10. \E i \in 1..Len(fromAgent') : i > Len(fromAgent) /\ fromAgent'[i].kind = answer
  BY <1>1, <1>9
<1>11. \A i \in 1..Len(fromAgent') : i > Len(fromAgent) => fromAgent'[i] = reply \/ fromAgent'[i] = note
  BY <1>9
<1>12. \A i \in 1..Len(fromAgent') : i > Len(fromAgent) =>
         \/ fromAgent'[i] = [kind |-> answer, items |-> {}]
         \/ fromAgent'[i] = [kind |-> "leftover", items |-> S]
  BY <1>11 DEF reply, note
<1> QED
  BY <1>5, <1>9, <1>10, <1>12

\* and the note is there when something is left.
LEMMA LeftOverNoted ==
  ASSUME TypeOK, NEW answer \in Replies, NEW S \in SUBSET Msgs, S # {}, NEW noteFirst,
         fromAgent' = fromAgent \o LastLines(answer, S, noteFirst)
  PROVE  \E i \in 1..Len(fromAgent') : fromAgent'[i].kind = "leftover" /\ fromAgent'[i].items = S
<1> DEFINE reply == [kind |-> answer, items |-> {}]
           note  == [kind |-> "leftover", items |-> S]
<1>1. /\ reply \in FromAgent /\ note \in FromAgent /\ fromAgent \in Seq(FromAgent)
      /\ note.kind = "leftover" /\ note.items = S
  BY DEF FromAgent, Replies, TypeOK
<1>2. \/ fromAgent' = fromAgent \o (<<note>> \o <<reply>>)
      \/ fromAgent' = fromAgent \o (<<reply>> \o <<note>>)
  BY DEF LastLines
<1> HIDE DEF reply, note
<1>3. \E i \in 1..Len(fromAgent') : fromAgent'[i] = note
  <2>1. CASE fromAgent' = fromAgent \o (<<note>> \o <<reply>>)
    <3>1. Len(fromAgent) + 1 \in 1..Len(fromAgent') /\ fromAgent'[Len(fromAgent) + 1] = note
      BY <1>1, <2>1
    <3> QED
      BY <3>1
  <2>2. CASE fromAgent' = fromAgent \o (<<reply>> \o <<note>>)
    <3>1. Len(fromAgent) + 2 \in 1..Len(fromAgent') /\ fromAgent'[Len(fromAgent) + 2] = note
      BY <1>1, <2>2
    <3> QED
      BY <3>1
  <2> QED
    BY <1>2, <2>1, <2>2
<1> QED
  BY <1>1, <1>3

-----------------------------------------------------------------------------
(***************************************************************************)
(* A message is read once.                                                 *)
(***************************************************************************)
Notes == {"drained", "cancelled", "leftover"}

\* Where in the pipes the agent is asked to queue m, and where it gives it back.
Asking(m) == {i \in 1..Len(toAgent) : toAgent[i].kind = "queue" /\ m \in toAgent[i].items}
Noting(m) == {i \in 1..Len(fromAgent) : fromAgent[i].kind \in Notes /\ m \in fromAgent[i].items}
\* The copy of m that went by the agent's queue is still about.
AtAgent(m) == Asking(m) # {} \/ m \in agentQueue \/ Noting(m) # {}

\* What the lines of a pipe carry, and what cannot come behind what: notes of a
\* running turn come before its answer, only a hand-back may come after.
PipesInv ==
    /\ agentQueue # {} => agentTurn = "prompt"
    /\ \A i \in 1..Len(toAgent) :
         /\ toAgent[i].kind \in Turns => toAgent[i].items = turn
         /\ toAgent[i].kind \in {"queue", "unqueue"} => \E m \in Msgs : toAgent[i].items = {m}
    /\ \A i \in 1..Len(fromAgent) : fromAgent[i].kind \in {"drained", "cancelled"} =>
         agentTurn # "none" \/ \E j \in 1..Len(fromAgent) : j > i /\ fromAgent[j].kind \in Replies
    /\ \A i, j \in 1..Len(fromAgent) :
         i < j /\ fromAgent[i].kind \in Replies => fromAgent[j].kind = "leftover"

\* One copy of a message at most travels by the agent's queue.
CopyInv ==
    \A m \in Msgs :
      /\ \A i, j \in Asking(m) : i = j
      /\ \A i, j \in Noting(m) : i = j
      /\ Asking(m) # {} => m \notin agentQueue /\ Noting(m) = {}
      /\ m \in agentQueue => Noting(m) = {}

\* The daemon knows of that copy, whatever was answered meanwhile.
EntryInv ==
    /\ \A m \in Msgs \ used : /\ ~AtAgent(m) /\ m \notin queue \cup turn /\ heard[m] = 0
                              /\ queueAck[m] # "refused" /\ cancelAck[m] # "yes"
    /\ \A m \in Msgs : AtAgent(m) =>
         /\ m \in queue => m \in forwarded
         /\ queueAck[m] # "refused" /\ cancelAck[m] # "yes"
    /\ queue \cap turn = {}

\* A request to queue what has become a turn comes too late: it is read before the
\* turn is, and refused.
TooLate ==
    \A m \in turn : \A i \in Asking(m) :
      agentTurn = "none" /\ \A j \in 1..Len(toAgent) : toAgent[j].kind \in Turns => i < j

\* What goes by the agent's queue is no turn and has not been read.
QueuedUnread ==
    \A m \in Msgs : /\ m \in agentQueue => heard[m] = 0 /\ m \notin turn
                    /\ Asking(m) # {} => heard[m] = 0

\* What is handed back with the end of a turn is known to have been sent if it was:
\* behind the answer it has not been yet.
HandedBackUnread ==
    \A m \in Msgs : \A i \in Noting(m) : fromAgent[i].kind = "leftover" =>
      /\ m \in turn \/ heard[m] # 0 => m \in sent
      /\ (\E j \in 1..Len(fromAgent) : j < i /\ fromAgent[j].kind \in Replies) =>
           m \notin turn /\ heard[m] = 0

\* One that was read and still waits is about to be reported as read.
ReadReported ==
    \A m \in queue : heard[m] # 0 => \E i \in Noting(m) : fromAgent[i].kind = "drained"

\* A turn that was not started has not been read.
TurnUnread ==
    agentTurn = "none" /\ (\A i \in 1..Len(fromAgent) : fromAgent[i].kind \notin Replies)
      => \A m \in turn : heard[m] = 0

HeardInv == /\ TooLate /\ QueuedUnread /\ HandedBackUnread /\ ReadReported /\ TurnUnread
            /\ NeverReadTwice
OnceInv == PipesInv /\ CopyInv /\ EntryInv /\ HeardInv

\* Steps that only take messages off the queue or end a turn that was not sent.
LEMMA OnceLess ==
  ASSUME TypeOK, TurnInv, OnceInv,
         queue' \subseteq queue, turn' = turn \/ (turn' = {} /\ pc # "prompting"),
         UNCHANGED <<fromAgent, agentVars, used, sent, queueAck, forwarded>>,
         \A m \in Msgs : cancelAck'[m] = "yes" => cancelAck[m] = "yes",
         \/ UNCHANGED toAgent
         \/ Tell("cancel", {})
         \/ \E m \in Msgs : Tell("unqueue", {m})
  PROVE  OnceInv'
<1> USE DEF agentVars
<1>1. \A m \in Msgs : Noting(m)' = Noting(m)
  BY DEF Noting
<1>2. \A m \in Msgs : Asking(m)' = Asking(m)
  <2>1. ASSUME NEW m \in Msgs, NEW S \in SUBSET Msgs, NEW k \in {"cancel", "unqueue"}, Tell(k, S)
        PROVE  Asking(m)' = Asking(m)
    BY <2>1, TellLines DEF Asking
  <2> QED
    BY <2>1, {} \in SUBSET Msgs, \A m \in Msgs : {m} \in SUBSET Msgs DEF Asking
<1>3. \A m \in Msgs : AtAgent(m)' = AtAgent(m)
  BY <1>1, <1>2 DEF AtAgent
<1>4. \A i \in 1..Len(toAgent') :
        \/ i \in 1..Len(toAgent) /\ toAgent'[i] = toAgent[i]
        \/ toAgent'[i].kind = "cancel"
        \/ toAgent'[i].kind = "unqueue" /\ \E m \in Msgs : toAgent'[i].items = {m}
  <2>1. ASSUME NEW S \in SUBSET Msgs, NEW k \in {"cancel", "unqueue"}, Tell(k, S), NEW i \in 1..Len(toAgent')
        PROVE  \/ i \in 1..Len(toAgent) /\ toAgent'[i] = toAgent[i]
               \/ toAgent'[i].kind = k /\ toAgent'[i].items = S
    BY <2>1, TellLines
  <2>2. CASE Tell("cancel", {})
    BY <2>1, <2>2, {} \in SUBSET Msgs
  <2>3. ASSUME NEW m \in Msgs, Tell("unqueue", {m})
        PROVE  \A i \in 1..Len(toAgent') :
                 \/ i \in 1..Len(toAgent) /\ toAgent'[i] = toAgent[i]
                 \/ toAgent'[i].kind = "unqueue" /\ toAgent'[i].items = {m}
    BY <2>1, <2>3, {m} \in SUBSET Msgs
  <2> QED
    BY <2>2, <2>3
<1>5. PipesInv'
  <2>1. \A i \in 1..Len(toAgent') : toAgent'[i].kind \in Turns =>
          i \in 1..Len(toAgent) /\ toAgent'[i] = toAgent[i] /\ turn' = turn
    BY <1>4, TurnFacts DEF Turns
  <2> QED
    BY <1>4, <2>1 DEF OnceInv, PipesInv, Turns
<1>6. CopyInv'
  BY <1>1, <1>2 DEF OnceInv, CopyInv
<1>7. EntryInv'
  BY <1>3 DEF OnceInv, EntryInv
<1>8. HeardInv'
  <2>1. \A j \in 1..Len(toAgent') : toAgent'[j].kind \in Turns => j \in 1..Len(toAgent) /\ toAgent[j].kind \in Turns
    BY <1>4 DEF Turns
  <2>2. TooLate'
    <3> SUFFICES ASSUME NEW m \in turn', NEW i \in Asking(m)'
                 PROVE  agentTurn' = "none"
                        /\ \A j \in 1..Len(toAgent') : toAgent'[j].kind \in Turns => i < j
      BY DEF TooLate
    <3>1. m \in turn /\ m \in Msgs /\ i \in Asking(m)
      BY <1>2 DEF TypeOK
    <3> QED
      BY <2>1, <3>1 DEF OnceInv, HeardInv, TooLate
  <2>3. QueuedUnread'
    BY <1>2 DEF OnceInv, HeardInv, QueuedUnread
  <2>4. HandedBackUnread'
    BY <1>1 DEF OnceInv, HeardInv, HandedBackUnread
  <2>5. ReadReported'
    BY <1>1 DEF OnceInv, HeardInv, ReadReported, TypeOK
  <2>6. TurnUnread' /\ NeverReadTwice'
    BY DEF OnceInv, HeardInv, TurnUnread, NeverReadTwice
  <2> QED
    BY <2>2, <2>3, <2>4, <2>5, <2>6 DEF HeardInv
<1> QED
  BY <1>5, <1>6, <1>7, <1>8 DEF OnceInv

\* Lines that carry m, after a pipe was read or written.
LEMMA AskingShifts ==
  ASSUME TypeOK, NEW k, AgentReads(k), NEW m
  PROVE  /\ \A i \in Asking(m)' : i \in Nat /\ i >= 1 /\ i + 1 \in Asking(m)
         /\ \A i \in Asking(m) : i # 1 => i - 1 \in Asking(m)' /\ i - 1 >= 1
<1>1. /\ Len(toAgent) \in Nat /\ Len(toAgent') = Len(toAgent) - 1
      /\ \A i \in 1..Len(toAgent') : toAgent'[i] = toAgent[i + 1]
  BY ReadLines
<1>2. \A i \in Asking(m)' : i \in Nat /\ i >= 1 /\ i + 1 \in Asking(m)
  BY <1>1 DEF Asking
<1>3. ASSUME NEW i \in Asking(m), i # 1
      PROVE  i - 1 \in Asking(m)' /\ i - 1 >= 1
  <2>1. i - 1 \in 1..Len(toAgent') /\ (i - 1) + 1 = i
    BY <1>1, <1>3 DEF Asking
  <2> QED
    BY <1>1, <1>3, <2>1 DEF Asking
<1> QED
  BY <1>2, <1>3

LEMMA NotingShifts ==
  ASSUME TypeOK, NEW k, Receive(k), NEW m
  PROVE  /\ \A i \in Noting(m)' : i \in Nat /\ i >= 1 /\ i + 1 \in Noting(m) /\ fromAgent'[i] = fromAgent[i + 1]
         /\ \A i \in Noting(m) : i # 1 =>
              i \in Nat /\ i - 1 \in Noting(m)' /\ i - 1 >= 1 /\ fromAgent'[i - 1] = fromAgent[i]
  BY ReceiveLines DEF Noting

LEMMA AskingStays ==
  ASSUME TypeOK, NEW S \in SUBSET Msgs, NEW k, Tell(k, S),
         k \in {"prompt", "control", "queue", "unqueue", "cancel"}, NEW m, k = "queue" => m \notin S
  PROVE  Asking(m)' = Asking(m)
  BY TellLines DEF Asking

LEMMA NotingGrows ==
  ASSUME TypeOK, NEW S \in SUBSET Msgs, NEW k, Say(k, S), k \in Notes, NEW m
  PROVE  /\ Len(fromAgent) + 1 \notin Noting(m)
         /\ Noting(m)' = IF m \in S THEN Noting(m) \cup {Len(fromAgent) + 1} ELSE Noting(m)
  BY SayLines DEF Noting, Notes

LEMMA OnceAnswered ==
  ASSUME TypeOK, OnceInv, NEW m \in Msgs, QueueAnswered(m)
  PROVE  OnceInv'
<1> USE DEF QueueAnswered, loopVars, fateVars, userVars, agentVars
<1>1. \A x \in Msgs : Noting(x)' = Noting(x) /\ Asking(x)' = Asking(x) /\ AtAgent(x)' = AtAgent(x)
  BY DEF Noting, Asking, AtAgent
<1>2. PipesInv'
  BY DEF OnceInv, PipesInv
<1>3. CopyInv'
  BY <1>1 DEF OnceInv, CopyInv
<1>4. EntryInv'
  BY <1>1 DEF OnceInv, EntryInv, TypeOK
<1>5. HeardInv'
  BY <1>1 DEF OnceInv, HeardInv, TooLate, QueuedUnread, HandedBackUnread, ReadReported, TurnUnread,
              NeverReadTwice, TypeOK
<1> QED
  BY <1>2, <1>3, <1>4, <1>5 DEF OnceInv

LEMMA OncePrompted ==
  ASSUME TypeOK, TurnInv, OnceInv, NEW m \in Msgs, Prompt(m)
  PROVE  OnceInv'
<1> USE DEF Prompt, loopVars, fateVars, agentVars
<1>1. \A x \in Msgs : Noting(x)' = Noting(x)
  BY DEF Noting
<1>2. /\ m \notin used /\ ~AtAgent(m) /\ m \notin queue \cup turn /\ heard[m] = 0
      /\ queueAck[m] # "refused" /\ cancelAck[m] # "yes" /\ used' = used \cup {m}
  BY DEF OnceInv, EntryInv
<1>3. CASE ~working
  <2>1. pc # "prompting" /\ turn' = {m} /\ UNCHANGED <<queue, forwarded, queueAck, cancelAck, toAgent>>
    BY <1>3 DEF TurnInv, StartTurn
  <2>2. \A x \in Msgs : Asking(x)' = Asking(x) /\ AtAgent(x)' = AtAgent(x)
    BY <1>1, <2>1 DEF Asking, AtAgent
  <2>3. \A j \in 1..Len(toAgent) : toAgent[j].kind \notin Turns
    BY <2>1, TurnFacts
  <2>4. PipesInv'
    BY <2>1, <2>3 DEF OnceInv, PipesInv
  <2>5. CopyInv'
    BY <1>1, <2>2 DEF OnceInv, CopyInv
  <2>6. EntryInv'
    BY <1>2, <2>1, <2>2 DEF OnceInv, EntryInv
  <2>7. HeardInv'
    <3>1. TooLate'
      BY <1>1, <1>2, <2>1, <2>2 DEF OnceInv, HeardInv, TooLate, AtAgent, TypeOK
    <3>2. QueuedUnread'
      BY <1>1, <1>2, <2>1, <2>2 DEF OnceInv, HeardInv, QueuedUnread, AtAgent, TypeOK
    <3>3. HandedBackUnread'
      BY <1>1, <1>2, <2>1, <2>2 DEF OnceInv, HeardInv, HandedBackUnread, AtAgent, TypeOK
    <3>4. ReadReported'
      BY <1>1, <1>2, <2>1, <2>2 DEF OnceInv, HeardInv, ReadReported, AtAgent, TypeOK
    <3>5. TurnUnread'
      BY <1>1, <1>2, <2>1, <2>2 DEF OnceInv, HeardInv, TurnUnread, AtAgent, TypeOK
    <3>6. NeverReadTwice'
      BY DEF OnceInv, HeardInv, NeverReadTwice
    <3> QED
      BY <3>1, <3>2, <3>3, <3>4, <3>5, <3>6 DEF HeardInv
  <2> QED
    BY <2>4, <2>5, <2>6, <2>7 DEF OnceInv
<1>4. CASE working
  <2>1. turn' = turn /\ queue' = queue \cup {m}
    BY <1>4 DEF Enqueue
  <2>2. \/ UNCHANGED <<toAgent, forwarded, queueAck>>
        \/ /\ Tell("queue", {m}) /\ forwarded' = forwarded \cup {m}
           /\ queueAck' = [queueAck EXCEPT ![m] = "asked"]
    BY <1>4 DEF Enqueue
  <2>3. CASE UNCHANGED <<toAgent, forwarded, queueAck>>
    <3>1. \A x \in Msgs : Asking(x)' = Asking(x) /\ AtAgent(x)' = AtAgent(x)
      BY <1>1, <2>3 DEF Asking, AtAgent
    <3>2. PipesInv'
      BY <2>1, <2>3 DEF OnceInv, PipesInv
    <3>3. CopyInv'
      BY <1>1, <3>1 DEF OnceInv, CopyInv
    <3>4. EntryInv'
      BY <1>2, <2>1, <2>3, <3>1 DEF OnceInv, EntryInv
    <3>5. HeardInv'
      <4>1. TooLate'
        BY <1>1, <1>2, <2>1, <2>3, <3>1 DEF OnceInv, HeardInv, TooLate, TypeOK
      <4>2. QueuedUnread'
        BY <1>1, <1>2, <2>1, <2>3, <3>1 DEF OnceInv, HeardInv, QueuedUnread, TypeOK
      <4>3. HandedBackUnread'
        BY <1>1, <1>2, <2>1, <2>3, <3>1 DEF OnceInv, HeardInv, HandedBackUnread, TypeOK
      <4>4. ReadReported'
        BY <1>1, <1>2, <2>1, <2>3, <3>1 DEF OnceInv, HeardInv, ReadReported, TypeOK
      <4>5. TurnUnread'
        BY <1>1, <1>2, <2>1, <2>3, <3>1 DEF OnceInv, HeardInv, TurnUnread, TypeOK
      <4>6. NeverReadTwice'
        BY DEF OnceInv, HeardInv, NeverReadTwice
      <4> QED
        BY <4>1, <4>2, <4>3, <4>4, <4>5, <4>6 DEF HeardInv
    <3> QED
      BY <3>2, <3>3, <3>4, <3>5 DEF OnceInv
  <2>4. CASE Tell("queue", {m}) /\ forwarded' = forwarded \cup {m}
             /\ queueAck' = [queueAck EXCEPT ![m] = "asked"]
    <3>0. /\ Len(toAgent) \in Nat /\ Len(toAgent') = Len(toAgent) + 1
          /\ \A i \in 1..Len(toAgent) : toAgent'[i] = toAgent[i]
          /\ toAgent'[Len(toAgent) + 1].kind = "queue" /\ toAgent'[Len(toAgent) + 1].items = {m}
          /\ \A i \in 1..Len(toAgent') : i \in 1..Len(toAgent) \/ i = Len(toAgent) + 1
      BY <2>4, {m} \in SUBSET Msgs, TellLines
    <3>1. \A x \in Msgs : x # m => Asking(x)' = Asking(x) /\ AtAgent(x)' = AtAgent(x)
      BY <1>1, <3>0 DEF Asking, AtAgent
    <3>2. Asking(m)' = {Len(toAgent) + 1} /\ Asking(m) = {} /\ Noting(m) = {} /\ m \notin agentQueue
      BY <1>2, <3>0 DEF Asking, AtAgent
    <3>3. PipesInv'
      BY <2>1, <3>0 DEF OnceInv, PipesInv, Turns
    <3>4. CopyInv'
      BY <1>1, <3>1, <3>2 DEF OnceInv, CopyInv
    <3>5. EntryInv'
      BY <1>2, <2>1, <2>4, <3>1 DEF OnceInv, EntryInv, TypeOK
    <3>6. TooLate'
      <4> SUFFICES ASSUME NEW x \in turn, NEW i \in Asking(x)'
                   PROVE  agentTurn' = "none"
                          /\ \A j \in 1..Len(toAgent') : toAgent'[j].kind \in Turns => i < j
        BY <2>1 DEF TooLate
      <4>1. x \in Msgs /\ x # m /\ i \in Asking(x)
        BY <1>2, <3>1 DEF TypeOK
      <4> QED
        BY <3>0, <4>1 DEF OnceInv, HeardInv, TooLate, Turns
    <3>7. HeardInv'
      <4>1. QueuedUnread'
        BY <1>1, <1>2, <2>1, <3>1 DEF OnceInv, HeardInv, QueuedUnread, TypeOK
      <4>2. HandedBackUnread'
        BY <1>1, <1>2, <2>1, <3>1 DEF OnceInv, HeardInv, HandedBackUnread, TypeOK
      <4>3. ReadReported'
        BY <1>1, <1>2, <2>1, <3>1 DEF OnceInv, HeardInv, ReadReported, TypeOK
      <4>4. TurnUnread'
        BY <1>1, <1>2, <2>1, <3>1 DEF OnceInv, HeardInv, TurnUnread, TypeOK
      <4>5. NeverReadTwice'
        BY DEF OnceInv, HeardInv, NeverReadTwice
      <4> QED
        BY <3>6, <4>1, <4>2, <4>3, <4>4, <4>5 DEF HeardInv
    <3> QED
      BY <3>3, <3>4, <3>5, <3>7 DEF OnceInv
  <2> QED
    BY <2>2, <2>3, <2>4
<1> QED
  BY <1>3, <1>4

LEMMA OnceSent ==
  ASSUME TypeOK, TurnInv, OnceInv, SendTurn
  PROVE  OnceInv'
<1> USE DEF SendTurn, entryVars, userVars, agentVars
<1>0. /\ Len(toAgent) \in Nat /\ Len(toAgent') = Len(toAgent) + 1
      /\ \A i \in 1..Len(toAgent) : toAgent'[i] = toAgent[i]
      /\ toAgent'[Len(toAgent) + 1].kind \in Turns /\ toAgent'[Len(toAgent) + 1].items = turn
      /\ \A i \in 1..Len(toAgent') : i \in 1..Len(toAgent) \/ i = Len(toAgent) + 1
  <2>1. PICK k \in Turns : Tell(k, turn)
    BY DEF Turns
  <2> QED
    BY <2>1, TellLines DEF Turns, TypeOK
<1>1. \A x \in Msgs : Noting(x)' = Noting(x) /\ Asking(x)' = Asking(x) /\ AtAgent(x)' = AtAgent(x)
  BY <1>0 DEF Noting, Asking, AtAgent, Turns
<1>2. \A j \in 1..Len(toAgent) : toAgent[j].kind \notin Turns
  BY TurnFacts
<1>3. PipesInv'
  BY <1>0 DEF OnceInv, PipesInv, Turns
<1>4. CopyInv'
  BY <1>1 DEF OnceInv, CopyInv
<1>5. EntryInv'
  BY <1>1 DEF OnceInv, EntryInv
<1>6. TooLate'
  <2> SUFFICES ASSUME NEW x \in turn, NEW i \in Asking(x)'
               PROVE  agentTurn' = "none" /\ \A j \in 1..Len(toAgent') : toAgent'[j].kind \in Turns => i < j
    BY DEF TooLate
  <2>1. x \in Msgs /\ i \in Asking(x) /\ i \in 1..Len(toAgent)
    BY <1>1 DEF TypeOK, Asking
  <2> QED
    BY <1>0, <1>2, <2>1 DEF OnceInv, HeardInv, TooLate
<1>7. HeardInv'
  BY <1>1, <1>6 DEF OnceInv, HeardInv, QueuedUnread, HandedBackUnread, ReadReported, TurnUnread,
                    NeverReadTwice, TypeOK
<1> QED
  BY <1>3, <1>4, <1>5, <1>7 DEF OnceInv

\* The answer to a turn was read: what is behind it are hand-backs, and what was
\* queued meanwhile is the next turn or goes back to the composer.
LEMMA OnceOver ==
  ASSUME TypeOK, TurnInv, OnceInv, NEW k \in Replies, Receive(k),
         queue' = {}, turn' \in {{}, queue},
         \A m \in turn' : m \in forwarded => m \in sent',
         UNCHANGED <<forwarded, queueAck>>
  PROVE  OnceInv'
<1> USE DEF Receive, userVars, agentVars
<1>0. /\ Len(fromAgent) \in Nat /\ Len(fromAgent) >= 1 /\ Len(fromAgent') = Len(fromAgent) - 1
      /\ fromAgent[1].kind = k /\ \A i \in 1..Len(fromAgent') : fromAgent'[i] = fromAgent[i + 1]
  BY ReceiveLines
<1>1. agentTurn = "none" /\ \A i \in 1..Len(toAgent) : toAgent[i].kind \notin Turns
  BY <1>0, TurnFacts
<1>2. \A i \in 1..Len(fromAgent') : fromAgent'[i].kind = "leftover"
  BY <1>0 DEF OnceInv, PipesInv
<1>3. \A x \in Msgs : Asking(x)' = Asking(x)
  BY DEF Asking
<1>4. \A x \in Msgs : \A i \in Noting(x) : i # 1 /\ fromAgent[i].kind = "leftover"
  <2> SUFFICES ASSUME NEW x \in Msgs, NEW i \in Noting(x) PROVE i # 1 /\ fromAgent[i].kind = "leftover"
    OBVIOUS
  <2>1. i \in 1..Len(fromAgent) /\ i # 1
    BY <1>0 DEF Noting, Notes, Replies
  <2> QED
    BY <1>0, <2>1 DEF OnceInv, PipesInv
<1>5. \A x \in Msgs : \A i \in Noting(x)' : i \in Nat /\ i >= 1 /\ i + 1 \in Noting(x)
  BY NotingShifts
<1>6. \A x \in Msgs : Noting(x)' = {} <=> Noting(x) = {}
  BY <1>4, NotingShifts
<1>11. agentQueue' = agentQueue
  OBVIOUS
<1>12. \A x \in Msgs : AtAgent(x)' = AtAgent(x)
  BY <1>3, <1>6, <1>11, Zenon DEF AtAgent
<1>7. PipesInv'
  BY <1>1, <1>2 DEF OnceInv, PipesInv, Replies
<1>8. CopyInv'
  <2> SUFFICES ASSUME NEW x \in Msgs PROVE
        /\ \A i, j \in Noting(x)' : i = j
        /\ Asking(x) # {} => x \notin agentQueue /\ Noting(x)' = {}
        /\ x \in agentQueue => Noting(x)' = {}
    BY <1>3, <1>11 DEF OnceInv, CopyInv
  <2>1. \A i, j \in Noting(x)' : i = j
    BY <1>5 DEF OnceInv, CopyInv
  <2> QED
    BY <1>6, <2>1 DEF OnceInv, CopyInv
<1>9. EntryInv'
  BY <1>12 DEF OnceInv, EntryInv
<1>10. HeardInv'
  <2>1. TooLate'
    BY <1>1 DEF TooLate
  <2>2. QueuedUnread'
    BY <1>1, <1>3 DEF OnceInv, PipesInv, HeardInv, QueuedUnread
  <2>3. \A x \in Msgs : Noting(x) # {} => heard[x] = 0 /\ (x \in queue => x \in forwarded)
    <3> SUFFICES ASSUME NEW x \in Msgs, NEW i \in Noting(x)
                 PROVE  heard[x] = 0 /\ (x \in queue => x \in forwarded)
      OBVIOUS
    <3>1. i \in 1..Len(fromAgent) /\ 1 < i
      BY <1>0, <1>4 DEF Noting
    <3> QED
      BY <1>0, <1>4, <3>1 DEF OnceInv, HeardInv, HandedBackUnread, EntryInv, AtAgent
  <2>4. HandedBackUnread'
    BY <1>2, <1>5, <2>3 DEF HandedBackUnread, Noting, Replies
  <2>5. ReadReported'
    BY DEF ReadReported
  <2>6. \A x \in queue : heard[x] = 0
    BY <1>4 DEF OnceInv, HeardInv, ReadReported, TypeOK
  <2>7. TurnUnread' /\ NeverReadTwice'
    BY <2>6 DEF OnceInv, HeardInv, TurnUnread, NeverReadTwice
  <2> QED
    BY <2>1, <2>2, <2>4, <2>5, <2>7 DEF HeardInv
<1> QED
  BY <1>7, <1>8, <1>9, <1>10 DEF OnceInv

LEMMA OnceTurnOver ==
  ASSUME TypeOK, TurnInv, OnceInv, TurnAnswered \/ TurnFailed
  PROVE  OnceInv'
<1>1. CASE TurnAnswered
  <2>1. /\ queue' = {} /\ turn' = queue
        /\ \A m \in turn' : m \in forwarded => m \in sent'
    BY <1>1 DEF TurnAnswered, TakeQueuedTurn
  <2> QED
    BY <1>1, <2>1, OnceOver DEF TurnAnswered, Replies
<1>2. CASE TurnFailed
  BY <1>2, OnceOver DEF TurnFailed, ReturnQueue, Finally, entryVars, Replies
<1> QED
  BY <1>1, <1>2

\* A note was read: each message it names had its only copy there, and the daemon
\* knows those that are in its queue.
LEMMA NoteRead ==
  ASSUME TypeOK, TurnInv, OnceInv, NEW k \in Notes, Receive(k)
  PROVE  /\ Head(fromAgent) = fromAgent[1] /\ Head(fromAgent).items \subseteq Msgs /\ Head(fromAgent).kind = k
         /\ Head(fromAgent).items \cap queue = Matched
         /\ \A x \in Head(fromAgent).items : 1 \in Noting(x) /\ AtAgent(x)
         /\ \A x \in Msgs : /\ Asking(x)' = Asking(x)
                            /\ (AtAgent(x)' => AtAgent(x) /\ x \notin Head(fromAgent).items)
                            /\ (Noting(x)' # {} => x \notin Head(fromAgent).items)
         /\ (PipesInv' <=> \A i \in 1..Len(toAgent) : toAgent[i].kind \in Turns => toAgent[i].items = turn')
         /\ CopyInv'
<1> USE DEF Receive, userVars, agentVars
<1>0. /\ Len(fromAgent) \in Nat /\ Len(fromAgent) >= 1 /\ Len(fromAgent') = Len(fromAgent) - 1
      /\ fromAgent[1].kind = k /\ fromAgent[1] \in FromAgent /\ Head(fromAgent) = fromAgent[1]
      /\ \A i \in 1..Len(fromAgent') : fromAgent'[i] = fromAgent[i + 1]
  BY ReceiveLines
<1>1. Head(fromAgent).items \subseteq Msgs
  BY <1>0 DEF FromAgent
<1>2. \A x \in Head(fromAgent).items : 1 \in Noting(x) /\ AtAgent(x)
  BY <1>0, <1>1 DEF Noting, AtAgent
<1>3. Head(fromAgent).items \cap queue = Matched
  BY <1>1, <1>2 DEF Matched, OnceInv, EntryInv
<1>4. \A x \in Msgs : Asking(x)' = Asking(x)
  BY DEF Asking
<1>5. \A x \in Msgs : \A i \in Noting(x)' : i \in Nat /\ i >= 1 /\ i + 1 \in Noting(x)
  BY NotingShifts
<1>6. \A x \in Msgs : Noting(x)' # {} => x \notin Head(fromAgent).items
  <2> SUFFICES ASSUME NEW x \in Msgs, NEW i \in Noting(x)' PROVE x \notin Head(fromAgent).items
    OBVIOUS
  <2> QED
    BY <1>2, <1>5 DEF OnceInv, CopyInv
<1>7. agentQueue' = agentQueue
  OBVIOUS
<1>8. \A x \in Msgs : (AtAgent(x)' => AtAgent(x) /\ x \notin Head(fromAgent).items)
  <2> SUFFICES ASSUME NEW x \in Msgs, AtAgent(x)' PROVE AtAgent(x) /\ x \notin Head(fromAgent).items
    OBVIOUS
  <2>1. CASE Noting(x)' # {}
    BY <1>5, <1>6, <2>1 DEF AtAgent
  <2>2. CASE Asking(x) # {} \/ x \in agentQueue
    BY <1>2, <2>2 DEF AtAgent, OnceInv, CopyInv
  <2> QED
    BY <1>4, <1>7, <2>1, <2>2 DEF AtAgent
<1>9. CopyInv'
  <2> SUFFICES ASSUME NEW x \in Msgs PROVE
        /\ \A i, j \in Noting(x)' : i = j
        /\ (Noting(x)' # {} => Noting(x) # {})
    BY <1>4, <1>7 DEF OnceInv, CopyInv
  <2> QED
    BY <1>5 DEF OnceInv, CopyInv
<1>10. PipesInv' <=> \A i \in 1..Len(toAgent) : toAgent[i].kind \in Turns => toAgent[i].items = turn'
  <2>1. \A i \in 1..Len(fromAgent') : fromAgent'[i].kind \in {"drained", "cancelled"} =>
         agentTurn # "none" \/ \E j \in 1..Len(fromAgent') : j > i /\ fromAgent'[j].kind \in Replies
    <3> SUFFICES ASSUME NEW i \in 1..Len(fromAgent'), fromAgent'[i].kind \in {"drained", "cancelled"},
                        agentTurn = "none"
                 PROVE  \E j \in 1..Len(fromAgent') : j > i /\ fromAgent'[j].kind \in Replies
      OBVIOUS
    <3>1. PICK j \in 1..Len(fromAgent) : j > i + 1 /\ fromAgent[j].kind \in Replies
      BY <1>0 DEF OnceInv, PipesInv
    <3> QED
      BY <1>0, <3>1, j - 1 \in 1..Len(fromAgent')
  <2>2. \A i, j \in 1..Len(fromAgent') :
         i < j /\ fromAgent'[i].kind \in Replies => fromAgent'[j].kind = "leftover"
    BY <1>0 DEF OnceInv, PipesInv
  <2> QED
    BY <1>7, <2>1, <2>2 DEF OnceInv, PipesInv
<1> QED
  BY <1>0, <1>1, <1>2, <1>3, <1>4, <1>6, <1>8, <1>9, <1>10

LEMMA OnceNoted ==
  ASSUME TypeOK, TurnInv, OnceInv, Drained \/ HandedBack
  PROVE  OnceInv'
<1> DEFINE items == Head(fromAgent).items
<1>0. PICK k \in {"drained", "cancelled"} : Receive(k)
  BY DEF Drained, HandedBack
<1>1. /\ queue' = queue \ Matched /\ sent' \in {sent, sent \ (items \ Matched)}
      /\ UNCHANGED <<turn, forwarded, queueAck, cancelAck, used, toAgent, agentTurn, agentQueue, heard>>
  BY DEF Drained, HandedBack, Receive, loopVars, entryVars, userVars, agentVars
<1>2. /\ Head(fromAgent).items \cap queue = Matched
      /\ \A x \in Msgs : /\ Asking(x)' = Asking(x)
                          /\ (AtAgent(x)' => AtAgent(x) /\ x \notin Head(fromAgent).items)
                          /\ (Noting(x)' # {} => x \notin Head(fromAgent).items)
      /\ PipesInv' /\ CopyInv'
  BY <1>0, <1>1, NoteRead DEF OnceInv, PipesInv, Notes
<1>3. /\ Len(fromAgent) \in Nat /\ Len(fromAgent) >= 1 /\ Len(fromAgent') = Len(fromAgent) - 1
      /\ fromAgent[1].kind \in {"drained", "cancelled"} /\ Head(fromAgent) = fromAgent[1]
      /\ \A i \in 1..Len(fromAgent') : fromAgent'[i] = fromAgent[i + 1]
  BY <1>0, ReceiveLines
<1>4. EntryInv'
  <2>1. \A x \in Msgs : AtAgent(x)' => AtAgent(x)
    BY <1>2
  <2> QED
    BY <1>1, <2>1 DEF OnceInv, EntryInv
<1>5. TooLate' /\ QueuedUnread' /\ NeverReadTwice'
  <2>1. \A x \in Msgs : Asking(x)' = Asking(x)
    BY <1>2
  <2>2. TooLate'
    BY <1>1, <2>1 DEF OnceInv, HeardInv, TooLate, TypeOK
  <2> QED
    BY <1>1, <2>1, <2>2 DEF OnceInv, HeardInv, QueuedUnread, NeverReadTwice
<1>6. HandedBackUnread'
  <2> SUFFICES ASSUME NEW x \in Msgs, NEW i \in Noting(x)', fromAgent'[i].kind = "leftover"
               PROVE  /\ x \in turn \/ heard[x] # 0 => x \in sent'
                      /\ (\E j \in 1..Len(fromAgent') : j < i /\ fromAgent'[j].kind \in Replies) =>
                           x \notin turn /\ heard[x] = 0
    BY <1>1 DEF HandedBackUnread
  <2>1. i + 1 \in Noting(x) /\ i \in Nat /\ fromAgent[i + 1].kind = "leftover"
    BY <1>0, NotingShifts
  <2>2. x \in sent => x \in sent'
    <3>1. x \notin Head(fromAgent).items
      BY <1>2
    <3> QED
      BY <1>1, <3>1
  <2>3. ASSUME NEW j \in 1..Len(fromAgent'), j < i, fromAgent'[j].kind \in Replies
        PROVE  x \notin turn /\ heard[x] = 0
    BY <1>3, <2>1, <2>3, j + 1 \in 1..Len(fromAgent), j + 1 < i + 1 DEF OnceInv, HeardInv, HandedBackUnread
  <2> QED
    BY <2>1, <2>2, <2>3 DEF OnceInv, HeardInv, HandedBackUnread
<1>7. ReadReported'
  <2> SUFFICES ASSUME NEW x \in queue', heard[x] # 0
               PROVE  \E i \in Noting(x)' : fromAgent'[i].kind = "drained"
    BY <1>1 DEF ReadReported
  <2>1. PICK i \in Noting(x) : fromAgent[i].kind = "drained"
    BY <1>1 DEF OnceInv, HeardInv, ReadReported
  <2>2. i # 1
    BY <1>1, <1>2, <1>3 DEF Noting
  <2> QED
    BY <1>0, <2>1, <2>2, NotingShifts
<1>8. TurnUnread'
  <2>1. ASSUME \A i \in 1..Len(fromAgent') : fromAgent'[i].kind \notin Replies, NEW i \in 1..Len(fromAgent)
        PROVE  fromAgent[i].kind \notin Replies
    <3>1. CASE i = 1
      BY <1>3, <3>1 DEF Replies
    <3>2. CASE i # 1
      <4>1. i - 1 \in 1..Len(fromAgent') /\ (i - 1) + 1 = i
        BY <1>3, <3>2
      <4> QED
        BY <1>3, <2>1, <4>1
    <3> QED
      BY <3>1, <3>2
  <2> QED
    BY <1>1, <2>1 DEF OnceInv, HeardInv, TurnUnread
<1> QED
  BY <1>2, <1>4, <1>5, <1>6, <1>7, <1>8 DEF OnceInv, HeardInv

\* What is handed back and was never sent as a turn is adopted, unread.
LEMMA OnceLeftOver ==
  ASSUME TypeOK, TurnInv, OnceInv, LeftOver
  PROVE  OnceInv'
<1> DEFINE items == Head(fromAgent).items
           foreign == items \ (Matched \cup sent)
<1>0. Receive("leftover")
  BY DEF LeftOver
<1>1. /\ forwarded' = forwarded \ (Matched \cup foreign) /\ sent' = sent \ (items \ Matched)
      /\ queueAck' = [m \in Msgs |-> IF m \in foreign THEN "none" ELSE queueAck[m]]
      /\ queue' \subseteq queue \cup foreign
      /\ UNCHANGED <<cancelAck, used, toAgent, agentTurn, agentQueue, heard>>
  BY DEF LeftOver, Receive, userVars, agentVars
<1>2. \/ turn' = turn
      \/ ~working /\ \E m \in foreign : turn' = {m} /\ queue' \subseteq queue \cup (foreign \ {m})
  BY DEF LeftOver, loopVars
<1>3. /\ items \cap queue = Matched /\ items \subseteq Msgs
      /\ PipesInv' <=> (\A i \in 1..Len(toAgent) : toAgent[i].kind \in Turns => toAgent[i].items = turn')
      /\ CopyInv'
  BY <1>0, NoteRead DEF Notes
<1>4. \A x \in items : 1 \in Noting(x) /\ AtAgent(x)
  BY <1>0, NoteRead DEF Notes
<1>5. \A x \in Msgs : Asking(x)' = Asking(x)
  BY <1>0, NoteRead DEF Notes
<1>6. \A x \in Msgs : AtAgent(x)' => AtAgent(x) /\ x \notin items
  BY <1>0, NoteRead DEF Notes
<1>7. \A x \in Msgs : Noting(x)' # {} => x \notin items
  BY <1>0, NoteRead DEF Notes
<1>8. /\ Len(fromAgent) \in Nat /\ Len(fromAgent) >= 1 /\ Len(fromAgent') = Len(fromAgent) - 1
      /\ fromAgent[1].kind = "leftover" /\ Head(fromAgent) = fromAgent[1]
      /\ \A i \in 1..Len(fromAgent') : fromAgent'[i] = fromAgent[i + 1]
  BY <1>0, ReceiveLines
<1>9. \A x \in foreign : x \in Msgs /\ x \notin queue /\ x \notin turn /\ heard[x] = 0
                         /\ Asking(x) = {} /\ x \notin agentQueue
  <2> SUFFICES ASSUME NEW x \in foreign
               PROVE  x \in Msgs /\ x \notin queue /\ x \notin turn /\ heard[x] = 0
                      /\ Asking(x) = {} /\ x \notin agentQueue
    OBVIOUS
  <2>1. x \in Msgs /\ x \notin queue /\ x \notin sent /\ 1 \in Noting(x)
    BY <1>3, <1>4
  <2> QED
    BY <1>8, <2>1 DEF OnceInv, CopyInv, HeardInv, HandedBackUnread
<1>10. ~working => /\ agentTurn = "none" /\ \A i \in 1..Len(toAgent) : toAgent[i].kind \notin Turns
  BY TurnFacts DEF TurnInv
<1> HIDE DEF foreign
<1>11. PipesInv'
  BY <1>2, <1>3, <1>10 DEF OnceInv, PipesInv
<1>12. EntryInv'
  <2>1. ASSUME NEW x \in Msgs \ used'
        PROVE  /\ ~AtAgent(x)' /\ x \notin queue' \cup turn' /\ heard'[x] = 0
               /\ queueAck'[x] # "refused" /\ cancelAck'[x] # "yes"
    <3>1. ~AtAgent(x) /\ x \in Msgs \ used
      BY <1>1 DEF OnceInv, EntryInv
    <3>2. x \notin items /\ x \notin foreign
      BY <1>4, <3>1 DEF foreign
    <3> QED
      BY <1>1, <1>2, <1>6, <3>1, <3>2 DEF OnceInv, EntryInv
  <2>2. ASSUME NEW x \in Msgs, AtAgent(x)'
        PROVE  /\ x \in queue' => x \in forwarded'
               /\ queueAck'[x] # "refused" /\ cancelAck'[x] # "yes"
    <3>1. AtAgent(x) /\ x \notin items /\ x \notin foreign /\ x \notin Matched
      BY <1>3, <1>6, <2>2 DEF foreign
    <3> QED
      BY <1>1, <3>1 DEF OnceInv, EntryInv
  <2>3. queue' \cap turn' = {}
    <3>1. CASE turn' = turn
      BY <1>1, <1>9, <3>1 DEF OnceInv, EntryInv
    <3>2. CASE turn' # turn
      BY <1>2, <1>9, <3>2 DEF OnceInv, EntryInv
    <3> QED
      BY <3>1, <3>2
  <2> QED
    BY <2>1, <2>2, <2>3 DEF EntryInv
<1>13. TooLate'
  <2> SUFFICES ASSUME NEW x \in turn', NEW i \in Asking(x)'
               PROVE  agentTurn' = "none" /\ \A j \in 1..Len(toAgent') : toAgent'[j].kind \in Turns => i < j
    BY DEF TooLate
  <2>1. x \in turn /\ x \in Msgs /\ i \in Asking(x)
    BY <1>2, <1>5, <1>9 DEF TypeOK
  <2> QED
    BY <1>1, <2>1 DEF OnceInv, HeardInv, TooLate
<1>14. QueuedUnread' /\ NeverReadTwice'
  BY <1>1, <1>2, <1>5, <1>9 DEF OnceInv, HeardInv, QueuedUnread, NeverReadTwice
<1>15. HandedBackUnread'
  <2> SUFFICES ASSUME NEW x \in Msgs, NEW i \in Noting(x)', fromAgent'[i].kind = "leftover"
               PROVE  /\ x \in turn' \/ heard'[x] # 0 => x \in sent'
                      /\ (\E j \in 1..Len(fromAgent') : j < i /\ fromAgent'[j].kind \in Replies) =>
                           x \notin turn' /\ heard'[x] = 0
    BY DEF HandedBackUnread
  <2>1. i + 1 \in Noting(x) /\ i \in Nat /\ fromAgent[i + 1].kind = "leftover"
    BY <1>0, NotingShifts
  <2>2. x \notin items /\ x \notin foreign
    BY <1>7 DEF foreign
  <2>3. (x \in turn' => x \in turn) /\ heard'[x] = heard[x] /\ (x \in sent => x \in sent')
    BY <1>1, <1>2, <2>2
  <2>4. ASSUME NEW j \in 1..Len(fromAgent'), j < i, fromAgent'[j].kind \in Replies
        PROVE  x \notin turn /\ heard[x] = 0
    BY <1>8, <2>1, <2>4, j + 1 \in 1..Len(fromAgent), j + 1 < i + 1 DEF OnceInv, HeardInv, HandedBackUnread
  <2> QED
    BY <2>1, <2>3, <2>4 DEF OnceInv, HeardInv, HandedBackUnread
<1>16. ReadReported'
  <2> SUFFICES ASSUME NEW x \in queue', heard'[x] # 0
               PROVE  \E i \in Noting(x)' : fromAgent'[i].kind = "drained"
    BY DEF ReadReported
  <2>1. x \in queue /\ heard[x] # 0
    BY <1>1, <1>9
  <2>2. PICK i \in Noting(x) : fromAgent[i].kind = "drained"
    BY <2>1 DEF OnceInv, HeardInv, ReadReported
  <2>3. i # 1
    BY <1>8, <2>2
  <2> QED
    BY <1>0, <2>2, <2>3, NotingShifts
<1>17. TurnUnread'
  <2> SUFFICES ASSUME agentTurn = "none", \A i \in 1..Len(fromAgent') : fromAgent'[i].kind \notin Replies,
                      NEW x \in turn'
               PROVE  heard[x] = 0
    BY <1>1 DEF TurnUnread
  <2>1. ASSUME NEW i \in 1..Len(fromAgent)
        PROVE  fromAgent[i].kind \notin Replies
    <3>1. CASE i = 1
      BY <1>8, <3>1 DEF Replies
    <3>2. CASE i # 1
      <4>1. i - 1 \in 1..Len(fromAgent') /\ (i - 1) + 1 = i
        BY <1>8, <3>2
      <4> QED
        BY <1>8, <4>1
    <3> QED
      BY <3>1, <3>2
  <2>2. \A y \in turn : heard[y] = 0
    BY <2>1 DEF OnceInv, HeardInv, TurnUnread
  <2> QED
    BY <1>2, <1>9, <2>2
<1> QED
  BY <1>3, <1>11, <1>12, <1>13, <1>14, <1>15, <1>16, <1>17 DEF OnceInv, HeardInv

LEMMA OnceStarted ==
  ASSUME TypeOK, TurnInv, OnceInv, AgentStarts
  PROVE  OnceInv'
<1>0. PICK k \in {"prompt", "control"} : AgentReads(k) /\ agentTurn' = k
  BY DEF AgentStarts
<1>1. /\ agentQueue' = {} /\ heard' = Count(heard, Head(toAgent).items)
      /\ UNCHANGED <<turn, queue, forwarded, sent, queueAck, cancelAck, used, fromAgent>>
  BY <1>0 DEF AgentStarts, AgentReads, loopVars, entryVars, userVars
<1>2. /\ Len(toAgent) \in Nat /\ Len(toAgent) >= 1 /\ Len(toAgent') = Len(toAgent) - 1
      /\ Head(toAgent) = toAgent[1] /\ toAgent[1].kind \in Turns
      /\ \A i \in 1..Len(toAgent') : toAgent'[i] = toAgent[i + 1]
  BY <1>0, ReadLines DEF Turns
<1>3. /\ agentTurn = "none" /\ agentQueue = {}
      /\ \A j \in 1..Len(fromAgent) : fromAgent[j].kind \notin Replies
  BY <1>2, TurnFacts DEF OnceInv, PipesInv
<1>4. \A i \in 1..Len(toAgent') : toAgent'[i].kind \notin Turns
  BY <1>2, TurnFacts
<1>5. heard' = Count(heard, turn)
  BY <1>1, <1>2 DEF OnceInv, PipesInv
<1>6. \A x \in Msgs : Noting(x)' = Noting(x)
  BY <1>1 DEF Noting
<1>7. \A x \in Msgs : \A i \in Asking(x)' : i \in Nat /\ i >= 1 /\ i + 1 \in Asking(x)
  BY <1>0, AskingShifts
<1>8. \A x \in turn : Asking(x) = {}
  <2> SUFFICES ASSUME NEW x \in turn, NEW i \in Asking(x) PROVE FALSE
    OBVIOUS
  <2>1. i \in Nat /\ i >= 1 /\ i < 1
    BY <1>2 DEF Asking, OnceInv, HeardInv, TooLate
  <2> QED
    BY <2>1
<1>9. \A x \in Msgs : AtAgent(x)' => AtAgent(x)
  BY <1>1, <1>6, <1>7 DEF AtAgent
<1>10. PipesInv'
  <2>1. \A i \in 1..Len(toAgent') : toAgent'[i].kind \in {"queue", "unqueue"} => \E m \in Msgs : toAgent'[i].items = {m}
    BY <1>2 DEF OnceInv, PipesInv
  <2> QED
    BY <1>0, <1>1, <1>4, <2>1 DEF OnceInv, PipesInv
<1>11. CopyInv'
  BY <1>1, <1>6, <1>7 DEF OnceInv, CopyInv
<1>12. EntryInv'
  <2>1. \A x \in Msgs \ used : heard'[x] = 0
    BY <1>5 DEF OnceInv, EntryInv, Count
  <2> QED
    BY <1>1, <1>9, <2>1 DEF OnceInv, EntryInv
<1>13. TooLate'
  BY <1>1, <1>7, <1>8 DEF TooLate, TypeOK
<1>14. QueuedUnread'
  BY <1>1, <1>5, <1>7, <1>8 DEF OnceInv, HeardInv, QueuedUnread, Count
<1>15. HandedBackUnread'
  <2> SUFFICES ASSUME NEW x \in Msgs, NEW i \in Noting(x), fromAgent[i].kind = "leftover",
                      x \in turn \/ heard'[x] # 0
               PROVE  x \in sent
    BY <1>1, <1>3, <1>6 DEF HandedBackUnread
  <2>1. x \in turn \/ heard[x] # 0
    BY <1>5 DEF Count
  <2> QED
    BY <2>1 DEF OnceInv, HeardInv, HandedBackUnread
<1>16. ReadReported'
  <2> SUFFICES ASSUME NEW x \in queue, heard'[x] # 0
               PROVE  \E i \in Noting(x) : fromAgent[i].kind = "drained"
    BY <1>1, <1>6 DEF ReadReported, TypeOK
  <2>1. heard[x] # 0
    BY <1>5 DEF OnceInv, EntryInv, Count, TypeOK
  <2> QED
    BY <2>1 DEF OnceInv, HeardInv, ReadReported
<1>17. TurnUnread'
  BY <1>0 DEF TurnUnread
<1>18. NeverReadTwice'
  <2> SUFFICES ASSUME NEW x \in Msgs PROVE heard'[x] <= 1
    BY DEF NeverReadTwice
  <2>1. CASE x \in turn
    BY <1>3, <1>5, <2>1 DEF OnceInv, HeardInv, TurnUnread, Count
  <2>2. CASE x \notin turn
    BY <1>5, <2>2 DEF OnceInv, HeardInv, NeverReadTwice, Count
  <2> QED
    BY <2>1, <2>2
<1> QED
  BY <1>10, <1>11, <1>12, <1>13, <1>14, <1>15, <1>16, <1>17, <1>18 DEF OnceInv, HeardInv

\* Reading a line of the pipe that is no turn moves the others up.
LEMMA LinesMoveUp ==
  ASSUME TypeOK, TurnInv, OnceInv, NEW k, AgentReads(k), k \notin Turns,
         UNCHANGED <<agentTurn, turn, fromAgent>>, agentQueue' # {} => agentTurn = "prompt"
  PROVE  PipesInv' /\ TooLate'
<1>0. /\ Len(toAgent) \in Nat /\ Len(toAgent) >= 1 /\ Len(toAgent') = Len(toAgent) - 1
      /\ \A i \in 1..Len(toAgent') : toAgent'[i] = toAgent[i + 1]
  BY ReadLines
<1>1. PipesInv'
  BY <1>0 DEF OnceInv, PipesInv
<1>2. TooLate'
  <2> SUFFICES ASSUME NEW x \in turn, NEW i \in Asking(x)'
               PROVE  agentTurn = "none" /\ \A j \in 1..Len(toAgent') : toAgent'[j].kind \in Turns => i < j
    BY DEF TooLate
  <2>1. i \in Nat /\ i + 1 \in Asking(x)
    BY AskingShifts
  <2>2. ASSUME NEW j \in 1..Len(toAgent'), toAgent'[j].kind \in Turns
        PROVE  i < j
    <3>1. j + 1 \in 1..Len(toAgent) /\ toAgent[j + 1].kind \in Turns
      BY <1>0, <2>2
    <3>2. i + 1 < j + 1
      BY <2>1, <3>1 DEF OnceInv, HeardInv, TooLate
    <3> QED
      BY <2>1, <3>2
  <2> QED
    BY <2>1, <2>2 DEF OnceInv, HeardInv, TooLate
<1> QED
  BY <1>1, <1>2

LEMMA OnceQueued ==
  ASSUME TypeOK, TurnInv, OnceInv, AgentQueues
  PROVE  OnceInv'
<1>0. AgentReads("queue")
  BY DEF AgentQueues
<1>1. /\ Len(toAgent) \in Nat /\ Len(toAgent) >= 1 /\ Head(toAgent) = toAgent[1] /\ toAgent[1].kind = "queue"
  BY <1>0, ReadLines
<1>2. PICK m \in Msgs : toAgent[1].items = {m}
  BY <1>1 DEF OnceInv, PipesInv
<1>3. /\ agentQueue' = (IF agentTurn = "prompt" THEN agentQueue \cup {m} ELSE agentQueue)
      /\ queueAck' = [queueAck EXCEPT ![m] = IF agentTurn = "prompt" THEN "ok" ELSE "refused"]
      /\ UNCHANGED <<turn, queue, forwarded, sent, cancelAck, used, fromAgent, agentTurn, heard>>
  BY <1>0, <1>1, <1>2 DEF AgentQueues, AgentReads, loopVars, entryVars, userVars
<1>4. 1 \in Asking(m)
  BY <1>1, <1>2 DEF Asking
<1>5. /\ m \notin agentQueue /\ Noting(m) = {} /\ heard[m] = 0 /\ m \in used
      /\ agentTurn = "prompt" => m \notin turn
  BY <1>4 DEF OnceInv, CopyInv, HeardInv, QueuedUnread, TooLate, EntryInv, AtAgent
<1>6. \A x \in Msgs : \A i \in Asking(x)' : i \in Nat /\ i >= 1 /\ i + 1 \in Asking(x)
  BY <1>0, AskingShifts
<1>7. Asking(m)' = {}
  BY <1>4, <1>6 DEF OnceInv, CopyInv
<1>8. \A x \in Msgs : Noting(x)' = Noting(x)
  BY <1>3 DEF Noting
<1>9. \A x \in Msgs : AtAgent(x)' => AtAgent(x) /\ (x = m => agentTurn = "prompt")
  <2> SUFFICES ASSUME NEW x \in Msgs, AtAgent(x)'
               PROVE  AtAgent(x) /\ (x = m => agentTurn = "prompt")
    OBVIOUS
  <2>1. AtAgent(x)
    BY <1>3, <1>4, <1>6, <1>8 DEF AtAgent
  <2>2. x = m => agentTurn = "prompt"
    BY <1>3, <1>5, <1>7, <1>8 DEF AtAgent
  <2> QED
    BY <2>1, <2>2
<1>10. PipesInv' /\ TooLate'
  BY <1>0, <1>3, LinesMoveUp DEF Turns, OnceInv, PipesInv
<1>11. CopyInv'
  <2> SUFFICES ASSUME NEW x \in Msgs
               PROVE  /\ \A i, j \in Asking(x)' : i = j
                      /\ Asking(x)' # {} => x \notin agentQueue' /\ Noting(x) = {}
                      /\ x \in agentQueue' => Noting(x) = {}
    BY <1>8 DEF OnceInv, CopyInv
  <2> QED
    BY <1>3, <1>5, <1>6, <1>7 DEF OnceInv, CopyInv
<1>12. EntryInv'
  <2>1. \A x \in Msgs : queueAck'[x] = "refused" => queueAck[x] = "refused" \/ (x = m /\ agentTurn # "prompt")
    BY <1>3 DEF TypeOK
  <2> QED
    BY <1>3, <1>5, <1>9, <2>1 DEF OnceInv, EntryInv
<1>13. QueuedUnread'
  BY <1>3, <1>5, <1>6 DEF OnceInv, HeardInv, QueuedUnread
<1>14. HandedBackUnread' /\ ReadReported' /\ TurnUnread' /\ NeverReadTwice'
  BY <1>3, <1>8 DEF OnceInv, HeardInv, HandedBackUnread, ReadReported, TurnUnread, NeverReadTwice, TypeOK
<1> QED
  BY <1>10, <1>11, <1>12, <1>13, <1>14 DEF OnceInv, HeardInv

LEMMA OnceUnqueued ==
  ASSUME TypeOK, TurnInv, OnceInv, AgentUnqueues
  PROVE  OnceInv'
<1>0. AgentReads("unqueue")
  BY DEF AgentUnqueues
<1>1. /\ Len(toAgent) \in Nat /\ Len(toAgent) >= 1 /\ Head(toAgent) = toAgent[1] /\ toAgent[1].kind = "unqueue"
  BY <1>0, ReadLines
<1>2. PICK m \in Msgs : toAgent[1].items = {m}
  BY <1>1 DEF OnceInv, PipesInv
<1>3. /\ agentQueue \ {m} \subseteq agentQueue' /\ agentQueue' \subseteq agentQueue
      /\ \A x \in Msgs : cancelAck'[x] = "yes" =>
             cancelAck[x] = "yes" \/ (x = m /\ m \in agentQueue /\ m \notin agentQueue')
      /\ UNCHANGED <<turn, queue, forwarded, sent, queueAck, used, fromAgent, agentTurn, heard>>
  <2>1. UNCHANGED <<turn, queue, forwarded, sent, queueAck, used, fromAgent, agentTurn, heard>>
    BY <1>0 DEF AgentUnqueues, AgentReads, loopVars, entryVars, userVars
  <2>2. CASE /\ agentQueue' = agentQueue \ {m}
             /\ cancelAck' = [cancelAck EXCEPT ![m] = IF m \in agentQueue THEN "yes" ELSE "no"]
    BY <2>1, <2>2 DEF TypeOK
  <2>3. CASE UNCHANGED agentQueue /\ cancelAck' = [cancelAck EXCEPT ![m] = "error"]
    BY <2>1, <2>3 DEF TypeOK
  <2> QED
    BY <1>1, <1>2, <2>2, <2>3 DEF AgentUnqueues
<1>4. \A x \in Msgs : \A i \in Asking(x)' : i \in Nat /\ i >= 1 /\ i + 1 \in Asking(x)
  BY <1>0, AskingShifts
<1>5. \A x \in Msgs : Noting(x)' = Noting(x)
  BY <1>3 DEF Noting
<1>6. \A x \in Msgs : AtAgent(x)' => AtAgent(x)
  BY <1>3, <1>4, <1>5 DEF AtAgent
<1>7. m \in agentQueue \ agentQueue' => ~AtAgent(m)' /\ m \in used
  <2> SUFFICES ASSUME m \in agentQueue \ agentQueue' PROVE ~AtAgent(m)' /\ m \in used
    OBVIOUS
  <2>1. Asking(m) = {} /\ Noting(m) = {} /\ AtAgent(m)
    BY DEF OnceInv, CopyInv, AtAgent
  <2>2. m \in used
    BY <2>1 DEF OnceInv, EntryInv
  <2>3. Asking(m)' = {} /\ Noting(m)' = {} /\ m \notin agentQueue'
    BY <1>3, <1>4, <1>5, <2>1
  <2> QED
    BY <2>2, <2>3 DEF AtAgent
<1>8. PipesInv' /\ TooLate'
  BY <1>0, <1>3, LinesMoveUp DEF Turns, OnceInv, PipesInv
<1>9. CopyInv'
  <2> SUFFICES ASSUME NEW x \in Msgs
               PROVE  /\ \A i, j \in Asking(x)' : i = j
                      /\ Asking(x)' # {} => x \notin agentQueue' /\ Noting(x) = {}
                      /\ x \in agentQueue' => Noting(x) = {}
    BY <1>5 DEF OnceInv, CopyInv
  <2> QED
    BY <1>3, <1>4 DEF OnceInv, CopyInv
<1>10. EntryInv'
  BY <1>3, <1>6, <1>7 DEF OnceInv, EntryInv
<1>11. QueuedUnread'
  BY <1>3, <1>4 DEF OnceInv, HeardInv, QueuedUnread
<1>12. HandedBackUnread' /\ ReadReported' /\ TurnUnread' /\ NeverReadTwice'
  BY <1>3, <1>5 DEF OnceInv, HeardInv, HandedBackUnread, ReadReported, TurnUnread, NeverReadTwice, TypeOK
<1> QED
  BY <1>8, <1>9, <1>10, <1>11, <1>12 DEF OnceInv, HeardInv

\* The agent says, during a turn, what became of everything in its queue.
LEMMA NoteSaid ==
  ASSUME TypeOK, TurnInv, OnceInv, agentQueue # {}, NEW k \in {"drained", "cancelled"},
         Say(k, agentQueue), agentQueue' = {},
         UNCHANGED <<turn, queue, forwarded, sent, queueAck, cancelAck, used, agentTurn>>,
         \A x \in Msgs : x \notin agentQueue => heard'[x] = heard[x],
         \A x \in Msgs : x \in agentQueue /\ k = "cancelled" => heard'[x] = heard[x],
         \A x \in Msgs : Asking(x)' # {} => Asking(x) # {},
         \A x \in Msgs : \A i, j \in Asking(x)' : i = j,
         TooLate',
         \A i \in 1..Len(toAgent') :
           /\ toAgent'[i].kind \in Turns => toAgent'[i].items = turn
           /\ toAgent'[i].kind \in {"queue", "unqueue"} => \E m \in Msgs : toAgent'[i].items = {m},
         NeverReadTwice'
  PROVE  OnceInv'
<1>0. /\ Len(fromAgent) \in Nat /\ Len(fromAgent') = Len(fromAgent) + 1
      /\ \A i \in 1..Len(fromAgent) : fromAgent'[i] = fromAgent[i]
      /\ fromAgent'[Len(fromAgent) + 1].kind = k /\ fromAgent'[Len(fromAgent) + 1].items = agentQueue
      /\ \A i \in 1..Len(fromAgent') : i \in 1..Len(fromAgent) \/ i = Len(fromAgent) + 1
  BY SayLines DEF TypeOK
<1>1. agentTurn = "prompt" /\ \A j \in 1..Len(fromAgent) : fromAgent[j].kind \notin Replies
  BY TurnFacts DEF OnceInv, PipesInv
<1>2. \A x \in Msgs : Noting(x)' = IF x \in agentQueue THEN {Len(fromAgent) + 1} ELSE Noting(x)
  <2> SUFFICES ASSUME NEW x \in Msgs
               PROVE  Noting(x)' = IF x \in agentQueue THEN {Len(fromAgent) + 1} ELSE Noting(x)
    OBVIOUS
  <2>1. Noting(x)' = IF x \in agentQueue THEN Noting(x) \cup {Len(fromAgent) + 1} ELSE Noting(x)
    BY NotingGrows DEF Notes, TypeOK
  <2> QED
    BY <2>1 DEF OnceInv, CopyInv
<1>3. \A x \in Msgs : AtAgent(x)' => AtAgent(x)
  BY <1>2 DEF AtAgent
<1>4. PipesInv'
  <2>1. \A i \in 1..Len(fromAgent') : fromAgent'[i].kind \notin Replies
    BY <1>0, <1>1 DEF Replies
  <2> QED
    BY <1>1, <2>1 DEF PipesInv
<1>5. CopyInv'
  <2> SUFFICES ASSUME NEW x \in Msgs
               PROVE  /\ \A i, j \in Noting(x)' : i = j
                      /\ Asking(x)' # {} => Noting(x)' = {}
    BY DEF CopyInv
  <2>1. Asking(x)' # {} => Asking(x) # {}
    OBVIOUS
  <2> QED
    BY <1>2, <2>1 DEF OnceInv, CopyInv
<1>6. EntryInv'
  <2>1. \A x \in Msgs \ used : heard'[x] = heard[x]
    BY DEF OnceInv, EntryInv, AtAgent
  <2> QED
    BY <1>3, <2>1 DEF OnceInv, EntryInv
<1>7. QueuedUnread'
  BY DEF OnceInv, CopyInv, HeardInv, QueuedUnread
<1>8. HandedBackUnread'
  <2> SUFFICES ASSUME NEW x \in Msgs, NEW i \in Noting(x)', fromAgent'[i].kind = "leftover",
                      x \in turn \/ heard'[x] # 0
               PROVE  x \in sent
    <3>1. \A j \in 1..Len(fromAgent') : fromAgent'[j].kind \notin Replies
      BY <1>0, <1>1 DEF Replies
    <3> QED
      BY <3>1 DEF HandedBackUnread
  <2>1. x \notin agentQueue
    BY <1>0, <1>2
  <2>2. i \in Noting(x) /\ i \in 1..Len(fromAgent) /\ fromAgent[i].kind = "leftover"
    BY <1>0, <1>2, <2>1 DEF Noting
  <2> QED
    BY <2>1, <2>2 DEF OnceInv, HeardInv, HandedBackUnread
<1>9. ReadReported'
  <2> SUFFICES ASSUME NEW x \in queue, heard'[x] # 0
               PROVE  \E i \in Noting(x)' : fromAgent'[i].kind = "drained"
    BY DEF ReadReported
  <2>0. x \in Msgs
    BY DEF TypeOK
  <2>1. CASE x \notin agentQueue
    <3>1. PICK i \in Noting(x) : fromAgent[i].kind = "drained"
      BY <2>0, <2>1 DEF OnceInv, HeardInv, ReadReported
    <3> QED
      BY <1>0, <1>2, <2>0, <2>1, <3>1 DEF Noting
  <2>2. CASE x \in agentQueue
    <3>1. k = "drained"
      BY <2>0, <2>2 DEF OnceInv, HeardInv, QueuedUnread
    <3> QED
      BY <1>0, <1>2, <2>0, <2>2, <3>1
  <2> QED
    BY <2>1, <2>2
<1>10. TurnUnread'
  BY <1>1 DEF TurnUnread
<1> QED
  BY <1>4, <1>5, <1>6, <1>7, <1>8, <1>9, <1>10 DEF OnceInv, HeardInv

LEMMA OnceCancelled ==
  ASSUME TypeOK, TurnInv, OnceInv, AgentCancels
  PROVE  OnceInv'
<1>0. AgentReads("cancel")
  BY DEF AgentCancels
<1>1. /\ agentQueue' = {}
      /\ UNCHANGED <<turn, queue, forwarded, sent, queueAck, cancelAck, used, agentTurn, heard>>
  BY <1>0 DEF AgentCancels, AgentReads, loopVars, entryVars, userVars
<1>2. /\ Len(toAgent) \in Nat /\ Len(toAgent) >= 1 /\ Len(toAgent') = Len(toAgent) - 1
      /\ toAgent[1].kind = "cancel" /\ \A i \in 1..Len(toAgent') : toAgent'[i] = toAgent[i + 1]
  BY <1>0, ReadLines
<1>3. \A x \in Msgs : \A i \in Asking(x)' : i \in Nat /\ i >= 1 /\ i + 1 \in Asking(x)
  BY <1>0, AskingShifts
<1>4. \A x \in Msgs : \A i, j \in Asking(x)' : i = j
  BY <1>3 DEF OnceInv, CopyInv
<1>5. TooLate'
  <2> SUFFICES ASSUME NEW x \in turn, NEW i \in Asking(x)'
               PROVE  agentTurn = "none" /\ \A j \in 1..Len(toAgent') : toAgent'[j].kind \in Turns => i < j
    BY <1>1 DEF TooLate
  <2>1. i \in Nat /\ i + 1 \in Asking(x)
    BY <1>3 DEF TypeOK
  <2>2. ASSUME NEW j \in 1..Len(toAgent'), toAgent'[j].kind \in Turns
        PROVE  i < j
    <3>1. j + 1 \in 1..Len(toAgent) /\ toAgent[j + 1].kind \in Turns
      BY <1>2, <2>2
    <3>2. i + 1 < j + 1
      BY <2>1, <3>1 DEF OnceInv, HeardInv, TooLate
    <3> QED
      BY <2>1, <3>2
  <2> QED
    BY <2>1, <2>2 DEF OnceInv, HeardInv, TooLate
<1>6. CASE agentQueue # {}
  <2>1. Say("cancelled", agentQueue)
    BY <1>6 DEF AgentCancels
  <2>2. \A i \in 1..Len(toAgent') :
          /\ toAgent'[i].kind \in Turns => toAgent'[i].items = turn
          /\ toAgent'[i].kind \in {"queue", "unqueue"} => \E m \in Msgs : toAgent'[i].items = {m}
    BY <1>2 DEF OnceInv, PipesInv
  <2>3. NeverReadTwice'
    BY <1>1 DEF OnceInv, HeardInv, NeverReadTwice
  <2> QED
    BY <1>1, <1>3, <1>4, <1>5, <1>6, <2>1, <2>2, <2>3, NoteSaid
<1>7. CASE agentQueue = {}
  <2>1. fromAgent' = fromAgent /\ agentQueue' = agentQueue
    BY <1>1, <1>7 DEF AgentCancels
  <2>2. \A x \in Msgs : Noting(x)' = Noting(x)
    BY <2>1 DEF Noting
  <2>3. \A x \in Msgs : AtAgent(x)' => AtAgent(x)
    BY <1>3, <2>1, <2>2 DEF AtAgent
  <2>4. PipesInv'
    <3>1. \A i \in 1..Len(toAgent') :
            /\ toAgent'[i].kind \in Turns => toAgent'[i].items = turn
            /\ toAgent'[i].kind \in {"queue", "unqueue"} => \E m \in Msgs : toAgent'[i].items = {m}
      BY <1>2 DEF OnceInv, PipesInv
    <3> QED
      BY <1>1, <2>1, <3>1 DEF OnceInv, PipesInv
  <2>5. CopyInv'
    BY <1>3, <1>4, <2>1, <2>2 DEF OnceInv, CopyInv
  <2>6. EntryInv'
    BY <1>1, <2>3 DEF OnceInv, EntryInv
  <2>7. QueuedUnread' /\ HandedBackUnread' /\ ReadReported' /\ TurnUnread' /\ NeverReadTwice'
    BY <1>1, <1>3, <2>1, <2>2
       DEF OnceInv, HeardInv, QueuedUnread, HandedBackUnread, ReadReported, TurnUnread, NeverReadTwice, TypeOK
  <2> QED
    BY <1>5, <2>4, <2>5, <2>6, <2>7 DEF OnceInv, HeardInv
<1> QED
  BY <1>6, <1>7

LEMMA OnceDrained ==
  ASSUME TypeOK, TurnInv, OnceInv, AgentDrains
  PROVE  OnceInv'
<1>1. /\ agentQueue # {} /\ agentQueue' = {} /\ agentTurn = "prompt"
      /\ Say("drained", agentQueue) /\ heard' = Count(heard, agentQueue)
      /\ UNCHANGED <<turn, queue, forwarded, sent, queueAck, cancelAck, used, toAgent, agentTurn>>
  BY DEF AgentDrains, loopVars, entryVars, userVars
<1>2. \A x \in Msgs : Asking(x)' = Asking(x)
  BY <1>1 DEF Asking
<1>3. \A x \in Msgs : x \notin agentQueue => heard'[x] = heard[x]
  BY <1>1 DEF Count
<1>4. TooLate'
  BY <1>1, <1>2 DEF OnceInv, HeardInv, TooLate, TypeOK
<1>5. NeverReadTwice'
  <2> SUFFICES ASSUME NEW x \in Msgs PROVE heard'[x] <= 1
    BY DEF NeverReadTwice
  <2>1. CASE x \in agentQueue
    BY <1>1, <2>1 DEF OnceInv, HeardInv, QueuedUnread, Count
  <2>2. CASE x \notin agentQueue
    BY <1>3, <2>2 DEF OnceInv, HeardInv, NeverReadTwice
  <2> QED
    BY <2>1, <2>2
<1>6. \A i \in 1..Len(toAgent') :
        /\ toAgent'[i].kind \in Turns => toAgent'[i].items = turn
        /\ toAgent'[i].kind \in {"queue", "unqueue"} => \E m \in Msgs : toAgent'[i].items = {m}
  BY <1>1 DEF OnceInv, PipesInv
<1>7. \A x \in Msgs : \A i, j \in Asking(x)' : i = j
  BY <1>2 DEF OnceInv, CopyInv
<1>8. \A x \in Msgs : Asking(x)' # {} => Asking(x) # {}
  BY <1>2
<1> QED
  BY <1>1, <1>3, <1>4, <1>5, <1>6, <1>7, <1>8, NoteSaid

LEMMA OnceEnded ==
  ASSUME TypeOK, TurnInv, OnceInv, AgentEnds
  PROVE  OnceInv'
<1>0. PICK answer \in Replies, late \in SUBSET (Late \ used), noteFirst \in BOOLEAN :
        /\ fromAgent' = fromAgent \o LastLines(answer, agentQueue \cup late, noteFirst)
        /\ used' = used \cup late
  BY DEF AgentEnds, Replies
<1> DEFINE left == agentQueue \cup late
           n == Len(fromAgent)
<1>1. /\ agentTurn # "none" /\ agentTurn' = "none" /\ agentQueue' = {}
      /\ UNCHANGED <<turn, queue, forwarded, sent, queueAck, cancelAck, toAgent, heard>>
  BY DEF AgentEnds, loopVars, entryVars
<1>2. left \in SUBSET Msgs
  BY MessageSets DEF TypeOK
<1>3. /\ n \in Nat /\ Len(fromAgent') \in {n + 1, n + 2}
      /\ \A i \in 1..n : fromAgent'[i] = fromAgent[i]
      /\ \A i \in 1..Len(fromAgent') : i > n =>
           \/ fromAgent'[i] = [kind |-> answer, items |-> {}]
           \/ fromAgent'[i] = [kind |-> "leftover", items |-> left]
      /\ \E i \in 1..Len(fromAgent') : i > n /\ fromAgent'[i].kind = answer
      /\ \A i, j \in 1..Len(fromAgent') :
           i > n /\ j > n /\ fromAgent'[i].kind = fromAgent'[j].kind => i = j
  BY <1>0, <1>2, EndLines
<1>4. /\ \A i \in 1..Len(toAgent) : toAgent[i].kind \notin Turns
      /\ \A j \in 1..n : fromAgent[j].kind \notin Replies
  BY <1>1, TurnFacts
<1>5. \A x \in left : x \in Msgs /\ heard[x] = 0 /\ x \notin turn /\ Asking(x) = {} /\ Noting(x) = {}
                      /\ (x \in queue => x \in forwarded) /\ queueAck[x] # "refused" /\ cancelAck[x] # "yes"
  <2> SUFFICES ASSUME NEW x \in left
               PROVE  x \in Msgs /\ heard[x] = 0 /\ x \notin turn /\ Asking(x) = {} /\ Noting(x) = {}
                      /\ (x \in queue => x \in forwarded) /\ queueAck[x] # "refused" /\ cancelAck[x] # "yes"
    OBVIOUS
  <2>1. CASE x \in agentQueue
    BY <1>2, <2>1 DEF OnceInv, HeardInv, QueuedUnread, CopyInv, EntryInv, AtAgent
  <2>2. CASE x \in late
    BY <1>2, <2>2 DEF OnceInv, EntryInv, AtAgent
  <2> QED
    BY <2>1, <2>2
<1> HIDE DEF left
<1>6. \A x \in Msgs : Asking(x)' = Asking(x)
  BY <1>1 DEF Asking
<1>7. ASSUME NEW x \in Msgs, NEW i \in Noting(x)', i \notin Noting(x)
      PROVE  i > n /\ fromAgent'[i].kind = "leftover" /\ x \in left
  BY <1>3, <1>7 DEF Noting, Notes, Replies
<1>8. \A x \in Msgs : Noting(x) \subseteq Noting(x)'
  BY <1>3 DEF Noting
<1>9. \A x \in Msgs : AtAgent(x)' => AtAgent(x) \/ x \in left
  BY <1>1, <1>6, <1>7 DEF AtAgent
<1>10. PipesInv'
  <2>1. \A i \in 1..Len(fromAgent') : fromAgent'[i].kind \in {"drained", "cancelled"} =>
          \E j \in 1..Len(fromAgent') : j > i /\ fromAgent'[j].kind \in Replies
    <3> SUFFICES ASSUME NEW i \in 1..Len(fromAgent'), fromAgent'[i].kind \in {"drained", "cancelled"}
                 PROVE  \E j \in 1..Len(fromAgent') : j > i /\ fromAgent'[j].kind \in Replies
      OBVIOUS
    <3>1. i \in 1..n
      BY <1>3 DEF Replies
    <3> QED
      BY <1>3, <3>1
  <2>2. \A i, j \in 1..Len(fromAgent') :
          i < j /\ fromAgent'[i].kind \in Replies => fromAgent'[j].kind = "leftover"
    <3> SUFFICES ASSUME NEW i \in 1..Len(fromAgent'), NEW j \in 1..Len(fromAgent'),
                        i < j, fromAgent'[i].kind \in Replies
                 PROVE  fromAgent'[j].kind = "leftover"
      OBVIOUS
    <3>1. i > n /\ j > n
      BY <1>3, <1>4
    <3>2. fromAgent'[i].kind = answer
      BY <1>3, <3>1 DEF Replies
    <3> QED
      BY <1>3, <3>1, <3>2
  <2> QED
    BY <1>1, <1>4, <2>1, <2>2 DEF OnceInv, PipesInv
<1>11. CopyInv'
  <2> SUFFICES ASSUME NEW x \in Msgs
               PROVE  /\ \A i, j \in Noting(x)' : i = j
                      /\ Asking(x) # {} => Noting(x)' = {}
    BY <1>1, <1>6 DEF OnceInv, CopyInv
  <2>1. CASE x \in left
    <3>1. \A i \in Noting(x)' : i > n /\ fromAgent'[i].kind = "leftover"
      BY <1>5, <1>7, <2>1
    <3> QED
      BY <1>3, <1>5, <2>1, <3>1 DEF Noting
  <2>2. CASE x \notin left
    BY <1>7, <2>2 DEF OnceInv, CopyInv
  <2> QED
    BY <2>1, <2>2
<1>12. EntryInv'
  <2>1. ASSUME NEW x \in Msgs \ used'
        PROVE  ~AtAgent(x)' /\ x \in Msgs \ used
    <3>1. x \in Msgs \ used /\ x \notin late
      BY <1>0
    <3>2. ~AtAgent(x)
      BY <3>1 DEF OnceInv, EntryInv
    <3>3. x \notin left
      BY <3>1, <3>2 DEF left, AtAgent
    <3> QED
      BY <1>9, <3>1, <3>2, <3>3
  <2>2. ASSUME NEW x \in Msgs, AtAgent(x)'
        PROVE  /\ x \in queue => x \in forwarded
               /\ queueAck[x] # "refused" /\ cancelAck[x] # "yes"
    BY <1>5, <1>9, <2>2 DEF OnceInv, EntryInv
  <2> QED
    BY <1>1, <2>1, <2>2 DEF OnceInv, EntryInv
<1>13. TooLate'
  BY <1>1, <1>4 DEF TooLate
<1>14. QueuedUnread' /\ NeverReadTwice'
  BY <1>1, <1>6 DEF OnceInv, HeardInv, QueuedUnread, NeverReadTwice
<1>15. HandedBackUnread'
  <2> SUFFICES ASSUME NEW x \in Msgs, NEW i \in Noting(x)', fromAgent'[i].kind = "leftover"
               PROVE  /\ x \in turn \/ heard[x] # 0 => x \in sent
                      /\ (\E j \in 1..Len(fromAgent') : j < i /\ fromAgent'[j].kind \in Replies) =>
                           x \notin turn /\ heard[x] = 0
    BY <1>1 DEF HandedBackUnread
  <2>1. CASE i \notin Noting(x)
    BY <1>5, <1>7, <2>1
  <2>2. CASE i \in Noting(x)
    <3>1. i \in 1..n /\ fromAgent[i].kind = "leftover"
      BY <1>3, <2>2 DEF Noting
    <3>2. ~ \E j \in 1..Len(fromAgent') : j < i /\ fromAgent'[j].kind \in Replies
      BY <1>3, <1>4, <3>1
    <3> QED
      BY <2>2, <3>1, <3>2 DEF OnceInv, HeardInv, HandedBackUnread
  <2> QED
    BY <2>1, <2>2
<1>16. ReadReported'
  <2> SUFFICES ASSUME NEW x \in queue, heard[x] # 0
               PROVE  \E i \in Noting(x)' : fromAgent'[i].kind = "drained"
    BY <1>1 DEF ReadReported
  <2>1. x \in Msgs
    BY DEF TypeOK
  <2>2. PICK i \in Noting(x) : fromAgent[i].kind = "drained"
    BY DEF OnceInv, HeardInv, ReadReported
  <2> QED
    BY <1>3, <1>8, <2>1, <2>2 DEF Noting
<1>17. TurnUnread'
  BY <1>3 DEF TurnUnread
<1> QED
  BY <1>10, <1>11, <1>12, <1>13, <1>14, <1>15, <1>16, <1>17 DEF OnceInv, HeardInv

LEMMA OnceInit == Init => OnceInv
  BY DEF Init, OnceInv, PipesInv, CopyInv, EntryInv, HeardInv, TooLate, QueuedUnread, HandedBackUnread,
         ReadReported, TurnUnread, NeverReadTwice, Asking, Noting, AtAgent

\* Every step keeps what a single reading rests on.
LEMMA OnceStep == TypeOK /\ TurnInv /\ OnceInv /\ [Next]_vars => OnceInv'
<1> SUFFICES ASSUME TypeOK, TurnInv, OnceInv, [Next]_vars PROVE OnceInv'
  OBVIOUS
<1> USE DEF userVars, loopVars, entryVars, agentVars
<1>0. CASE UNCHANGED vars
  BY <1>0, OnceLess DEF vars
<1>1. ASSUME NEW m \in Msgs, Prompt(m) PROVE OnceInv'
  BY <1>1, OncePrompted
<1>2. ASSUME NEW m \in Msgs, Withdraw(m) PROVE OnceInv'
  <2>1. \A x \in Msgs : cancelAck'[x] = "yes" => cancelAck[x] = "yes"
    BY <1>2 DEF Withdraw, TypeOK
  <2>2. UNCHANGED toAgent \/ Tell("unqueue", {m})
    BY <1>2 DEF Withdraw
  <2> QED
    BY <1>2, <2>1, <2>2, OnceLess DEF Withdraw
<1>3. CASE PromptControl
  <2>1. turn' = {} /\ pc # "prompting"
    BY <1>3 DEF PromptControl, TurnInv
  <2> QED
    BY <1>3, <2>1, OnceLess DEF PromptControl
<1>4. CASE Stop \/ StopReachesAgent
  <2>1. UNCHANGED toAgent \/ Tell("cancel", {})
    BY <1>4 DEF Stop, StopReachesAgent
  <2> QED
    BY <1>4, <2>1, OnceLess DEF Stop, ReturnQueue, StopReachesAgent
<1>5. CASE EchoTurn \/ FirstStoreFails \/ LeaveLoop
  BY <1>5, OnceLess DEF EchoTurn, FirstStoreFails, LeaveLoop, Finally
<1>6. CASE TakenStoreFails \/ OpenFails
  BY <1>6, OnceLess DEF TakenStoreFails, OpenFails, ReturnQueue, Finally
<1>7. CASE Disk \/ SessionOpens
  BY <1>7, OnceLess DEF Disk, StoreDone, SessionOpens
<1>8. ASSUME NEW m \in Msgs, WithdrawAnswered(m) PROVE OnceInv'
  <2>1. \A x \in Msgs : cancelAck'[x] = "yes" => cancelAck[x] = "yes"
    BY <1>8 DEF WithdrawAnswered, TypeOK
  <2> QED
    BY <1>8, <2>1, OnceLess DEF WithdrawAnswered
<1>9. ASSUME NEW m \in Msgs, QueueAnswered(m) PROVE OnceInv'
  BY <1>9, OnceAnswered
<1> QED
  BY <1>0, <1>1, <1>2, <1>3, <1>4, <1>5, <1>6, <1>7, <1>8, <1>9, OnceSent, OnceTurnOver, OnceNoted,
     OnceLeftOver, OnceStarted, OnceQueued, OnceUnqueued, OnceCancelled, OnceDrained, OnceEnded
     DEF Next, User, Loop, Pipe, Answers, Inbox

LEMMA OnceInvariant == Safety => [](TypeOK /\ TurnInv /\ OnceInv)
<1>1. Init => TypeOK /\ TurnInv /\ OnceInv
  BY InitTyped, TurnInit, OnceInit
<1>2. TypeOK /\ TurnInv /\ OnceInv /\ [Next]_vars => (TypeOK /\ TurnInv /\ OnceInv)'
  BY StepTyped, TurnStep, OnceStep
<1> QED
  BY <1>1, <1>2, PTL DEF Safety

\* A message reaches the agent at most once, whichever way it travels: its own turn,
\* a steering point, or the turn it was left over to.
THEOREM ReadAtMostOnce == Safety => []NeverReadTwice
<1>1. OnceInv => NeverReadTwice
  BY DEF OnceInv, HeardInv
<1> QED
  BY <1>1, OnceInvariant, PTL

\* A withdrawal the agent has answered, or of a message the agent was not given or has
\* handed back, leaves no copy of the message with the agent, read or unread, even if
\* the request for it failed.
THEOREM WithdrawnIsGone == Safety => WithdrawalIsHonest
<1> DEFINE Honest == \A m \in withdrawn' \ withdrawn :
                        cancelAck[m] \in {"yes", "no"} \/ m \notin forwarded =>
                            m \notin agentQueue' /\ heard'[m] = 0
<1>1. ASSUME TypeOK, OnceInv, [Next]_vars PROVE Honest
  <2> SUFFICES ASSUME NEW m \in withdrawn' \ withdrawn,
                      cancelAck[m] \in {"yes", "no"} \/ m \notin forwarded
               PROVE  m \notin agentQueue' /\ heard'[m] = 0
    OBVIOUS
  <2>1. /\ m \in Msgs /\ m \in queue /\ UNCHANGED <<agentQueue, heard>>
        /\ cancelAck[m] = "yes" \/ m \notin forwarded
    <3> USE DEF userVars, loopVars, entryVars, agentVars, fateVars
    <3>1. CASE UNCHANGED vars
      BY <3>1 DEF vars
    <3>2. ASSUME NEW x \in Msgs, Prompt(x) PROVE FALSE
      BY <3>2 DEF Prompt
    <3>3. ASSUME NEW x \in Msgs, Withdraw(x)
          PROVE  x = m /\ m \in queue /\ m \notin forwarded /\ UNCHANGED <<agentQueue, heard>>
      BY <3>3 DEF Withdraw
    <3>4. ASSUME NEW x \in Msgs, WithdrawAnswered(x)
          PROVE  /\ x = m /\ m \in queue /\ UNCHANGED <<agentQueue, heard>>
                 /\ cancelAck[m] = "yes" \/ m \notin forwarded
      BY <3>4 DEF WithdrawAnswered
    <3>5. ASSUME NEW x \in Msgs, QueueAnswered(x) PROVE FALSE
      BY <3>5 DEF QueueAnswered
    <3>6. ~PromptControl /\ ~Stop /\ ~StopReachesAgent
      BY DEF PromptControl, Stop, StopReachesAgent
    <3>7. ~Loop
      BY DEF Loop, EchoTurn, FirstStoreFails, TakenStoreFails, SendTurn, OpenFails, LeaveLoop
    <3>8. ~Pipe
      BY DEF Pipe, TurnAnswered, TurnFailed, Drained, HandedBack, LeftOver, Receive
    <3>9. ~Inbox
      BY DEF Inbox, AgentStarts, AgentQueues, AgentUnqueues, AgentCancels, AgentReads
    <3>10. ~Disk /\ ~SessionOpens /\ ~AgentDrains /\ ~AgentEnds
      BY DEF Disk, StoreDone, SessionOpens, AgentDrains, AgentEnds
    <3> QED
      BY <1>1, <3>1, <3>2, <3>3, <3>4, <3>5, <3>6, <3>7, <3>8, <3>9, <3>10 DEF Next, User, Answers
  <2>2. ~AtAgent(m)
    BY <1>1, <2>1 DEF OnceInv, EntryInv
  <2>3. m \notin agentQueue /\ Noting(m) = {}
    BY <2>2 DEF AtAgent
  <2>4. heard[m] = 0
    BY <1>1, <2>1, <2>3 DEF OnceInv, HeardInv, ReadReported
  <2> QED
    BY <2>1, <2>3, <2>4
<1>2. TypeOK /\ OnceInv /\ [Next]_vars => [Honest]_vars
  BY <1>1
<1> QED
  BY <1>2, OnceInvariant, PTL DEF Safety, WithdrawalIsHonest

-----------------------------------------------------------------------------
(***************************************************************************)
(* Nothing accepted is lost.  A turn sent to the agent has been echoed, so *)
(* letting go of it loses nothing; a hand-back that was sent as a turn is  *)
(* old news because that turn is run, settled or lost already; and what is *)
(* nowhere in the daemon is in a hand-back still to be read.               *)
(***************************************************************************)
Held == queue \cup turn \cup Settled \cup dropped
OnItsWayBack(m) ==
    \E i \in 1..Len(fromAgent) : fromAgent[i].kind = "leftover" /\ m \in fromAgent[i].items

KeepInv ==
    /\ \A m \in used \ Held : m \notin sent /\ OnItsWayBack(m)
    /\ sent \subseteq (turn \cup Settled \cup dropped) \cap used
    /\ pc \in {"opening", "prompting"} => turn \subseteq Logged
    /\ pc \in {"idle", "leaving"} => turn = {}

\* What is settled stays settled, and an echo settles what it echoes.
LEMMA EchoSettles ==
  ASSUME TypeOK, NEW S \in SUBSET Msgs, LogUserMessages(S)
  PROVE  Logged' = Logged \cup S
<1>1. \A m \in Msgs : logged[m] \in Nat /\ logged'[m] = IF m \in S THEN logged[m] + 1 ELSE logged[m]
  BY DEF LogUserMessages, Count, TypeOK
<1>2. \A m \in Msgs : logged'[m] > 0 <=> logged[m] > 0 \/ m \in S
  BY <1>1
<1> QED
  BY <1>2 DEF Logged

\* A step that adds nothing to what was sent, takes in only what it holds, and lets
\* go of no message it held.
LEMMA KeepHeld ==
  ASSUME KeepInv, Held \subseteq Held', turn \cup Settled \cup dropped \subseteq turn' \cup Settled' \cup dropped',
         used' \subseteq used \cup Held', used \subseteq used', sent' = sent,
         \A i \in 1..Len(fromAgent) : i \in 1..Len(fromAgent') /\ fromAgent'[i] = fromAgent[i],
         pc' \in {"opening", "prompting"} => turn' \subseteq Logged',
         pc' \in {"idle", "leaving"} => turn' = {}
  PROVE  KeepInv'
<1>1. \A m \in used' \ Held' : m \notin sent' /\ OnItsWayBack(m)'
  BY DEF KeepInv, OnItsWayBack
<1> QED
  BY <1>1 DEF KeepInv

\* The steps of the users, the loop and the disk.
LEMMA KeepAtHome ==
  ASSUME TypeOK, TurnInv, KeepInv,
         \/ User \/ Loop \/ Disk \/ SessionOpens \/ StopReachesAgent
         \/ \E m \in Msgs : QueueAnswered(m) \/ WithdrawAnswered(m)
  PROVE  KeepInv'
<1> USE DEF userVars, loopVars, entryVars, agentVars, fateVars, Held
<1>1. UNCHANGED <<sent, fromAgent>>
  BY DEF User, Prompt, Withdraw, PromptControl, Stop, Loop, EchoTurn, FirstStoreFails, TakenStoreFails,
         SendTurn, OpenFails, LeaveLoop, Disk, StoreDone, SessionOpens, StopReachesAgent, QueueAnswered,
         WithdrawAnswered
<1>2. ASSUME NEW m \in Msgs, Prompt(m) PROVE KeepInv'
  <2>1. used' = used \cup {m} /\ UNCHANGED fateVars
    BY <1>2 DEF Prompt
  <2>2. CASE working
    <3>1. queue' = queue \cup {m} /\ UNCHANGED <<turn, pc>>
      BY <1>2, <2>2 DEF Prompt, Enqueue
    <3> QED
      BY <1>1, <2>1, <3>1, KeepHeld DEF KeepInv, Settled, Logged
  <2>3. CASE ~working
    <3>1. queue' = queue /\ turn' = {m} /\ turn = {} /\ pc' = "storing"
      BY <1>2, <2>3 DEF Prompt, StartTurn, TurnInv, KeepInv
    <3> QED
      BY <1>1, <2>1, <3>1, KeepHeld DEF Settled, Logged
  <2> QED
    BY <2>2, <2>3
<1>3. ASSUME NEW m \in Msgs, Withdraw(m) \/ WithdrawAnswered(m) PROVE KeepInv'
  <2>1. /\ UNCHANGED <<pc, turn, used, logged, returned, rejected, dropped>>
        /\ \/ UNCHANGED <<queue, withdrawn>>
           \/ queue' = queue \ {m} /\ withdrawn' = withdrawn \cup {m}
    BY <1>3 DEF Withdraw, WithdrawAnswered
  <2> QED
    BY <1>1, <2>1, KeepHeld DEF KeepInv, Settled, Logged
<1>4. CASE PromptControl
  BY <1>1, <1>4, KeepHeld DEF PromptControl, TurnInv, KeepInv, Settled, Logged
<1>5. CASE Stop
  BY <1>1, <1>5, KeepHeld DEF Stop, ReturnQueue, KeepInv, Settled, Logged
<1>6. CASE EchoTurn
  <2>1. Logged' = Logged \cup turn
    BY <1>6, EchoSettles DEF EchoTurn, TypeOK
  <2> QED
    BY <1>1, <1>6, <2>1, KeepHeld DEF EchoTurn, Settled
<1>7. CASE FirstStoreFails
  BY <1>1, <1>7, KeepHeld DEF FirstStoreFails, Finally, Settled, Logged
<1>8. CASE TakenStoreFails
  BY <1>1, <1>8, KeepHeld DEF TakenStoreFails, ReturnQueue, Finally, Settled, Logged
<1>9. CASE SendTurn
  BY <1>1, <1>9, KeepHeld DEF SendTurn, KeepInv, Settled, Logged
<1>10. CASE OpenFails
  <2>1. turn \subseteq Logged
    BY <1>10 DEF OpenFails, KeepInv
  <2> QED
    BY <1>1, <1>10, <2>1, KeepHeld DEF OpenFails, ReturnQueue, Finally, Settled, Logged
<1>11. CASE LeaveLoop
  BY <1>1, <1>11, KeepHeld DEF LeaveLoop, Finally, KeepInv, Settled, Logged
<1>12. CASE Disk \/ SessionOpens \/ StopReachesAgent
  BY <1>1, <1>12, KeepHeld DEF Disk, StoreDone, SessionOpens, StopReachesAgent, KeepInv, Settled, Logged
<1>13. ASSUME NEW m \in Msgs, QueueAnswered(m) PROVE KeepInv'
  BY <1>1, <1>13, KeepHeld DEF QueueAnswered, KeepInv, Settled, Logged
<1> QED
  BY <1>2, <1>3, <1>4, <1>5, <1>6, <1>7, <1>8, <1>9, <1>10, <1>11, <1>12, <1>13 DEF User, Loop

\* The steps that read what the agent says.
LEMMA KeepReading ==
  ASSUME TypeOK, TurnInv, OnceInv, KeepInv, Pipe
  PROVE  KeepInv'
<1> USE DEF userVars, loopVars, entryVars, agentVars, Held
<1>0. PICK k : Receive(k)
  BY DEF Pipe, TurnAnswered, TurnFailed, Drained, HandedBack, LeftOver
<1>1. UNCHANGED <<withdrawn, rejected, dropped, used>>
  BY <1>0 DEF Receive
<1>2. /\ Len(fromAgent) \in Nat /\ Len(fromAgent) >= 1 /\ Len(fromAgent') = Len(fromAgent) - 1
      /\ Head(fromAgent) = fromAgent[1] /\ fromAgent[1].kind = k
      /\ \A i \in 1..Len(fromAgent') : fromAgent'[i] = fromAgent[i + 1]
  BY <1>0, ReceiveLines
\* What is on its way back stays on its way, unless it was just read.
<1>3. \A m : OnItsWayBack(m) => OnItsWayBack(m)' \/ (k = "leftover" /\ m \in Head(fromAgent).items)
  <2> SUFFICES ASSUME NEW m, NEW i \in 1..Len(fromAgent), fromAgent[i].kind = "leftover", m \in fromAgent[i].items,
                      ~(k = "leftover" /\ m \in Head(fromAgent).items)
               PROVE  OnItsWayBack(m)'
    BY DEF OnItsWayBack
  <2>1. i # 1
    BY <1>2
  <2>2. i - 1 \in 1..Len(fromAgent') /\ (i - 1) + 1 = i
    BY <1>2, <2>1
  <2> QED
    BY <1>2, <2>2 DEF OnItsWayBack
<1>4. CASE TurnAnswered
  <2>1. pc = "prompting" /\ turn \subseteq Logged /\ k = "answer"
    BY <1>0, <1>4 DEF TurnAnswered, Receive, KeepInv
  <2>2. /\ queue' = {} /\ turn' = queue /\ UNCHANGED <<logged, returned>>
        /\ sent' = sent \/ sent' = queue \cap forwarded
        /\ (pc' = "leaving" /\ turn' = {}) \/ pc' = "taking"
    BY <1>4 DEF TurnAnswered, TakeQueuedTurn
  <2>3. queue \subseteq used
    BY DEF OnceInv, EntryInv, TypeOK
  <2>4. \A m \in used' \ Held' : m \notin sent' /\ OnItsWayBack(m)'
    BY <1>1, <1>3, <2>1, <2>2 DEF KeepInv, Settled, Logged
  <2>5. sent' \subseteq (turn' \cup Settled' \cup dropped') \cap used'
    BY <1>1, <2>1, <2>2, <2>3 DEF KeepInv, Settled, Logged
  <2> QED
    BY <2>2, <2>4, <2>5 DEF KeepInv
<1>5. CASE TurnFailed
  <2>1. pc = "prompting" /\ turn \subseteq Logged /\ k = "error"
    BY <1>0, <1>5 DEF TurnFailed, Receive, KeepInv
  <2>2. queue' = {} /\ returned' = returned \cup queue /\ turn' = {} /\ UNCHANGED <<logged, sent>> /\ pc' = "idle"
    BY <1>5 DEF TurnFailed, ReturnQueue, Finally
  <2> QED
    BY <1>1, <1>3, <2>1, <2>2 DEF KeepInv, Settled, Logged
<1>6. CASE Drained \/ HandedBack
  <2>1. /\ UNCHANGED <<pc, turn>> /\ queue' = queue \ Matched /\ sent' \subseteq sent
        /\ k # "leftover" /\ Matched \subseteq Settled' /\ Settled \subseteq Settled' /\ Logged \subseteq Logged'
    <3>1. CASE Drained
      <4>1. Logged' = Logged \cup Matched
        BY <3>1, EchoSettles DEF Drained, Matched, TypeOK
      <4> QED
        BY <1>0, <1>1, <3>1, <4>1 DEF Drained, Receive, Settled
    <3>2. CASE HandedBack
      BY <1>0, <1>1, <3>2 DEF HandedBack, Receive, Settled, Logged
    <3> QED
      BY <1>6, <3>1, <3>2
  <2>2. \A m \in used' \ Held' : m \notin sent' /\ OnItsWayBack(m)'
    BY <1>1, <1>3, <2>1 DEF KeepInv
  <2> QED
    BY <1>1, <2>1, <2>2 DEF KeepInv
<1>7. CASE LeftOver
  <2> DEFINE items == Head(fromAgent).items
             foreign == items \ (Matched \cup sent)
  <2>1. /\ sent' = sent \ (items \ Matched) /\ UNCHANGED <<logged, returned>>
        /\ \/ queue' = queue \cup foreign /\ UNCHANGED <<pc, turn>>
           \/ /\ ~working /\ pc' = "storing"
              /\ \E m \in foreign : turn' = {m} /\ queue' = queue \cup (foreign \ {m})
    BY <1>7 DEF LeftOver
  <2>2. ~working => turn = {}
    BY DEF TurnInv, KeepInv, TypeOK
  <2>3. Settled' = Settled /\ Logged' = Logged
    BY <1>1, <2>1 DEF Settled, Logged
  <2>4. Matched \subseteq queue
    BY DEF Matched
  <2> HIDE DEF items
  <2>5. turn \subseteq turn' /\ queue \cup foreign \subseteq queue' \cup turn'
    BY <2>1, <2>2
  <2>6. items \subseteq Held'
    BY <1>1, <2>3, <2>4, <2>5 DEF KeepInv
  <2>7. \A m \in used' \ Held' : m \notin sent' /\ OnItsWayBack(m)'
    BY <1>1, <1>3, <2>1, <2>3, <2>5, <2>6 DEF KeepInv, items
  <2>8. sent' \subseteq (turn' \cup Settled' \cup dropped') \cap used'
    BY <1>1, <2>1, <2>3, <2>5 DEF KeepInv
  <2>9. /\ pc' \in {"opening", "prompting"} => turn' \subseteq Logged'
        /\ pc' \in {"idle", "leaving"} => turn' = {}
    BY <2>1, <2>3 DEF KeepInv
  <2> QED
    BY <2>7, <2>8, <2>9 DEF KeepInv
<1> QED
  BY <1>4, <1>5, <1>6, <1>7 DEF Pipe

\* The agent's own steps: what it wants run next is on its way back.
LEMMA KeepAtAgent ==
  ASSUME TypeOK, KeepInv, Inbox \/ AgentDrains \/ AgentEnds
  PROVE  KeepInv'
<1> USE DEF userVars, loopVars, entryVars, fateVars, Held
<1>1. UNCHANGED <<queue, turn, pc, sent, logged, returned, withdrawn, rejected, dropped>>
  BY DEF Inbox, AgentStarts, AgentQueues, AgentUnqueues, AgentCancels, AgentReads, AgentDrains, AgentEnds
<1>2. Settled' = Settled /\ Logged' = Logged
  BY <1>1 DEF Settled, Logged
<1>3. CASE Inbox \/ AgentDrains
  <2>1. used' = used
    BY <1>3 DEF Inbox, AgentStarts, AgentQueues, AgentUnqueues, AgentCancels, AgentReads, AgentDrains
  <2>2. UNCHANGED fromAgent \/ \E k \in {"drained", "cancelled"} : Say(k, agentQueue)
    BY <1>3 DEF Inbox, AgentStarts, AgentQueues, AgentUnqueues, AgentCancels, AgentDrains
  <2>3. \A i \in 1..Len(fromAgent) : i \in 1..Len(fromAgent') /\ fromAgent'[i] = fromAgent[i]
    <3>1. ASSUME NEW k \in {"drained", "cancelled"}, Say(k, agentQueue)
          PROVE  \A i \in 1..Len(fromAgent) : i \in 1..Len(fromAgent') /\ fromAgent'[i] = fromAgent[i]
      <4>1. agentQueue \in SUBSET Msgs
        BY DEF TypeOK
      <4> QED
        BY <3>1, <4>1, SayLines
    <3> QED
      BY <2>2, <3>1
  <2> QED
    BY <1>1, <1>2, <2>1, <2>3, KeepHeld DEF KeepInv
<1>4. CASE AgentEnds
  <2>0. PICK answer \in Replies, late \in SUBSET (Late \ used), noteFirst \in BOOLEAN :
          /\ fromAgent' = fromAgent \o LastLines(answer, agentQueue \cup late, noteFirst)
          /\ used' = used \cup late
    BY <1>4 DEF AgentEnds, Replies
  <2>1. agentQueue \cup late \in SUBSET Msgs
    BY MessageSets DEF TypeOK
  <2>2. \A i \in 1..Len(fromAgent) : i \in 1..Len(fromAgent') /\ fromAgent'[i] = fromAgent[i]
    BY <2>0, <2>1, EndLines
  <2>3. \A m \in late : OnItsWayBack(m)'
    <3> SUFFICES ASSUME NEW m \in late PROVE OnItsWayBack(m)'
      OBVIOUS
    <3>1. PICK i \in 1..Len(fromAgent') : fromAgent'[i].kind = "leftover" /\ fromAgent'[i].items = agentQueue \cup late
      BY <2>0, <2>1, LeftOverNoted
    <3> QED
      BY <3>1 DEF OnItsWayBack
  <2>4. \A m : OnItsWayBack(m) => OnItsWayBack(m)'
    BY <2>2 DEF OnItsWayBack
  <2>5. \A m \in used' \ Held' : m \notin sent' /\ OnItsWayBack(m)'
    BY <1>1, <1>2, <2>0, <2>3, <2>4 DEF KeepInv
  <2> QED
    BY <1>1, <1>2, <2>0, <2>5 DEF KeepInv
<1> QED
  BY <1>3, <1>4

LEMMA KeepStep == TypeOK /\ TurnInv /\ OnceInv /\ KeepInv /\ [Next]_vars => KeepInv'
<1> SUFFICES ASSUME TypeOK, TurnInv, OnceInv, KeepInv, UNCHANGED vars PROVE KeepInv'
  BY KeepAtHome, KeepReading, KeepAtAgent DEF Next, Answers
<1> QED
  BY DEF vars, loopVars, entryVars, fateVars, userVars, agentVars, KeepInv, Held, Settled, Logged, OnItsWayBack

\* A message a phone was told is accepted, or that an agent wants run next, is
\* somewhere: waiting, about to be sent, settled, or on its way back from the agent,
\* unless the files of the turn it was taken into could not be stored.
THEOREM NothingIsLost == Safety => []NothingLost
<1>1. Init => KeepInv
  BY DEF Init, KeepInv
<1>2. TypeOK /\ KeepInv => NothingLost
  BY DEF KeepInv, NothingLost, Held, OnItsWayBack, InLeftOvers
<1> QED
  BY <1>1, <1>2, KeepStep, OnceInvariant, PTL DEF Safety

-----------------------------------------------------------------------------
(***************************************************************************)
(* What the agent has read is shown.  A message nobody was told about yet  *)
(* is still queued while the agent holds it or reports it, so the report   *)
(* finds its entry; one that is no longer queued was asked to be queued    *)
(* too late, and its request is refused.                                   *)
(***************************************************************************)
Reporting(m) == {i \in 1..Len(fromAgent) : fromAgent[i].kind = "drained" /\ m \in fromAgent[i].items}
Told == Logged \cup returned \cup withdrawn

ShownInv ==
    \A m \in Msgs \ Told :
      /\ heard[m] > 0 => Reporting(m) # {}
      /\ m \in agentQueue \/ Reporting(m) # {} => m \in queue
      /\ m \notin queue => \A i \in Asking(m) :
           agentTurn = "none" /\ \A j \in 1..Len(toAgent) : toAgent[j].kind \in Turns => i < j

\* A report is a note, so the daemon knows its entry.
LEMMA ReportingNotes == \A m : Reporting(m) \subseteq Noting(m)
  BY DEF Reporting, Noting, Notes

\* A step of the daemon that takes nothing off the queue without telling anyone, and
\* reads nothing of what the agent says but, at most, another line than a report.
LEMMA ShownStays ==
  ASSUME TypeOK, ShownInv, Told \subseteq Told', UNCHANGED agentVars,
         \A m \in Msgs : m \in queue => m \in queue' \cup Told',
         \A m \in Msgs \ Told' : Reporting(m)' = {} <=> Reporting(m) = {},
         \/ UNCHANGED toAgent
         \/ \E k \in {"prompt", "control", "queue", "unqueue", "cancel"}, S \in SUBSET Msgs :
              Tell(k, S) /\ (k = "queue" => S \subseteq queue')
  PROVE  ShownInv'
<1> SUFFICES ASSUME NEW m \in Msgs \ Told'
             PROVE  /\ heard'[m] > 0 => Reporting(m)' # {}
                    /\ m \in agentQueue' \/ Reporting(m)' # {} => m \in queue'
                    /\ m \notin queue' => \A i \in Asking(m)' :
                         agentTurn' = "none"
                         /\ \A j \in 1..Len(toAgent') : toAgent'[j].kind \in Turns => i < j
  BY DEF ShownInv
<1>1. /\ heard[m] > 0 => Reporting(m) # {}
      /\ m \in agentQueue \/ Reporting(m) # {} => m \in queue
      /\ m \notin queue' => m \notin queue
      /\ UNCHANGED <<agentTurn, agentQueue, heard>>
  BY DEF ShownInv, agentVars
<1>2. ASSUME m \notin queue', NEW i \in Asking(m)'
      PROVE  agentTurn = "none" /\ \A j \in 1..Len(toAgent') : toAgent'[j].kind \in Turns => i < j
  <2>1. \A n \in Asking(m) : agentTurn = "none" /\ \A j \in 1..Len(toAgent) : toAgent[j].kind \in Turns => n < j
    BY <1>1, <1>2 DEF ShownInv
  <2>2. CASE UNCHANGED toAgent
    BY <1>2, <2>1, <2>2 DEF Asking
  <2>3. ASSUME NEW k \in {"prompt", "control", "queue", "unqueue", "cancel"}, NEW S \in SUBSET Msgs,
               Tell(k, S), k = "queue" => S \subseteq queue'
        PROVE  agentTurn = "none" /\ \A j \in 1..Len(toAgent') : toAgent'[j].kind \in Turns => i < j
    <3>1. /\ Len(toAgent) \in Nat /\ \A j \in 1..Len(toAgent) : toAgent'[j] = toAgent[j]
          /\ \A j \in 1..Len(toAgent') : j \in 1..Len(toAgent) \/ j = Len(toAgent) + 1
      BY <2>3, TellLines
    <3>2. i \in Asking(m)
      BY <1>2, <2>3, AskingStays
    <3>3. i \in Nat /\ i <= Len(toAgent)
      BY <3>1, <3>2 DEF Asking
    <3> QED
      BY <2>1, <3>1, <3>2, <3>3
  <2> QED
    BY <2>2, <2>3
<1> QED
  BY <1>1, <1>2

\* The steps of the users, the loop and the disk.
LEMMA ShownAtHome ==
  ASSUME TypeOK, ShownInv,
         \/ User \/ Loop \/ Disk \/ SessionOpens \/ StopReachesAgent
         \/ \E m \in Msgs : QueueAnswered(m) \/ WithdrawAnswered(m)
  PROVE  ShownInv'
<1> USE DEF userVars, loopVars, entryVars, fateVars, Told
<1>0. {} \in SUBSET Msgs /\ turn \in SUBSET Msgs /\ \A m \in Msgs : {m} \in SUBSET Msgs
  BY DEF TypeOK
<1>1. UNCHANGED <<fromAgent, agentVars>>
  BY DEF User, Prompt, Withdraw, PromptControl, Stop, Loop, EchoTurn, FirstStoreFails, TakenStoreFails,
         SendTurn, OpenFails, LeaveLoop, Disk, StoreDone, SessionOpens, StopReachesAgent, QueueAnswered,
         WithdrawAnswered, agentVars
<1>2. \A m \in Msgs : Reporting(m)' = Reporting(m)
  BY <1>1 DEF Reporting
<1>3. ASSUME NEW m \in Msgs, Prompt(m) PROVE ShownInv'
  <2>1. Told' = Told /\ queue \subseteq queue'
    BY <1>3 DEF Prompt, Enqueue, Logged
  <2>2. UNCHANGED toAgent \/ (Tell("queue", {m}) /\ {m} \subseteq queue')
    BY <1>3 DEF Prompt, Enqueue
  <2> QED
    BY <1>0, <1>1, <1>2, <2>1, <2>2, ShownStays
<1>4. ASSUME NEW m \in Msgs, Withdraw(m) \/ WithdrawAnswered(m) PROVE ShownInv'
  <2>1. /\ UNCHANGED <<logged, returned>>
        /\ \/ UNCHANGED <<queue, withdrawn>>
           \/ queue' = queue \ {m} /\ withdrawn' = withdrawn \cup {m}
        /\ UNCHANGED toAgent \/ Tell("unqueue", {m})
    BY <1>4 DEF Withdraw, WithdrawAnswered
  <2> QED
    BY <1>0, <1>1, <1>2, <2>1, ShownStays DEF Logged
<1>5. CASE PromptControl
  BY <1>1, <1>2, <1>5, ShownStays DEF PromptControl, Logged
<1>6. CASE Stop
  <2>1. queue \subseteq returned' /\ returned \subseteq returned' /\ UNCHANGED <<logged, withdrawn>>
        /\ (UNCHANGED toAgent \/ Tell("cancel", {}))
    BY <1>6 DEF Stop, ReturnQueue
  <2> QED
    BY <1>0, <1>1, <1>2, <2>1, ShownStays DEF Logged
<1>7. CASE EchoTurn
  <2>1. Logged' = Logged \cup turn
    BY <1>7, EchoSettles DEF EchoTurn, TypeOK
  <2> QED
    BY <1>1, <1>2, <1>7, <2>1, ShownStays DEF EchoTurn
<1>8. CASE FirstStoreFails \/ LeaveLoop
  BY <1>1, <1>2, <1>8, ShownStays DEF FirstStoreFails, LeaveLoop, Logged
<1>9. CASE TakenStoreFails \/ OpenFails
  <2>1. queue \subseteq returned' /\ returned \subseteq returned' /\ UNCHANGED <<logged, withdrawn, toAgent>>
    BY <1>9 DEF TakenStoreFails, OpenFails, ReturnQueue
  <2> QED
    BY <1>1, <1>2, <2>1, ShownStays DEF Logged
<1>10. CASE SendTurn
  <2>1. UNCHANGED <<queue, logged, returned, withdrawn>> /\ (Tell("control", turn) \/ Tell("prompt", turn))
    BY <1>10 DEF SendTurn
  <2> QED
    BY <1>0, <1>1, <1>2, <2>1, ShownStays DEF Logged
<1>11. CASE Disk \/ SessionOpens
  BY <1>1, <1>2, <1>11, ShownStays DEF Disk, StoreDone, SessionOpens, Logged
<1>12. CASE StopReachesAgent
  <2>1. UNCHANGED <<queue, logged, returned, withdrawn>> /\ (UNCHANGED toAgent \/ Tell("cancel", {}))
    BY <1>12 DEF StopReachesAgent
  <2> QED
    BY <1>0, <1>1, <1>2, <2>1, ShownStays DEF Logged
<1>13. ASSUME NEW m \in Msgs, QueueAnswered(m) PROVE ShownInv'
  BY <1>1, <1>2, <1>13, ShownStays DEF QueueAnswered, Logged
<1> QED
  BY <1>3, <1>4, <1>5, <1>6, <1>7, <1>8, <1>9, <1>10, <1>11, <1>12, <1>13 DEF User, Loop

\* The steps that read what the agent says.  A report finds the entry it names.
LEMMA ShownReading ==
  ASSUME TypeOK, TurnInv, OnceInv, ShownInv, Pipe
  PROVE  ShownInv'
<1> USE DEF userVars, loopVars, entryVars, Told
<1>0. PICK k : Receive(k)
  BY DEF Pipe, TurnAnswered, TurnFailed, Drained, HandedBack, LeftOver
<1>1. UNCHANGED <<withdrawn, toAgent, agentVars>>
  BY <1>0 DEF Receive
<1>2. /\ Len(fromAgent) \in Nat /\ Len(fromAgent) >= 1 /\ Len(fromAgent') = Len(fromAgent) - 1
      /\ Head(fromAgent) = fromAgent[1] /\ fromAgent[1].kind = k
      /\ \A i \in 1..Len(fromAgent') : fromAgent'[i] = fromAgent[i + 1]
  BY <1>0, ReceiveLines
\* What is being reported goes on being reported, unless it was just read.
<1>3. \A m : /\ Reporting(m)' # {} => Reporting(m) # {}
             /\ Reporting(m) # {} => Reporting(m)' # {} \/ (k = "drained" /\ m \in Head(fromAgent).items)
  <2>1. ASSUME NEW m, NEW i \in Reporting(m)' PROVE i + 1 \in Reporting(m)
    BY <1>2, <2>1, i + 1 \in 1..Len(fromAgent) DEF Reporting
  <2>2. ASSUME NEW m, NEW i \in Reporting(m), ~(k = "drained" /\ m \in Head(fromAgent).items)
        PROVE  i - 1 \in Reporting(m)'
    <3>1. i # 1 /\ i \in 1..Len(fromAgent)
      BY <1>2, <2>2 DEF Reporting
    <3>2. i - 1 \in 1..Len(fromAgent') /\ (i - 1) + 1 = i
      BY <1>2, <3>1
    <3> QED
      BY <1>2, <2>2, <3>2 DEF Reporting
  <2> QED
    BY <2>1, <2>2
<1>4. CASE TurnAnswered
  <2>1. k = "answer" /\ queue' = {} /\ UNCHANGED <<logged, returned>>
    BY <1>0, <1>4 DEF TurnAnswered, TakeQueuedTurn, Receive
  <2>2. /\ agentTurn = "none" /\ agentQueue = {}
        /\ \A i \in 1..Len(toAgent) : toAgent[i].kind \notin Turns
        /\ \A i \in 1..Len(fromAgent) : fromAgent[i].kind # "drained"
    BY <1>2, <2>1, TurnFacts DEF Replies, OnceInv, PipesInv
  <2>3. \A m : Reporting(m) = {} /\ Reporting(m)' = {}
    BY <1>3, <2>2 DEF Reporting
  <2> QED
    BY <1>1, <2>1, <2>2, <2>3 DEF ShownInv, Logged, agentVars
<1>5. CASE TurnFailed
  <2>1. k = "error" /\ queue \subseteq returned' /\ returned \subseteq returned' /\ UNCHANGED logged
    BY <1>0, <1>5 DEF TurnFailed, ReturnQueue, Receive
  <2> QED
    BY <1>1, <1>3, <2>1, ShownStays DEF Logged
<1>6. CASE Drained \/ HandedBack
  <2>1. /\ queue' = queue \ Matched /\ Matched \subseteq Told' /\ Told \subseteq Told'
    <3>1. CASE Drained
      <4>1. Logged' = Logged \cup Matched
        BY <3>1, EchoSettles DEF Drained, Matched, TypeOK
      <4> QED
        BY <1>1, <3>1, <4>1 DEF Drained
    <3>2. CASE HandedBack
      BY <1>1, <3>2 DEF HandedBack, Logged
    <3> QED
      BY <1>6, <3>1, <3>2
  <2>2. ASSUME NEW m \in Msgs \ Told', k = "drained", m \in Head(fromAgent).items
        PROVE  FALSE
    <3>1. Reporting(m) # {} /\ AtAgent(m)
      BY <1>2, <2>2, 1 \in Reporting(m), ReportingNotes DEF Reporting, AtAgent
    <3>2. m \in queue /\ m \in forwarded
      BY <2>1, <3>1 DEF ShownInv, OnceInv, EntryInv
    <3> QED
      BY <2>1, <2>2, <3>2 DEF Matched
  <2> QED
    BY <1>1, <1>3, <2>1, <2>2, ShownStays
<1>7. CASE LeftOver
  <2>1. k = "leftover" /\ queue \subseteq queue' /\ UNCHANGED <<logged, returned>>
    BY <1>0, <1>7 DEF LeftOver, Receive, Matched
  <2> QED
    BY <1>1, <1>3, <2>1, ShownStays DEF Logged
<1> QED
  BY <1>4, <1>5, <1>6, <1>7 DEF Pipe

\* The agent's own steps: what it reads it reports, or it was echoed before.
LEMMA ShownAtAgent ==
  ASSUME TypeOK, TurnInv, OnceInv, KeepInv, ShownInv, Inbox \/ AgentDrains \/ AgentEnds
  PROVE  ShownInv'
<1> USE DEF userVars, loopVars, entryVars, fateVars, Told
<1>1. UNCHANGED <<queue, turn, pc, logged, returned, withdrawn>> /\ Told' = Told
  BY DEF Inbox, AgentStarts, AgentQueues, AgentUnqueues, AgentCancels, AgentReads, AgentDrains, AgentEnds, Logged
\* Reading a line moves the requests behind it up, and the turns with them.
<1>2. ASSUME NEW k, AgentReads(k), NEW m \in Msgs \ Told, m \notin queue, NEW i \in Asking(m)'
      PROVE  /\ agentTurn = "none" /\ k \notin Turns
             /\ \A j \in 1..Len(toAgent') : toAgent'[j].kind \in Turns => i < j
  <2>1. /\ Len(toAgent) \in Nat /\ Len(toAgent) >= 1 /\ Len(toAgent') = Len(toAgent) - 1
        /\ toAgent[1].kind = k /\ \A j \in 1..Len(toAgent') : toAgent'[j] = toAgent[j + 1]
    BY <1>2, ReadLines
  <2>2. i \in Nat /\ i >= 1 /\ i + 1 \in Asking(m)
    BY <1>2, AskingShifts
  <2>3. agentTurn = "none" /\ \A j \in 1..Len(toAgent) : toAgent[j].kind \in Turns => i + 1 < j
    BY <1>2, <2>2 DEF ShownInv
  <2>4. ASSUME NEW j \in 1..Len(toAgent'), toAgent'[j].kind \in Turns PROVE i < j
    BY <2>1, <2>2, <2>3, <2>4, j + 1 \in 1..Len(toAgent)
  <2> QED
    BY <2>1, <2>2, <2>3, <2>4
<1>3. ASSUME NEW k \in {"drained", "cancelled"}, Say(k, agentQueue), NEW m
      PROVE  /\ k = "cancelled" => Reporting(m)' = Reporting(m)
             /\ k = "drained" => (Reporting(m)' # {} <=> Reporting(m) # {} \/ m \in agentQueue)
  <2>1. agentQueue \in SUBSET Msgs
    BY DEF TypeOK
  <2> QED
    BY <1>3, <2>1, SayLines DEF Reporting
<1>4. CASE AgentStarts
  <2>1. PICK k \in Turns : AgentReads(k)
    BY <1>4 DEF AgentStarts, Turns
  <2>2. /\ Len(toAgent) >= 1 /\ Len(toAgent) \in Nat /\ Head(toAgent) = toAgent[1] /\ toAgent[1].kind = k
    BY <2>1, ReadLines
  <2>3. pc = "prompting" /\ Head(toAgent).items = turn /\ turn \subseteq Logged
    BY <2>1, <2>2, TurnFacts DEF OnceInv, PipesInv, KeepInv
  <2>4. \A m \in Msgs \ Told : heard'[m] = heard[m] /\ Reporting(m)' = Reporting(m)
    BY <1>4, <2>3 DEF AgentStarts, Count, Reporting
  <2>5. agentQueue' = {}
    BY <1>4 DEF AgentStarts
  <2> QED
    BY <1>1, <1>2, <2>1, <2>4, <2>5 DEF ShownInv
<1>5. CASE AgentQueues
  <2>1. AgentReads("queue") /\ UNCHANGED <<heard, agentTurn, fromAgent>>
    BY <1>5 DEF AgentQueues
  <2>2. Len(toAgent) \in Nat /\ Len(toAgent) >= 1 /\ Head(toAgent) = toAgent[1] /\ toAgent[1].kind = "queue"
    BY <2>1, ReadLines
  <2>3. \A m \in agentQueue' : m \in agentQueue \/ (agentTurn = "prompt" /\ m \in Head(toAgent).items)
    BY <1>5 DEF AgentQueues
  <2>4. \A m \in Head(toAgent).items : 1 \in Asking(m)
    BY <2>2 DEF Asking
  <2>5. \A m \in Msgs \ Told : m \in agentQueue' => m \in queue
    BY <2>3, <2>4 DEF ShownInv
  <2>6. \A m \in Msgs : Reporting(m)' = Reporting(m)
    BY <2>1 DEF Reporting
  <2> QED
    BY <1>1, <1>2, <2>1, <2>5, <2>6 DEF ShownInv
<1>6. CASE AgentUnqueues \/ AgentCancels
  <2>1. PICK k : AgentReads(k)
    BY <1>6 DEF AgentUnqueues, AgentCancels
  <2>2. agentQueue' \subseteq agentQueue /\ UNCHANGED <<heard, agentTurn>>
        /\ (UNCHANGED fromAgent \/ Say("cancelled", agentQueue))
    BY <1>6 DEF AgentUnqueues, AgentCancels
  <2>3. \A m \in Msgs : Reporting(m)' = Reporting(m)
    BY <1>3, <2>2 DEF Reporting
  <2> QED
    BY <1>1, <1>2, <2>1, <2>2, <2>3 DEF ShownInv
<1>7. CASE AgentDrains
  <2>1. /\ Say("drained", agentQueue) /\ agentQueue' = {} /\ UNCHANGED <<toAgent, agentTurn>>
        /\ heard' = Count(heard, agentQueue)
    BY <1>7 DEF AgentDrains
  <2>2. \A m \in Msgs : Reporting(m)' # {} <=> Reporting(m) # {} \/ m \in agentQueue
    BY <1>3, <2>1
  <2>3. \A m \in Msgs : heard'[m] = IF m \in agentQueue THEN heard[m] + 1 ELSE heard[m]
    BY <2>1 DEF Count
  <2>4. \A m : Asking(m)' = Asking(m)
    BY <2>1 DEF Asking
  <2> QED
    BY <1>1, <2>1, <2>2, <2>3, <2>4 DEF ShownInv
<1>8. CASE AgentEnds
  <2>1. PICK answer \in Replies, late \in SUBSET (Late \ used), noteFirst \in BOOLEAN :
          fromAgent' = fromAgent \o LastLines(answer, agentQueue \cup late, noteFirst)
    BY <1>8 DEF AgentEnds, Replies
  <2>2. agentQueue \cup late \in SUBSET Msgs
    BY MessageSets DEF TypeOK
  <2>3. /\ Len(fromAgent) \in Nat /\ Len(fromAgent') \in {Len(fromAgent) + 1, Len(fromAgent) + 2}
        /\ \A i \in 1..Len(fromAgent) : fromAgent'[i] = fromAgent[i]
        /\ \A i \in 1..Len(fromAgent') : i > Len(fromAgent) => fromAgent'[i].kind # "drained"
    <3> DEFINE S == agentQueue \cup late
    <3>1. /\ Len(fromAgent) \in Nat /\ Len(fromAgent') \in {Len(fromAgent) + 1, Len(fromAgent) + 2}
          /\ \A i \in 1..Len(fromAgent) : fromAgent'[i] = fromAgent[i]
          /\ \A i \in 1..Len(fromAgent') : i > Len(fromAgent) =>
               \/ fromAgent'[i] = [kind |-> answer, items |-> {}]
               \/ fromAgent'[i] = [kind |-> "leftover", items |-> S]
      BY <2>1, <2>2, EndLines
    <3>2. [kind |-> answer, items |-> {}].kind # "drained" /\ [kind |-> "leftover", items |-> S].kind # "drained"
      BY DEF Replies
    <3> QED
      BY <3>1, <3>2
  <2>4. \A m : Reporting(m)' = Reporting(m)
    <3>1. \A i : i \in 1..Len(fromAgent') => i \in 1..Len(fromAgent) \/ i > Len(fromAgent)
      BY <2>3
    <3>2. \A i : i \in 1..Len(fromAgent) => i \in 1..Len(fromAgent')
      BY <2>3
    <3> QED
      BY <2>3, <3>1, <3>2 DEF Reporting
  <2>5. agentQueue' = {} /\ agentTurn' = "none" /\ UNCHANGED <<toAgent, heard>>
    BY <1>8 DEF AgentEnds
  <2>6. \A m : Asking(m)' = Asking(m)
    BY <2>5 DEF Asking
  <2> QED
    BY <1>1, <2>4, <2>5, <2>6 DEF ShownInv
<1> QED
  BY <1>4, <1>5, <1>6, <1>7, <1>8 DEF Inbox

\* What the agent has read is a turn of every transcript, or about to become one,
\* unless the user was told before that it came back or was withdrawn.
THEOREM ReadIsShown == Safety => []HeardIsShown
<1>1. Init => KeepInv /\ ShownInv
  BY DEF Init, KeepInv, ShownInv, Reporting, Asking
<1>2. TypeOK /\ TurnInv /\ OnceInv /\ KeepInv /\ ShownInv /\ [Next]_vars => (KeepInv /\ ShownInv)'
  <2>1. TypeOK /\ TurnInv /\ OnceInv /\ KeepInv /\ ShownInv /\ Next => ShownInv'
    BY ShownAtHome, ShownReading, ShownAtAgent DEF Next, Answers
  <2>2. ShownInv /\ UNCHANGED vars => ShownInv'
    BY DEF vars, loopVars, entryVars, fateVars, userVars, agentVars, ShownInv, Told, Logged, Reporting, Asking
  <2> QED
    BY <2>1, <2>2, KeepStep
<1>3. TypeOK /\ ShownInv => HeardIsShown
  <2> SUFFICES ASSUME ShownInv, NEW m \in Msgs, heard[m] > 0, m \notin Told
               PROVE  m \in UNION {fromAgent[i].items :
                                     i \in {j \in 1..Len(fromAgent) : fromAgent[j].kind = "drained"}}
    BY DEF HeardIsShown, Told
  <2> QED
    BY DEF ShownInv, Reporting
<1> QED
  BY <1>1, <1>2, <1>3, OnceInvariant, PTL DEF Safety

-----------------------------------------------------------------------------
(***************************************************************************)
(* An agent without GG's queue extension (every agent but GG Coder): all   *)
(* the waiting messages are the daemon's.                                  *)
(***************************************************************************)
PlainToAgent   == [kind : {"prompt", "control", "cancel"}, items : SUBSET Msgs]
PlainFromAgent == [kind : {"answer", "error"}, items : {{}}]

\* Nothing of the extension is ever in use.
PlainAgent ==
    /\ agentQueue = {} /\ forwarded = {} /\ named = {} /\ sent = {}
    /\ \A m \in Msgs : queueAck[m] = "none" /\ cancelAck[m] = "none"
    /\ toAgent \in Seq(PlainToAgent)
    /\ fromAgent \in Seq(PlainFromAgent)

\* The actions such an agent leaves enabled.
PlainNext ==
    \/ \E m \in Msgs : Prompt(m) \/ Withdraw(m)
    \/ PromptControl \/ Stop \/ Loop \/ TurnAnswered \/ TurnFailed
    \/ AgentStarts \/ AgentCancels \/ AgentEnds \/ Disk \/ SessionOpens \/ StopReachesAgent

\* The messages an agent without a queue is sent, and what it says.
LEMMA PlainTell ==
  ASSUME PlainAgent, NEW S \in SUBSET Msgs, NEW k \in {"prompt", "control", "cancel"}, Tell(k, S)
  PROVE  toAgent' \in Seq(PlainToAgent)
<1>1. [kind |-> k, items |-> S] \in PlainToAgent
  BY DEF PlainToAgent
<1>2. toAgent \in Seq(PlainToAgent)
  BY DEF PlainAgent
<1> QED
  BY <1>1, <1>2 DEF Tell

\* Only PlainNext's actions are enabled.
LEMMA PlainSteps == PlainAgent /\ Next => PlainNext
<1> SUFFICES ASSUME PlainAgent, Next, ~PlainNext PROVE FALSE
  OBVIOUS
<1>1. ASSUME NEW k, Receive(k) PROVE k \in {"answer", "error"}
  <2>1. Head(fromAgent) \in PlainFromAgent
    BY <1>1, HeadTailTyped DEF Receive, PlainAgent
  <2> QED
    BY <1>1, <2>1 DEF Receive, PlainFromAgent
<1>2. ASSUME NEW k, AgentReads(k) PROVE k \in {"prompt", "control", "cancel"}
  <2>1. Head(toAgent) \in PlainToAgent
    BY <1>2, HeadTailTyped DEF AgentReads, PlainAgent
  <2> QED
    BY <1>2, <2>1 DEF AgentReads, PlainToAgent
<1>3. ~Drained /\ ~HandedBack /\ ~LeftOver
  BY <1>1 DEF Drained, HandedBack, LeftOver
<1>4. ~AgentQueues /\ ~AgentUnqueues
  BY <1>2 DEF AgentQueues, AgentUnqueues
<1>5. ~AgentDrains
  BY DEF AgentDrains, PlainAgent
<1>6. ~Answers
  BY DEF Answers, QueueAnswered, WithdrawAnswered, PlainAgent
<1> QED
  BY <1>3, <1>4, <1>5, <1>6 DEF Next, PlainNext, User, Pipe, Inbox

\* The pipes after each step of PlainNext.
LEMMA PlainAgentStays ==
  ASSUME GGQueue = FALSE, Late = {}, TypeOK, PlainAgent, [Next]_vars
  PROVE  PlainAgent'
<1> USE DEF userVars, loopVars, entryVars, fateVars, agentVars
<1>0. CASE UNCHANGED vars
  BY <1>0 DEF vars, PlainAgent
<1>1. ASSUME NEW m \in Msgs, Prompt(m) PROVE PlainAgent'
  BY <1>1 DEF Prompt, Enqueue, StartTurn, PlainAgent
<1>2. ASSUME NEW m \in Msgs, Withdraw(m) PROVE PlainAgent'
  BY <1>2 DEF Withdraw, PlainAgent
<1>3. CASE PromptControl
  BY <1>3 DEF PromptControl, PlainAgent
<1>4. CASE Stop
  <2>1. toAgent' \in Seq(PlainToAgent)
    BY <1>4, PlainTell, {} \in SUBSET Msgs DEF Stop, PlainAgent
  <2> QED
    BY <1>4, <2>1 DEF Stop, PlainAgent
<1>5. CASE Loop
  <2>1. CASE SendTurn
    <3>1. toAgent' \in Seq(PlainToAgent)
      BY <2>1, PlainTell DEF SendTurn, TypeOK
    <3> QED
      BY <2>1, <3>1 DEF SendTurn, PlainAgent
  <2>2. CASE EchoTurn
    BY <2>2 DEF EchoTurn, PlainAgent
  <2>3. CASE FirstStoreFails \/ TakenStoreFails
    BY <2>3 DEF FirstStoreFails, TakenStoreFails, PlainAgent
  <2>4. CASE OpenFails \/ LeaveLoop
    BY <2>4 DEF OpenFails, LeaveLoop, PlainAgent
  <2> QED
    BY <1>5, <2>1, <2>2, <2>3, <2>4 DEF Loop
<1>6. ASSUME NEW k, Receive(k) PROVE fromAgent' \in Seq(PlainFromAgent) /\ UNCHANGED <<toAgent, agentQueue, cancelAck>>
  BY <1>6, HeadTailTyped DEF Receive, PlainAgent
<1>7. CASE TurnAnswered
  BY <1>7, <1>6 DEF TurnAnswered, TakeQueuedTurn, PlainAgent
<1>8. CASE TurnFailed
  BY <1>8, <1>6 DEF TurnFailed, PlainAgent
<1>9. ASSUME NEW k, AgentReads(k) PROVE toAgent' \in Seq(PlainToAgent) /\ UNCHANGED entryVars
  BY <1>9, HeadTailTyped DEF AgentReads, PlainAgent
<1>10. CASE AgentStarts
  BY <1>10, <1>9 DEF AgentStarts, PlainAgent
<1>11. CASE AgentCancels
  BY <1>11, <1>9 DEF AgentCancels, PlainAgent
<1>12. CASE AgentEnds
  <2>1. PICK answer \in {"answer", "error"}, late \in SUBSET (Late \ used), noteFirst \in BOOLEAN :
           fromAgent' = fromAgent \o LastLines(answer, agentQueue \cup late, noteFirst)
    BY <1>12 DEF AgentEnds
  <2>2. LastLines(answer, agentQueue \cup late, noteFirst) = <<[kind |-> answer, items |-> {}]>>
    BY DEF LastLines, PlainAgent
  <2>3. [kind |-> answer, items |-> {}] \in PlainFromAgent
    BY DEF PlainFromAgent
  <2>4. <<[kind |-> answer, items |-> {}]>> \in Seq(PlainFromAgent)
    BY <2>3
  <2>5. fromAgent' \in Seq(PlainFromAgent)
    BY <2>1, <2>2, <2>4, ConcatTyped DEF PlainAgent
  <2> QED
    BY <1>12, <2>5 DEF AgentEnds, PlainAgent
<1>13. CASE Disk \/ SessionOpens
  BY <1>13 DEF Disk, StoreDone, SessionOpens, PlainAgent
<1>14. CASE StopReachesAgent
  <2>1. toAgent' \in Seq(PlainToAgent)
    BY <1>14, PlainTell, {} \in SUBSET Msgs DEF StopReachesAgent, PlainAgent
  <2> QED
    BY <1>14, <2>1 DEF StopReachesAgent, PlainAgent
<1> QED
  BY <1>0, <1>1, <1>2, <1>3, <1>4, <1>5, <1>7, <1>8, <1>10, <1>11, <1>12, <1>13, <1>14, PlainSteps
     DEF PlainNext

-----------------------------------------------------------------------------
(***************************************************************************)
(* No message is stranded.  The queue is empty whenever the loop is about  *)
(* to leave or has left, and no write of an attachment has failed.         *)
(***************************************************************************)
LoopShape ==
    /\ pc # "idle" => working
    /\ pc = "leaving" => queue = {}
    /\ \A m \in Msgs : store[m] # "failed"

StrandInv == NeverStranded /\ LoopShape

\* Each step of the loop and of its users leaves nothing queued on an idle session.
LEMMA StrandStays ==
  ASSUME DiskMayFail = FALSE, TypeOK, PlainAgent, StrandInv, [Next]_vars
  PROVE  StrandInv'
<1> USE DEF StrandInv, NeverStranded, LoopShape, userVars, loopVars, entryVars, fateVars, agentVars
<1>0. CASE UNCHANGED vars
  BY <1>0 DEF vars
<1>1. ASSUME NEW m \in Msgs, Prompt(m) PROVE StrandInv'
  <2>1. \A n \in Msgs : store'[n] # "failed"
    BY <1>1 DEF Prompt, Enqueue, StartTurn, Storing, TypeOK
  <2>2. CASE working
    BY <1>1, <2>1, <2>2 DEF Prompt, Enqueue, Runnable
  <2>3. CASE ~working
    BY <1>1, <2>1, <2>3 DEF Prompt, StartTurn
  <2> QED
    BY <2>2, <2>3
<1>2. ASSUME NEW m \in Msgs, Withdraw(m) PROVE StrandInv'
  BY <1>2 DEF Withdraw
<1>3. CASE PromptControl
  BY <1>3 DEF PromptControl
<1>4. CASE Stop
  BY <1>4 DEF Stop, ReturnQueue
<1>5. CASE Loop
  <2>1. ~StoreFailed
    BY DEF StoreFailed, TypeOK
  <2>2. CASE EchoTurn
    BY <2>2 DEF EchoTurn
  <2>3. CASE SendTurn
    BY <2>3 DEF SendTurn
  <2>4. CASE OpenFails
    BY <2>4 DEF OpenFails, ReturnQueue, Finally
  <2>5. CASE LeaveLoop
    BY <2>5 DEF LeaveLoop, Finally
  <2> QED
    BY <1>5, <2>1, <2>2, <2>3, <2>4, <2>5 DEF Loop, FirstStoreFails, TakenStoreFails
<1>6. CASE TurnAnswered
  BY <1>6 DEF TurnAnswered, TakeQueuedTurn
<1>7. CASE TurnFailed
  BY <1>7 DEF TurnFailed, ReturnQueue, Finally
<1>8. CASE AgentStarts \/ AgentCancels
  BY <1>8 DEF AgentStarts, AgentCancels, AgentReads
<1>9. CASE AgentEnds
  BY <1>9 DEF AgentEnds
<1>10. CASE Disk
  BY <1>10 DEF Disk, StoreDone, TypeOK
<1>11. CASE SessionOpens \/ StopReachesAgent
  BY <1>11 DEF SessionOpens, StopReachesAgent
<1> QED
  BY <1>0, <1>1, <1>2, <1>3, <1>4, <1>5, <1>6, <1>7, <1>8, <1>9, <1>10, <1>11, PlainSteps
     DEF PlainNext

\* The plain agent's invariant, with what it rests on.
LEMMA PlainInvariant ==
  ASSUME GGQueue = FALSE, Late = {}
  PROVE  Safety => [](TypeOK /\ PlainAgent)
<1>1. Init => TypeOK /\ PlainAgent
  BY InitTyped DEF Init, PlainAgent
<1>2. TypeOK /\ PlainAgent /\ [Next]_vars => (TypeOK /\ PlainAgent)'
  BY StepTyped, PlainAgentStays
<1> QED
  BY <1>1, <1>2, PTL DEF Safety

\* With an agent that has no queue of its own and a disk that does not fail, no
\* message is ever left queued on an idle session, however prompts, stops,
\* withdrawals, failing turns and failing connects interleave.
THEOREM PlainNeverStrands ==
  ASSUME GGQueue = FALSE, Late = {}, DiskMayFail = FALSE
  PROVE  Safety => []NeverStranded
<1>1. Init => StrandInv
  BY DEF Init, StrandInv, NeverStranded, LoopShape
<1>2. TypeOK /\ PlainAgent /\ StrandInv /\ [Next]_vars => StrandInv'
  BY StrandStays
<1>3. StrandInv => NeverStranded
  BY DEF StrandInv
<1> QED
  BY <1>1, <1>2, <1>3, PlainInvariant, PTL DEF Safety

-----------------------------------------------------------------------------
(***************************************************************************)
(* The fate of each message under such an agent: it has one.               *)
(***************************************************************************)
\* OneFate, made inductive: every message the loop holds was accepted, so a new
\* one is none of them, and a turn not yet echoed is none of the settled ones.
FateInv ==
    /\ OneFate
    /\ queue \cup turn \cup Settled \cup dropped \subseteq used
    /\ pc \in {"storing", "taking"} => turn \cap (Settled \cup dropped) = {}

\* The echo counts each message of the turn once.
LEMMA EchoCounts ==
  ASSUME TypeOK, OneFate, NEW S \in SUBSET Msgs, S \cap Logged = {}, LogUserMessages(S)
  PROVE  (\A m \in Msgs : logged'[m] <= 1) /\ Logged' = Logged \cup S
<1>1. \A m \in S : logged[m] = 0
  BY DEF Logged, TypeOK
<1>2. \A m \in Msgs : logged'[m] = IF m \in S THEN logged[m] + 1 ELSE logged[m]
  BY DEF LogUserMessages, Count
<1>3. \A m \in Msgs : logged[m] \in Nat /\ logged[m] <= 1
  BY DEF TypeOK, OneFate
<1>4. \A m \in Msgs : logged'[m] <= 1 /\ (logged'[m] > 0 <=> logged[m] > 0 \/ m \in S)
  BY <1>1, <1>2, <1>3
<1> QED
  BY <1>4 DEF Logged

\* A step that leaves the record of fates alone and takes no message in keeps FateInv.
LEMMA QuietStep ==
  ASSUME FateInv, UNCHANGED fateVars, used \subseteq used', queue' \subseteq queue, turn' \subseteq turn,
         turn' = {} \/ pc' = pc \/ pc' \notin {"storing", "taking"}
  PROVE  FateInv'
  BY DEF FateInv, OneFate, Settled, Logged, fateVars

\* ReturnQueue gives each waiting message the fate of being handed back.
LEMMA ReturnStep ==
  ASSUME FateInv, ReturnQueue, UNCHANGED <<logged, withdrawn, rejected, dropped, used>>,
         turn' \subseteq turn, turn' = {} \/ pc' = pc
  PROVE  FateInv'
  BY DEF FateInv, OneFate, Settled, Logged, ReturnQueue

\* FateInv holds of every step of the turn loop, its users and its agent.
LEMMA FateStays ==
  ASSUME GGQueue = FALSE, TypeOK, PlainAgent, FateInv, [Next]_vars
  PROVE  FateInv'
<1> USE DEF userVars, loopVars, entryVars, agentVars
<1>0. CASE UNCHANGED vars
  BY <1>0, QuietStep DEF vars
<1>1. ASSUME NEW m \in Msgs, Prompt(m) PROVE FateInv'
  <2>1. m \notin queue \cup turn \cup Settled \cup dropped /\ used' = used \cup {m}
        /\ UNCHANGED fateVars
    BY <1>1 DEF Prompt, FateInv
  <2>2. CASE working
    <3>1. queue' = queue \cup {m} /\ UNCHANGED <<pc, turn>>
      BY <1>1, <2>2 DEF Prompt, Enqueue
    <3> QED
      BY <2>1, <3>1 DEF FateInv, OneFate, Settled, Logged, fateVars
  <2>3. CASE ~working
    <3>1. turn' = {m} /\ UNCHANGED queue
      BY <1>1, <2>3 DEF Prompt, StartTurn
    <3> QED
      BY <2>1, <3>1 DEF FateInv, OneFate, Settled, Logged, fateVars
  <2> QED
    BY <2>2, <2>3
<1>2. ASSUME NEW m \in Msgs, Withdraw(m) PROVE FateInv'
  <2>1. m \in queue /\ queue' = queue \ {m} /\ withdrawn' = withdrawn \cup {m}
    BY <1>2 DEF Withdraw, PlainAgent
  <2>2. UNCHANGED <<pc, turn, used, logged, returned, rejected, dropped>>
    BY <1>2 DEF Withdraw
  <2> QED
    BY <2>1, <2>2 DEF FateInv, OneFate, Settled, Logged
<1>3. CASE PromptControl
  BY <1>3, QuietStep DEF PromptControl
<1>4. CASE Stop
  BY <1>4, ReturnStep DEF Stop
<1>5. CASE EchoTurn
  <2>1. turn \cap Logged = {} /\ turn \in SUBSET Msgs
    BY <1>5 DEF EchoTurn, FateInv, Settled, TypeOK
  <2>2. (\A m \in Msgs : logged'[m] <= 1) /\ Logged' = Logged \cup turn
    BY <1>5, <2>1, EchoCounts DEF EchoTurn, FateInv
  <2>3. /\ UNCHANGED <<turn, queue, used, returned, withdrawn, rejected, dropped>>
        /\ pc' = "opening" /\ pc \in {"storing", "taking"}
    BY <1>5 DEF EchoTurn
  <2> QED
    BY <2>2, <2>3 DEF FateInv, OneFate, Settled
<1>6. CASE FirstStoreFails
  BY <1>6 DEF FirstStoreFails, Finally, FateInv, OneFate, Settled, Logged
<1>7. CASE TakenStoreFails
  BY <1>7 DEF TakenStoreFails, ReturnQueue, Finally, FateInv, OneFate, Settled, Logged
<1>8. CASE SendTurn
  BY <1>8, QuietStep DEF SendTurn
<1>9. CASE OpenFails
  BY <1>9, ReturnStep DEF OpenFails, Finally
<1>10. CASE LeaveLoop
  BY <1>10, QuietStep DEF LeaveLoop, Finally
<1>11. CASE TurnAnswered
  <2>1. UNCHANGED fateVars /\ UNCHANGED used
    BY <1>11 DEF TurnAnswered, Receive, fateVars
  <2>2. queue' = {} /\ turn' = queue
    BY <1>11 DEF TurnAnswered, TakeQueuedTurn
  <2> QED
    BY <2>1, <2>2 DEF FateInv, OneFate, Settled, Logged, fateVars
<1>12. CASE TurnFailed
  BY <1>12, ReturnStep DEF TurnFailed, Finally, Receive
<1>13. CASE AgentStarts \/ AgentCancels
  BY <1>13, QuietStep DEF AgentStarts, AgentCancels, AgentReads
<1>14. CASE AgentEnds
  BY <1>14, QuietStep DEF AgentEnds
<1>15. CASE Disk \/ SessionOpens \/ StopReachesAgent
  BY <1>15, QuietStep DEF Disk, StoreDone, SessionOpens, StopReachesAgent
<1> QED
  BY <1>0, <1>1, <1>2, <1>3, <1>4, <1>5, <1>6, <1>7, <1>8, <1>9, <1>10, <1>11, <1>12, <1>13,
     <1>14, <1>15, PlainSteps DEF PlainNext, Loop

\* With an agent that has no queue of its own, a message has one fate, even when
\* attachments cannot be stored: it is run once, or handed back, or withdrawn, or
\* refused, and none of these while it waits.
THEOREM PlainOneFate ==
  ASSUME GGQueue = FALSE, Late = {}
  PROVE  Safety => []OneFate
<1>1. Init => FateInv
  BY DEF Init, FateInv, OneFate, Settled, Logged
<1>2. TypeOK /\ PlainAgent /\ FateInv /\ [Next]_vars => FateInv'
  BY FateStays
<1>3. FateInv => OneFate
  BY DEF FateInv
<1> QED
  BY <1>1, <1>2, <1>3, PlainInvariant, PTL DEF Safety

-----------------------------------------------------------------------------
(***************************************************************************)
(* The refinement.  A step of the detailed loop is one of MessageFate's,   *)
(* or moves no message and is a stutter.                                   *)
(***************************************************************************)
USE DEF Waiting

\* A step after which the same messages wait, and no fate changed, is a stutter.
LEMMA Stutter ==
  ASSUME UNCHANGED <<Waiting, logged, returned, withdrawn, rejected>>
  PROVE  UNCHANGED Fate!vars
  BY DEF Fate!vars, Logged

\* ReturnQueue is Return of what waits, or nothing waits and it is a stutter.
LEMMA ReturnRefines ==
  ASSUME FateInv, ReturnQueue, UNCHANGED <<logged, withdrawn, rejected>>,
         queue \subseteq Waiting, Waiting' = Waiting \ queue, queue \subseteq Msgs
  PROVE  [Fate!Next]_(Fate!vars)
<1>1. CASE queue = {}
  BY <1>1, Stutter DEF ReturnQueue
<1>2. CASE queue # {}
  <2>1. Fate!Return(queue)
    BY <1>2 DEF ReturnQueue, Fate!Return, Logged
  <2> QED
    BY <2>1 DEF Fate!Next
<1> QED
  BY <1>1, <1>2

\* Every step maps to a step of MessageFate or to a stutter.
LEMMA StepRefines ==
  ASSUME GGQueue = FALSE, TypeOK, PlainAgent, FateInv, StrandInv, [Next]_vars
  PROVE  [Fate!Next]_(Fate!vars)
<1> USE DEF userVars, loopVars, entryVars, agentVars, fateVars
<1>0. CASE UNCHANGED vars
  BY <1>0, Stutter DEF vars
<1>1. ASSUME NEW m \in Msgs, Prompt(m) PROVE [Fate!Next]_(Fate!vars)
  <2>1. m \notin Fate!Known /\ UNCHANGED <<logged, returned, withdrawn, rejected>>
    BY <1>1 DEF Prompt, FateInv, Fate!Known, Settled
  <2>2. Waiting' = Waiting \cup {m}
    <3>1. CASE working
      BY <1>1, <3>1 DEF Prompt, Enqueue
    <3>2. CASE ~working
      BY <1>1, <3>2 DEF Prompt, StartTurn, StrandInv, LoopShape
    <3> QED
      BY <3>1, <3>2
  <2>3. Fate!Accept(m)
    BY <2>1, <2>2 DEF Fate!Accept, Logged
  <2> QED
    BY <2>3 DEF Fate!Next
<1>2. ASSUME NEW m \in Msgs, Withdraw(m) PROVE [Fate!Next]_(Fate!vars)
  <2>1. /\ m \in queue /\ queue' = queue \ {m} /\ withdrawn' = withdrawn \cup {m}
        /\ UNCHANGED <<pc, turn, logged, returned, rejected>>
    BY <1>2 DEF Withdraw, PlainAgent
  <2>2. m \notin turn
    BY <2>1 DEF FateInv, OneFate
  <2>3. Fate!Withdraw(m)
    BY <2>1, <2>2 DEF Fate!Withdraw, Logged
  <2> QED
    BY <2>3 DEF Fate!Next
<1>3. CASE PromptControl
  BY <1>3, Stutter DEF PromptControl, StrandInv, LoopShape
<1>4. CASE Stop
  <2>1. UNCHANGED <<pc, turn, logged, withdrawn, rejected>> /\ ReturnQueue
    BY <1>4 DEF Stop
  <2>2. Waiting' = Waiting \ queue
    BY <2>1 DEF ReturnQueue, FateInv, OneFate
  <2> QED
    BY <2>1, <2>2, ReturnRefines DEF TypeOK
<1>5. CASE EchoTurn
  <2>1. /\ pc \in {"storing", "taking"} /\ pc' = "opening" /\ LogUserMessages(turn)
        /\ UNCHANGED <<turn, queue, returned, withdrawn, rejected>>
    BY <1>5 DEF EchoTurn
  <2>2. turn \cap Logged = {} /\ turn \in SUBSET Msgs /\ turn \cap queue = {}
    BY <2>1 DEF FateInv, OneFate, Settled, TypeOK
  <2>3. Logged' = Logged \cup turn
    BY <2>1, <2>2, EchoCounts DEF FateInv
  <2>4. Waiting' = Waiting \ turn /\ turn \subseteq Waiting
    BY <2>1, <2>2
  <2>5. CASE turn = {}
    BY <2>1, <2>3, <2>4, <2>5 DEF Fate!vars
  <2>6. CASE turn # {}
    <3>1. Fate!Run(turn)
      BY <2>1, <2>3, <2>4, <2>6 DEF Fate!Run
    <3> QED
      BY <3>1, <2>2 DEF Fate!Next
  <2> QED
    BY <2>5, <2>6
<1>6. ~FirstStoreFails /\ ~TakenStoreFails
  BY DEF FirstStoreFails, TakenStoreFails, StoreFailed, StrandInv, LoopShape, TypeOK
<1>7. CASE SendTurn
  BY <1>7, Stutter DEF SendTurn
<1>8. CASE OpenFails
  <2>1. /\ pc = "opening" /\ pc' = "idle" /\ ReturnQueue
        /\ UNCHANGED <<logged, withdrawn, rejected>>
    BY <1>8 DEF OpenFails, Finally
  <2>2. Waiting' = Waiting \ queue
    BY <2>1 DEF ReturnQueue
  <2> QED
    BY <2>1, <2>2, ReturnRefines DEF TypeOK
<1>9. CASE LeaveLoop
  BY <1>9, Stutter DEF LeaveLoop, Finally
<1>10. CASE TurnAnswered
  <2>1. pc = "prompting" /\ UNCHANGED <<logged, returned, withdrawn, rejected>>
    BY <1>10 DEF TurnAnswered, Receive
  <2>2. Waiting' = Waiting
    BY <1>10, <2>1 DEF TurnAnswered, TakeQueuedTurn
  <2> QED
    BY <2>1, <2>2, Stutter
<1>11. CASE TurnFailed
  <2>1. /\ pc = "prompting" /\ pc' = "idle" /\ ReturnQueue
        /\ UNCHANGED <<logged, withdrawn, rejected>>
    BY <1>11 DEF TurnFailed, Finally, Receive
  <2>2. Waiting' = Waiting \ queue
    BY <2>1 DEF ReturnQueue
  <2> QED
    BY <2>1, <2>2, ReturnRefines DEF TypeOK
<1>12. CASE AgentStarts \/ AgentCancels
  BY <1>12, Stutter DEF AgentStarts, AgentCancels, AgentReads
<1>13. CASE AgentEnds
  BY <1>13, Stutter DEF AgentEnds
<1>14. CASE Disk \/ SessionOpens \/ StopReachesAgent
  BY <1>14, Stutter DEF Disk, StoreDone, SessionOpens, StopReachesAgent
<1> QED
  BY <1>0, <1>1, <1>2, <1>3, <1>4, <1>5, <1>6, <1>7, <1>8, <1>9, <1>10, <1>11, <1>12, <1>13,
     <1>14, PlainSteps DEF PlainNext, Loop

\* With an agent that has no queue of its own and a disk that does not fail, the
\* turn loop implements MessageFate: what is accepted is settled at most once,
\* never from anywhere but waiting, and nothing waiting disappears.
THEOREM PlainImplementsFate ==
  ASSUME GGQueue = FALSE, Late = {}, DiskMayFail = FALSE
  PROVE  Safety => RefinesMessageFate
<1>1. Init => Fate!Init
  BY DEF Init, Fate!Init, Logged
<1>2. Init => FateInv /\ StrandInv
  BY DEF Init, FateInv, OneFate, Settled, Logged, StrandInv, NeverStranded, LoopShape
<1>3. TypeOK /\ PlainAgent /\ FateInv /\ StrandInv /\ [Next]_vars
      => FateInv' /\ StrandInv' /\ [Fate!Next]_(Fate!vars)
  BY FateStays, StrandStays, StepRefines
<1> QED
  BY <1>1, <1>2, <1>3, PlainInvariant, PTL DEF Safety, RefinesMessageFate, Fate!Safety
=============================================================================
