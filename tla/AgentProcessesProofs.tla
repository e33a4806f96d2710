------------------------ MODULE AgentProcessesProofs ------------------------
(***************************************************************************)
(* Proofs about AgentProcesses, for any directories and any bounds: who    *)
(* holds a process.                                                        *)
(*                                                                         *)
(* The invariant says where each process may be.  A process is booted in   *)
(* the background or for one conversation; a background boot is parked     *)
(* when it is up; a parked process is taken by one conversation, or goes   *)
(* to `retiring' while its probe holds it, or is closed.                   *)
(***************************************************************************)
EXTENDS AgentProcesses, SubsequencesProofs

States == {"booting", "up", "closed", "dead"}
Process == [state : States, dir : Dirs]

\* What the variables hold.
Shapes ==
    /\ proc \in Seq(Process)
    /\ chats \in Seq(Chat)
    /\ boots \subseteq Boot
    /\ borrowed \in Seq(Nat) /\ Len(borrowed) = Len(proc)
    /\ taken \subseteq Procs /\ ghosts \subseteq Ids
EntryShapes ==
    /\ released \in Seq(BOOLEAN) /\ armed \in 0 .. Len(released)
    /\ reads \in Seq(1 .. Len(released)) /\ lost \subseteq 1 .. Len(released)
    /\ enabled \in BOOLEAN /\ warming \in BOOLEAN /\ refreshing \in BOOLEAN /\ probed \in BOOLEAN

\* `recent' lists the open conversations, each once.
Orders(s, S) ==
    /\ s \in Seq(Nat) /\ ToSet(s) = S
    /\ \A i, j \in DOMAIN s : s[i] = s[j] => i = j
RecentInv == Orders(recent, Open)

\* A pool of spares, over the processes pr: at most one a directory, each a process of
\* its own that was booted there.
Pool(s, pr) ==
    /\ s \in Seq([proc : Nat, dir : Dirs]) /\ Len(s) <= MaxSpares
    /\ \A i, j \in DOMAIN s : s[i].dir = s[j].dir => i = j
    /\ \A i, j \in DOMAIN s : s[i].proc = s[j].proc => i = j
    /\ \A i \in DOMAIN s : s[i].proc \in DOMAIN pr /\ pr[s[i].proc].dir = s[i].dir
SparesInv == Pool(spares, proc)

\* A background boot has a process of its own, booted in its directory, which is parked
\* or taken only once it is up.
BootsInv ==
    /\ \A b \in boots : b.proc \in Procs /\ proc[b.proc].dir = b.dir
    /\ \A b, c \in boots : b.proc = c.proc => b = c
    /\ \A b \in boots : ~b.listing => b.proc \notin Parked \cup taken
    /\ Parked \cap taken = {}

\* Only a probe's list borrows a process.
Listed == {b.proc : b \in {x \in boots : x.listing}}
BorrowInv ==
    /\ \A p \in Procs : borrowed[p] = IF p \in Listed THEN 1 ELSE 0
    /\ \A p \in retiring : p \in Procs /\ borrowed[p] > 0

\* A conversation has a process from when it is adopting or spawning one until that
\* fails: its own, in its directory, not parked, and no background boot's unless taken.
Unserved == {"loading", "waiting", "failed"}
AgentInv ==
    /\ \A i \in Ids : chats[i].agent = 0 <=> chats[i].stage \in Unserved
    /\ \A i \in Ids : chats[i].agent # 0 =>
         /\ chats[i].agent \in Procs \ Parked
         /\ proc[chats[i].agent].dir = chats[i].dir
         /\ chats[i].agent \in taken \/ \A b \in boots : b.proc # chats[i].agent
    /\ \A i, j \in Ids : chats[i].agent # 0 /\ chats[i].agent = chats[j].agent => i = j

\* A conversation closed before its agent answered is among the ghosts.
GhostInv ==
    \A i \in Ids : ~chats[i].held /\ chats[i].stage \notin {"restoring", "done", "failed"} => i \in ghosts

\* A process that runs is parked or retiring, still being booted, or held by a
\* conversation that is open or a ghost.
StayInv ==
    \A p \in Procs : Running(p) =>
      \/ p \in Parked \cup retiring
      \/ \E b \in boots : b.proc = p /\ ~b.listing
      \/ \E i \in Ids : chats[i].agent = p /\ (chats[i].held \/ i \in ghosts)

-----------------------------------------------------------------------------
(***************************************************************************)
(* Processes keep their directory.                                         *)
(***************************************************************************)

\* pr holds every process there is, in its directory, and may hold more.
Keeps(pr) ==
    /\ pr \in Seq(Process) /\ Len(proc) <= Len(pr)
    /\ \A p \in Procs : p \in DOMAIN pr /\ pr[p].dir = proc[p].dir
\* pr holds nothing else, and what runs in it runs in proc.
Still(pr) ==
    /\ Keeps(pr) /\ Len(pr) = Len(proc)
    /\ \A p \in Procs : pr[p].state \in {"booting", "up"} => Running(p)

\* Closing processes leaves the others as they are.
LEMMA ClosedKeeps ==
  ASSUME Shapes, NEW S
  PROVE  /\ Still(Closed(S))
         /\ \A p \in Procs : Closed(S)[p].state \in {"booting", "up"} => p \notin S
         /\ \A p \in Procs : p \notin S => Closed(S)[p] = proc[p]
         /\ \A p \in Procs : p \in S => Closed(S)[p].state # "up"
<1>1. proc \in Seq(Process) /\ Procs = 1..Len(proc) /\ Len(proc) \in Nat
  BY DEF Shapes, Procs
<1>2. \A p \in Procs : proc[p] \in Process
  BY <1>1
<1>3. \A p \in Procs : /\ Closed(S)[p] = IF p \in S /\ Running(p)
                                        THEN [proc[p] EXCEPT !.state = "closed"] ELSE proc[p]
                       /\ Closed(S)[p] \in Process /\ Closed(S)[p].dir = proc[p].dir
                       /\ Closed(S)[p].state = IF p \in S /\ Running(p) THEN "closed" ELSE proc[p].state
  BY <1>2 DEF Closed, Process, States
<1>4. Closed(S) \in [1..Len(proc) -> Process]
  BY <1>1, <1>3 DEF Closed
<1>5. Closed(S) \in Seq(Process) /\ Len(Closed(S)) = Len(proc) /\ DOMAIN Closed(S) = Procs
  BY <1>1, <1>4
<1> QED
  BY <1>1, <1>3, <1>5 DEF Keeps, Still, Running

\* So does booting one more.
LEMMA SpawnKeeps ==
  ASSUME Shapes, NEW pr, Keeps(pr), NEW dir \in Dirs
  PROVE  /\ Keeps(Append(pr, Booting(dir))) /\ Len(Append(pr, Booting(dir))) = Len(pr) + 1
         /\ \A p \in DOMAIN pr : Append(pr, Booting(dir))[p] = pr[p]
         /\ Append(pr, Booting(dir))[Len(pr) + 1] = Booting(dir)
<1>1. Booting(dir) \in Process /\ pr \in Seq(Process) /\ DOMAIN pr = 1..Len(pr) /\ Len(pr) \in Nat
  BY DEF Keeps, Booting, Process, States
<1>2. Append(pr, Booting(dir)) \in Seq(Process)
  BY <1>1
<1>3. /\ Len(Append(pr, Booting(dir))) = Len(pr) + 1
      /\ \A p \in DOMAIN pr : p \in DOMAIN Append(pr, Booting(dir)) /\ Append(pr, Booting(dir))[p] = pr[p]
      /\ Append(pr, Booting(dir))[Len(pr) + 1] = Booting(dir)
  BY <1>1
<1>4. Len(proc) \in Nat
  BY DEF Shapes
<1> QED
  BY <1>1, <1>2, <1>3, <1>4 DEF Keeps

\* And a process that changes its state.
Turned(pr, p, st) == [pr EXCEPT ![p].state = st]
LEMMA StateKeeps ==
  ASSUME Shapes, NEW pr, Keeps(pr), NEW p \in DOMAIN pr, NEW st \in States
  PROVE  /\ Keeps(Turned(pr, p, st)) /\ Len(Turned(pr, p, st)) = Len(pr)
         /\ \A q \in DOMAIN pr : Turned(pr, p, st)[q].state = IF q = p THEN st ELSE pr[q].state
         /\ \A q \in DOMAIN pr : Turned(pr, p, st)[q].dir = pr[q].dir
<1> DEFINE new == Turned(pr, p, st)
<1>1. pr \in Seq(Process) /\ DOMAIN pr = 1..Len(pr) /\ Len(pr) \in Nat /\ DOMAIN new = DOMAIN pr
  BY DEF Keeps, Turned
<1>2. \A q \in DOMAIN pr : pr[q] \in Process
  BY <1>1
<1>3. \A q \in DOMAIN pr : /\ new[q] \in Process /\ new[q].dir = pr[q].dir
                           /\ new[q].state = IF q = p THEN st ELSE pr[q].state
  BY <1>2 DEF Process, Turned
<1>4. new \in [1..Len(pr) -> Process]
  BY <1>1, <1>3 DEF Turned
<1> HIDE DEF new
<1>5. new \in Seq(Process) /\ Len(new) = Len(pr)
  BY <1>1, <1>4
<1> QED
  BY <1>1, <1>3, <1>5 DEF Keeps, new

\* proc itself.
LEMMA ProcKeeps ==
  ASSUME Shapes
  PROVE  Still(proc)
BY DEF Shapes, Keeps, Still, Procs, Running

-----------------------------------------------------------------------------
(***************************************************************************)
(* The pool of spares.                                                     *)
(***************************************************************************)

ProcsOf(s) == {s[i].proc : i \in DOMAIN s}

\* A pool stays one while processes keep their directories.
LEMMA PoolMoves ==
  ASSUME Shapes, NEW s, Pool(s, proc), NEW pr, Keeps(pr)
  PROVE  Pool(s, pr)
BY DEF Pool, Keeps, Procs

\* What is kept of a pool is one.
LEMMA PoolKeep ==
  ASSUME NEW s, NEW pr, Pool(s, pr), NEW S
  PROVE  /\ Pool(Keep(s, S), pr) /\ Len(Keep(s, S)) <= Len(s) /\ Len(Keep(s, S)) \in Nat
         /\ ProcsOf(Keep(s, S)) = {x.proc : x \in ToSet(s) \cap S}
         /\ \A i \in DOMAIN Keep(s, S) : Keep(s, S)[i] \in ToSet(s) \cap S
<1> DEFINE t == Keep(s, S)
<1>1. s \in Seq([proc : Nat, dir : Dirs]) /\ Len(s) \in Nat /\ Len(s) <= MaxSpares
  BY DEF Pool
<1>2. t \in Seq([proc : Nat, dir : Dirs]) /\ Len(t) \in Nat /\ Len(t) <= Len(s)
  BY <1>1, KeepPicks
<1>3. ToSet(t) = ToSet(s) \cap S
  BY <1>1, KeepElements
<1>4. \A k, l \in DOMAIN t : k # l => \E i, j \in DOMAIN s : i # j /\ t[k] = s[i] /\ t[l] = s[j]
  BY <1>1, KeepApart
<1>5. \A k \in DOMAIN t : t[k] \in ToSet(s) \cap S
  BY <1>3 DEF ToSet
<1>6. \A k \in DOMAIN t : \E i \in DOMAIN s : t[k] = s[i]
  BY <1>5 DEF ToSet
<1> HIDE DEF t
<1>7. MaxSpares \in Nat
  BY ProcessBounds
<1>8. Len(t) <= MaxSpares
  BY <1>1, <1>2, <1>7
<1>9. \A k, l \in DOMAIN t : t[k].dir = t[l].dir => k = l
  BY <1>4 DEF Pool
<1>10. \A k, l \in DOMAIN t : t[k].proc = t[l].proc => k = l
  BY <1>4 DEF Pool
<1>11. \A k \in DOMAIN t : t[k].proc \in DOMAIN pr /\ pr[t[k].proc].dir = t[k].dir
  BY <1>6 DEF Pool
<1>12. Pool(t, pr)
  BY <1>2, <1>8, <1>9, <1>10, <1>11 DEF Pool
<1>13. ProcsOf(t) = {x.proc : x \in ToSet(t)}
  BY DEF ProcsOf, ToSet
<1> QED
  BY <1>2, <1>3, <1>5, <1>12, <1>13 DEF t

\* takeSpare takes one process out.
LEMMA TakeOutPool ==
  ASSUME SparesInv, NEW p
  PROVE  Pool(TakeOut(p), proc) /\ ProcsOf(TakeOut(p)) = Parked \ {p}
<1> DEFINE S == {s \in ToSet(spares) : s.proc # p}
<1>1. TakeOut(p) = Keep(spares, S)
  BY DEF TakeOut
<1>2. {x.proc : x \in ToSet(spares) \cap S} = Parked \ {p}
  BY DEF ToSet, Parked
<1> HIDE DEF S
<1> QED
  BY <1>1, <1>2, PoolKeep DEF SparesInv

\* takeSpare finds a process of the directory asked for.
LEMMA SpareForParked ==
  ASSUME SparesInv, NEW dir, SpareFor(dir) # <<>>
  PROVE  SpareFor(dir)[1].proc \in Parked /\ proc[SpareFor(dir)[1].proc].dir = dir
<1> DEFINE S == {s \in ToSet(spares) : s.dir = dir}
           t == Keep(spares, S)
<1>1. SpareFor(dir) = t
  BY DEF SpareFor
<1> HIDE DEF S
<1>2. Pool(t, proc) /\ \A i \in DOMAIN t : t[i] \in ToSet(spares) \cap S
  BY PoolKeep DEF SparesInv
<1>3. t \in Seq([proc : Nat, dir : Dirs])
  <2> HIDE DEF t
  <2> QED
    BY <1>2 DEF Pool
<1>4. 1 \in DOMAIN t
  <2> HIDE DEF t
  <2> QED
    BY <1>1, <1>3
<1>5. t[1] \in ToSet(spares) /\ t[1].dir = dir
  BY <1>2, <1>4 DEF S
<1>6. PICK i \in DOMAIN spares : t[1] = spares[i]
  BY <1>5 DEF ToSet
<1> HIDE DEF t
<1>7. SpareFor(dir)[1] = spares[i] /\ spares[i].dir = dir
  BY <1>1, <1>5, <1>6
<1>8. proc[spares[i].proc].dir = spares[i].dir /\ spares[i].proc \in Parked
  BY DEF SparesInv, Pool, Parked
<1> QED
  BY <1>7, <1>8

\* The larger of two numbers.
LEMMA MaxOfTwo ==
  ASSUME NEW a \in Int, NEW b \in Int
  PROVE  Max({a, b}) \in Int /\ Max({a, b}) >= a /\ Max({a, b}) >= b
<1>1. \E x \in {a, b} : \A y \in {a, b} : x >= y
  <2>1. CASE a >= b
    BY <2>1
  <2>2. CASE ~(a >= b)
    BY <2>2
  <2> QED
    BY <2>1, <2>2
<1> QED
  BY <1>1 DEF Max

\* The end of a sequence.
LEMMA SubSeqEnd ==
  ASSUME NEW T, NEW s \in Seq(T), NEW m \in Int, m >= 1, m <= Len(s)
  PROVE  /\ SubSeq(s, m, Len(s)) \in Seq(T) /\ Len(SubSeq(s, m, Len(s))) = Len(s) - m + 1
         /\ \A k \in 1 .. Len(s) - m + 1 : SubSeq(s, m, Len(s))[k] = s[m + k - 1]
OBVIOUS

\* stashSpare parks a process: what is no longer parked is put out.
LEMMA StashPool ==
  ASSUME SparesInv, NEW p \in Procs \ Parked, proc[p].dir \in Dirs, p \in Nat
  PROVE  /\ Pool(Stash(p, proc[p].dir).pool, proc)
         /\ Stash(p, proc[p].dir).out \subseteq Parked
         /\ ProcsOf(Stash(p, proc[p].dir).pool) = (Parked \ Stash(p, proc[p].dir).out) \cup {p}
<1> DEFINE dir == proc[p].dir
           S == {s \in ToSet(spares) : s.dir # dir}
           others == Keep(spares, S)
           from == Max({1, Len(others) + 2 - MaxSpares})
           kept == SubSeq(others, from, Len(others))
           new == [proc |-> p, dir |-> dir]
           T == [proc : Nat, dir : Dirs]
<1>1. /\ Stash(p, dir).pool = Append(kept, new)
      /\ Stash(p, dir).out = Parked \ ProcsOf(kept)
  BY DEF Stash, ProcsOf
<1>2. /\ Pool(others, proc) /\ Len(others) \in Nat
      /\ \A i \in DOMAIN others : others[i] \in ToSet(spares) /\ others[i].dir # dir
  BY PoolKeep DEF SparesInv
<1>3. MaxSpares \in Nat /\ MaxSpares >= 1
  BY ProcessBounds
<1>4. from \in Int /\ from >= 1 /\ from >= Len(others) + 2 - MaxSpares
  <2>1. 1 \in Int /\ Len(others) + 2 - MaxSpares \in Int
    BY <1>2, <1>3
  <2> HIDE DEF others
  <2> QED
    BY <2>1, MaxOfTwo
<1> HIDE DEF others, from
<1>5. others \in Seq(T) /\ DOMAIN others = 1..Len(others)
  BY <1>2 DEF Pool
<1>6. kept \in Seq(T) /\ Len(kept) \in Nat /\ Len(kept) + 1 <= MaxSpares
  <2>1. CASE from > Len(others)
    <3>1. kept = <<>>
      BY <1>2, <1>4, <1>5, <2>1
    <3> QED
      BY <1>3, <3>1
  <2>2. CASE from <= Len(others)
    <3>1. Len(kept) = Len(others) - from + 1
      BY <1>2, <1>4, <1>5, <2>2
    <3>2. kept \in Seq(T)
      <4> HIDE DEF T
      <4> QED
        BY <1>4, <1>5, <2>2, SubSeqEnd
    <3> QED
      BY <1>2, <1>3, <1>4, <2>2, <3>1, <3>2
  <2> QED
    BY <1>2, <1>4, <2>1, <2>2
<1>7. \A k \in DOMAIN kept : /\ k \in Nat /\ from + k - 1 \in DOMAIN others
                             /\ kept[k] = others[from + k - 1]
  <2>1. CASE from > Len(others)
    <3>1. kept = <<>>
      BY <1>2, <1>4, <1>5, <2>1
    <3> QED
      BY <3>1
  <2>2. CASE from <= Len(others)
    <3>1. Len(kept) = Len(others) - from + 1 /\ DOMAIN kept = 1..Len(kept)
      BY <1>2, <1>4, <1>5, <2>2
    <3>2. \A k \in DOMAIN kept : kept[k] = others[from + k - 1]
      BY <1>2, <1>4, <1>5, <2>2, <3>1
    <3> QED
      BY <1>2, <1>4, <1>5, <2>2, <3>1, <3>2
  <2> QED
    BY <1>2, <1>4, <2>1, <2>2
<1> HIDE DEF kept
<1>8. \A k, l \in DOMAIN kept : k # l =>
        \E i, j \in DOMAIN others : i # j /\ kept[k] = others[i] /\ kept[l] = others[j]
  <2> SUFFICES ASSUME NEW k \in DOMAIN kept, NEW l \in DOMAIN kept, k # l
               PROVE  from + k - 1 # from + l - 1
    BY <1>7
  <2> QED
    BY <1>4, <1>7
<1>9. \A k \in DOMAIN kept : /\ kept[k].dir # dir /\ kept[k].proc \in Parked
                             /\ kept[k].proc \in Procs /\ proc[kept[k].proc].dir = kept[k].dir
  <2> SUFFICES ASSUME NEW k \in DOMAIN kept
               PROVE  /\ kept[k].dir # dir /\ kept[k].proc \in Parked
                      /\ kept[k].proc \in Procs /\ proc[kept[k].proc].dir = kept[k].dir
    OBVIOUS
  <2>1. kept[k] \in ToSet(spares) /\ kept[k].dir # dir
    BY <1>2, <1>7
  <2> QED
    BY <2>1 DEF ToSet, Parked, SparesInv, Pool, Procs
<1>10. \A k, l \in DOMAIN kept : k # l => kept[k].dir # kept[l].dir /\ kept[k].proc # kept[l].proc
  BY <1>2, <1>8 DEF Pool
<1> DEFINE pool == Append(kept, new)
<1>11. new \in T /\ new.proc = p /\ new.dir = dir
  OBVIOUS
<1> HIDE DEF new
<1>12. pool \in Seq(T) /\ Len(pool) = Len(kept) + 1 /\ DOMAIN pool = 1 .. Len(kept) + 1
  BY <1>6, <1>11
<1>13. /\ \A k \in DOMAIN kept : k \in DOMAIN pool /\ pool[k] = kept[k]
       /\ pool[Len(kept) + 1] = new
       /\ \A k \in DOMAIN pool : k \in DOMAIN kept \/ k = Len(kept) + 1
       /\ Len(kept) + 1 \in DOMAIN pool
  BY <1>6, <1>11, <1>12
<1> HIDE DEF pool
<1>14. \A k \in DOMAIN pool : pool[k].proc \in DOMAIN proc /\ proc[pool[k].proc].dir = pool[k].dir
  BY <1>9, <1>11, <1>13 DEF Procs
<1>15. \A k, l \in DOMAIN pool : k # l => pool[k].dir # pool[l].dir /\ pool[k].proc # pool[l].proc
  <2>1. \A k \in DOMAIN kept : kept[k].dir # dir /\ kept[k].proc # p
    BY <1>9
  <2> QED
    BY <1>10, <1>11, <1>13, <2>1
<1>16. Pool(pool, proc)
  BY <1>6, <1>12, <1>14, <1>15 DEF Pool
<1>17. ProcsOf(kept) \subseteq Parked
  BY <1>9 DEF ProcsOf
<1>18. ProcsOf(pool) = ProcsOf(kept) \cup {p}
  BY <1>11, <1>13 DEF ProcsOf
<1> QED
  BY <1>1, <1>16, <1>17, <1>18 DEF pool

-----------------------------------------------------------------------------
(***************************************************************************)
(* Conversations and their order.                                          *)
(***************************************************************************)

\* A sequence of conversations in place of chats: each has the agent and the directory
\* it had, and is served or not as it was.
Alike(c) ==
    /\ c \in Seq(Chat) /\ Len(c) = Len(chats)
    /\ \A i \in Ids : /\ i \in DOMAIN c /\ c[i].agent = chats[i].agent /\ c[i].dir = chats[i].dir
                      /\ c[i].stage \in Unserved <=> chats[i].stage \in Unserved

\* chats itself.
LEMMA ChatTypes ==
  ASSUME Shapes
  PROVE  /\ Ids = 1..Len(chats) /\ Len(chats) \in Nat /\ \A i \in Ids : chats[i] \in Chat
         /\ Alike(chats)
BY DEF Shapes, Ids, Alike

\* Closing conversations.
LEMMA ClosingChats ==
  ASSUME Shapes, NEW S
  PROVE  /\ Alike(Closing(S))
         /\ \A i \in Ids : /\ Closing(S)[i].stage = chats[i].stage
                           /\ Closing(S)[i].held = (chats[i].held /\ i \notin S)
<1>1. Ids = 1..Len(chats) /\ Len(chats) \in Nat /\ \A i \in Ids : chats[i] \in Chat
  BY ChatTypes
<1>2. \A i \in Ids : /\ Closing(S)[i] \in Chat /\ Closing(S)[i].agent = chats[i].agent
                     /\ Closing(S)[i].dir = chats[i].dir /\ Closing(S)[i].stage = chats[i].stage
                     /\ Closing(S)[i].held = (chats[i].held /\ i \notin S)
  <2> SUFFICES ASSUME NEW i \in Ids
               PROVE  /\ Closing(S)[i] \in Chat /\ Closing(S)[i].agent = chats[i].agent
                      /\ Closing(S)[i].dir = chats[i].dir /\ Closing(S)[i].stage = chats[i].stage
                      /\ Closing(S)[i].held = (chats[i].held /\ i \notin S)
    OBVIOUS
  <2>1. chats[i].held \in BOOLEAN
    BY <1>1 DEF Chat
  <2>2. CASE i \in S
    <3>1. Closing(S)[i] = [chats[i] EXCEPT !.held = FALSE, !.working = FALSE, !.blocked = FALSE]
      BY <2>2 DEF Closing
    <3> QED
      BY <1>1, <2>2, <3>1 DEF Chat
  <2>3. CASE i \notin S
    <3>1. Closing(S)[i] = chats[i]
      BY <2>3 DEF Closing
    <3> QED
      BY <1>1, <2>1, <2>3, <3>1
  <2> QED
    BY <2>2, <2>3
<1>3. Closing(S) \in [1..Len(chats) -> Chat]
  <2>1. Closing(S) = [i \in Ids |-> Closing(S)[i]]
    BY DEF Closing
  <2> QED
    BY <1>1, <1>2, <2>1
<1>4. Closing(S) \in Seq(Chat) /\ Len(Closing(S)) = Len(chats) /\ DOMAIN Closing(S) = Ids
  BY <1>1, <1>3
<1> QED
  BY <1>2, <1>4 DEF Alike

\* Changing one conversation.
LEMMA OneChat ==
  ASSUME Shapes, NEW i \in Ids, NEW c \in Chat
  PROVE  /\ [chats EXCEPT ![i] = c] \in Seq(Chat) /\ Len([chats EXCEPT ![i] = c]) = Len(chats)
         /\ DOMAIN [chats EXCEPT ![i] = c] = Ids
         /\ \A j \in Ids : [chats EXCEPT ![i] = c][j] = IF j = i THEN c ELSE chats[j]
<1>1. Ids = 1..Len(chats) /\ Len(chats) \in Nat /\ chats \in Seq(Chat)
  BY ChatTypes DEF Shapes
<1> QED
  BY <1>1

\* Changing neither its agent nor whether it is served.
LEMMA OneAlike ==
  ASSUME Shapes, NEW i \in Ids, NEW c \in Chat,
         c.agent = chats[i].agent, c.dir = chats[i].dir,
         c.stage \in Unserved <=> chats[i].stage \in Unserved
  PROVE  Alike([chats EXCEPT ![i] = c])
BY OneChat DEF Alike

\* Changing one element of a sequence.
LEMMA ExceptSeq ==
  ASSUME NEW T, NEW s \in Seq(T), NEW i \in DOMAIN s, NEW e \in T
  PROVE  /\ [s EXCEPT ![i] = e] \in Seq(T) /\ Len([s EXCEPT ![i] = e]) = Len(s)
         /\ \A j \in DOMAIN s : [s EXCEPT ![i] = e][j] = IF j = i THEN e ELSE s[j]
OBVIOUS

\* One more conversation.
LEMMA NewChatAt ==
  ASSUME Shapes, NEW cs, Alike(cs), NEW c \in Chat
  PROVE  /\ Append(cs, c) \in Seq(Chat) /\ Len(Append(cs, c)) = Len(chats) + 1
         /\ DOMAIN Append(cs, c) = Ids \cup {Len(chats) + 1} /\ Len(chats) + 1 \notin Ids
         /\ \A j \in Ids : Append(cs, c)[j] = cs[j]
         /\ Append(cs, c)[Len(chats) + 1] = c
<1>1. Ids = 1..Len(chats) /\ Len(chats) \in Nat /\ cs \in Seq(Chat) /\ Len(cs) = Len(chats)
  BY ChatTypes DEF Alike
<1> QED
  BY <1>1

\* Leaving conversations out of `recent'.
LEMMA WithoutOrders ==
  ASSUME RecentInv, NEW S
  PROVE  Orders(Without(S), Open \ S)
<1>1. recent \in Seq(Nat) /\ ToSet(recent) = Open
  BY DEF RecentInv, Orders
<1>2. Without(S) \in Seq(Nat)
  BY <1>1, KeepPicks DEF Without
<1>3. ToSet(Without(S)) = Open \ S
  BY <1>1, KeepElements DEF Without
<1>4. \A k, l \in DOMAIN Without(S) : k # l => Without(S)[k] # Without(S)[l]
  <2>1. \A k, l \in DOMAIN Without(S) : k # l =>
          \E i, j \in DOMAIN recent : i # j /\ Without(S)[k] = recent[i] /\ Without(S)[l] = recent[j]
    BY <1>1, KeepApart DEF Without
  <2> QED
    BY <2>1 DEF RecentInv, Orders
<1> QED
  BY <1>2, <1>3, <1>4 DEF Orders

\* And putting one last.
LEMMA AppendOrders ==
  ASSUME NEW s, NEW S, Orders(s, S), NEW x \in Nat \ S
  PROVE  Orders(Append(s, x), S \cup {x})
<1>1. s \in Seq(Nat) /\ DOMAIN s = 1..Len(s) /\ Len(s) \in Nat
  BY DEF Orders
<1> DEFINE t == Append(s, x)
<1>2. t \in Seq(Nat) /\ DOMAIN t = 1 .. Len(s) + 1
  BY <1>1
<1>3. \A k \in DOMAIN s : k \in DOMAIN t /\ t[k] = s[k] /\ t[k] # x
  BY <1>1 DEF Orders, ToSet
<1>4. t[Len(s) + 1] = x /\ Len(s) + 1 \in DOMAIN t
  BY <1>1
<1>5. \A k \in DOMAIN t : k \in DOMAIN s \/ k = Len(s) + 1
  BY <1>1, <1>2
<1> HIDE DEF t
<1>6. ToSet(t) = S \cup {x}
  BY <1>3, <1>4, <1>5 DEF Orders, ToSet
<1>7. \A k, l \in DOMAIN t : t[k] = t[l] => k = l
  BY <1>3, <1>4, <1>5 DEF Orders
<1> QED
  BY <1>2, <1>6, <1>7 DEF Orders, t

\* touchSession puts an open conversation last.
LEMMA TouchOrders ==
  ASSUME Shapes, RecentInv, NEW i \in Ids, Touch(i)
  PROVE  Orders(recent', Open)
<1>1. CASE chats[i].held
  <2>1. recent' = Append(Without({i}), i)
    BY <1>1 DEF Touch
  <2>2. i \in Open /\ i \in Nat
    BY <1>1, ChatTypes DEF Open
  <2>3. Orders(Without({i}), Open \ {i})
    BY WithoutOrders
  <2>4. i \in Nat \ (Open \ {i}) /\ (Open \ {i}) \cup {i} = Open
    BY <2>2
  <2>5. Orders(Append(Without({i}), i), (Open \ {i}) \cup {i})
    BY <2>3, <2>4, AppendOrders
  <2> QED
    BY <2>1, <2>4, <2>5
<1>2. CASE ~chats[i].held
  BY <1>2 DEF Touch, RecentInv
<1> QED
  BY <1>1, <1>2

\* The smaller of two numbers.
LEMMA MinOfTwo ==
  ASSUME NEW a \in Int, NEW b \in Int
  PROVE  Min({a, b}) \in Int /\ Min({a, b}) <= a /\ Min({a, b}) <= b
<1>1. \E x \in {a, b} : \A y \in {a, b} : x <= y
  <2>1. CASE a <= b
    BY <2>1
  <2>2. CASE ~(a <= b)
    BY <2>2
  <2> QED
    BY <2>1, <2>2
<1> QED
  BY <1>1 DEF Min

\* enforceSessionCap closes open conversations that have their agent.
LEMMA ExcessClosable ==
  ASSUME RecentInv, NEW size \in Int
  PROVE  \A i \in Excess(size) : i \in Open /\ Named(i)
<1> DEFINE may == Keep(recent, {i \in Open : Closable(i)})
           n == Min({Len(may), Max({0, size - MaxLive})})
<1>1. Excess(size) = ToSet(SubSeq(may, 1, n))
  BY DEF Excess
<1>2. recent \in Seq(Nat)
  BY DEF RecentInv, Orders
<1>3. may \in Seq(Nat) /\ Len(may) \in Nat /\ ToSet(may) = ToSet(recent) \cap {x \in Open : Closable(x)}
  BY <1>2, KeepPicks, KeepElements
<1>4. n \in Int /\ n <= Len(may)
  <2>1. MaxLive \in Int /\ size - MaxLive \in Int
    BY ProcessBounds
  <2>2. Max({0, size - MaxLive}) \in Int
    BY <2>1, MaxOfTwo
  <2>3. Len(may) \in Int
    BY <1>3
  <2> DEFINE m == Len(may)
             x == Max({0, size - MaxLive})
  <2>4. m \in Int /\ x \in Int /\ n = Min({m, x})
    BY <2>2, <2>3
  <2> HIDE DEF m, x, n
  <2>5. n \in Int /\ n <= m
    BY <2>4, MinOfTwo
  <2> QED
    BY <2>5 DEF m
<1>5. \A i \in ToSet(may) : i \in Open /\ Named(i)
  BY <1>3 DEF Closable
<1> HIDE DEF may, n
<1>6. \A k \in DOMAIN SubSeq(may, 1, n) : SubSeq(may, 1, n)[k] \in ToSet(may)
  <2>1. DOMAIN may = 1..Len(may)
    BY <1>3
  <2>2. CASE n >= 1
    <3>1. DOMAIN SubSeq(may, 1, n) = 1..n /\ \A k \in 1..n : SubSeq(may, 1, n)[k] = may[k]
      BY <1>3, <1>4, <2>2
    <3> QED
      BY <1>3, <1>4, <2>1, <3>1 DEF ToSet
  <2>3. CASE n < 1
    <3>1. DOMAIN SubSeq(may, 1, n) = {}
      BY <1>3, <1>4, <2>3
    <3> QED
      BY <3>1
  <2> QED
    BY <1>4, <2>2, <2>3
<1>7. \A i \in ToSet(SubSeq(may, 1, n)) : i \in ToSet(may)
  BY <1>6 DEF ToSet
<1> QED
  BY <1>1, <1>5, <1>7

\* How many conversations are open is a number.
LEMMA OpenCount ==
  ASSUME Shapes
  PROVE  IsFiniteSet(Open) /\ Cardinality(Open) \in Nat
<1>1. Open \in SUBSET (1..Len(chats)) /\ Len(chats) \in Nat
  BY ChatTypes DEF Open
<1>2. IsFiniteSet(1..Len(chats))
  BY <1>1, FS_Interval
<1>3. IsFiniteSet(Open)
  BY <1>1, <1>2, FS_Subset
<1> QED
  BY <1>3, FS_CardinalityType

-----------------------------------------------------------------------------
(***************************************************************************)
(* The invariant, and the kinds of step there are.                         *)
(***************************************************************************)

HoldInv ==
    /\ Shapes /\ RecentInv /\ SparesInv /\ BootsInv /\ BorrowInv /\ AgentInv
    /\ ProbeKeepsItsProcess /\ GhostInv /\ StayInv

\* The process of a conversation that has one.
LEMMA ServedProc ==
  ASSUME Shapes, AgentInv, NEW i \in Ids, chats[i].stage \notin Unserved
  PROVE  chats[i].agent # 0 /\ chats[i].agent \in Procs /\ chats[i].agent \notin Parked
BY DEF AgentInv

\* What runs after a step that boots nothing ran before.
LEMMA StillRuns ==
  ASSUME Shapes, Still(proc')
  PROVE  /\ Procs' = Procs /\ Keeps(proc') /\ Ids = 1..Len(chats)
         /\ \A p \in Procs : Running(p)' => Running(p)
<1>1. proc' \in Seq(Process) /\ Len(proc') = Len(proc) /\ proc \in Seq(Process)
  BY DEF Still, Keeps, Shapes
<1>2. Procs' = Procs
  BY <1>1 DEF Procs
<1> QED
  BY <1>2, ChatTypes DEF Still, Running

\* A step that boots nothing and takes nothing: processes may stop, spares be retired,
\* background boots end, conversations be closed.
LEMMA CalmKeeps ==
  ASSUME HoldInv, Still(proc'), Alike(chats'), ghosts \subseteq ghosts', ghosts' \subseteq Ids,
         Orders(recent', Open'), borrowed' \in Seq(Nat), Len(borrowed') = Len(borrowed), BorrowInv',
         Pool(spares', proc), Parked' \subseteq Parked, boots' \subseteq boots, taken' = taken,
         \A i \in Ids : chats'[i].stage \notin {"restoring", "done", "failed"}
                          => chats[i].stage \notin {"restoring", "done", "failed"},
         \A i \in Ids : chats[i].held /\ ~chats'[i].held
                          => i \in ghosts' \/ (Named(i) /\ ~Running(chats[i].agent)'),
         \A p \in Procs : proc'[p].state = "closed"
                            => proc[p].state = "closed" \/ p \in Handles(Ids) \/ p \notin Listed',
         \A p \in Procs : Running(p)' /\ p \in Parked \cup retiring => p \in Parked' \cup retiring',
         \A b \in boots : ~b.listing /\ Running(b.proc)' => b \in boots'
  PROVE  HoldInv'
<1> USE DEF HoldInv
<1>1. /\ Procs' = Procs /\ Keeps(proc')
      /\ \A p \in Procs : Running(p)' => Running(p)
  BY StillRuns
<1>2. Ids' = Ids /\ \A i \in Ids : chats[i] \in Chat
  BY ChatTypes DEF Alike, Ids
<1>3. \A i \in Ids : /\ chats'[i].agent = chats[i].agent /\ chats'[i].dir = chats[i].dir
                     /\ chats'[i].stage \in Unserved <=> chats[i].stage \in Unserved
  BY DEF Alike
<1>4. Shapes'
  <2>1. proc' \in Seq(Process) /\ chats' \in Seq(Chat) /\ Len(proc') = Len(proc)
    BY DEF Alike, Still, Keeps
  <2>2. boots' \subseteq Boot /\ taken' \subseteq Procs' /\ ghosts' \subseteq Ids'
    BY <1>1, <1>2 DEF Shapes
  <2>3. Len(borrowed') = Len(proc')
    BY <2>1 DEF Shapes
  <2> QED
    BY <2>1, <2>2, <2>3 DEF Shapes
<1>5. RecentInv'
  BY DEF RecentInv
<1>6. SparesInv'
  <2>1. Pool(spares', proc')
    BY <1>1, PoolMoves
  <2> QED
    BY <2>1 DEF SparesInv, Pool
<1>7. BootsInv'
  <2>1. \A b \in boots' : b.proc \in Procs' /\ proc'[b.proc].dir = b.dir
    BY <1>1 DEF BootsInv, Keeps
  <2>2. \A b, c \in boots' : b.proc = c.proc => b = c
    BY DEF BootsInv
  <2>3. \A b \in boots' : ~b.listing => b.proc \notin Parked' \cup taken'
    BY DEF BootsInv
  <2>4. Parked' \cap taken' = {}
    BY DEF BootsInv
  <2> QED
    BY <2>1, <2>2, <2>3, <2>4 DEF BootsInv
<1>8. AgentInv'
  <2>1. \A i \in Ids' : chats'[i].agent = 0 <=> chats'[i].stage \in Unserved
    BY <1>2, <1>3 DEF AgentInv
  <2>2. \A i \in Ids' : chats'[i].agent # 0 =>
           /\ chats'[i].agent \in Procs' \ Parked'
           /\ proc'[chats'[i].agent].dir = chats'[i].dir
    BY <1>1, <1>2, <1>3 DEF AgentInv, Keeps
  <2>3. \A i \in Ids' : chats'[i].agent # 0 =>
           chats'[i].agent \in taken' \/ \A b \in boots' : b.proc # chats'[i].agent
    BY <1>2, <1>3 DEF AgentInv
  <2>4. \A i, j \in Ids' : chats'[i].agent # 0 /\ chats'[i].agent = chats'[j].agent => i = j
    BY <1>2, <1>3 DEF AgentInv
  <2> QED
    BY <2>1, <2>2, <2>3, <2>4 DEF AgentInv
<1>9. ProbeKeepsItsProcess'
  <2> SUFFICES ASSUME NEW b \in boots', b.listing, proc'[b.proc].state = "closed"
               PROVE  b.proc \in taken
    BY DEF ProbeKeepsItsProcess
  <2>1. b \in boots /\ b.proc \in Procs /\ b.proc \in Listed'
    BY DEF BootsInv, Listed
  <2>2. CASE proc[b.proc].state = "closed"
    BY <2>1, <2>2 DEF ProbeKeepsItsProcess
  <2>3. CASE b.proc \in Handles(Ids)
    <3>1. PICK i \in Ids : Named(i) /\ chats[i].agent = b.proc
      BY <2>3 DEF Handles
    <3>2. chats[i].agent # 0
      BY <3>1, ServedProc DEF Named, Unserved
    <3> QED
      BY <2>1, <3>1, <3>2 DEF AgentInv
  <2> QED
    BY <2>1, <2>2, <2>3
<1>10. GhostInv'
  <2> SUFFICES ASSUME NEW i \in Ids, ~chats'[i].held,
                      chats'[i].stage \notin {"restoring", "done", "failed"}
               PROVE  i \in ghosts'
    BY <1>2 DEF GhostInv
  <2>1. chats[i].stage \notin {"restoring", "done", "failed"} /\ ~Named(i)
    BY DEF Named
  <2> QED
    BY <2>1 DEF GhostInv
<1>11. StayInv'
  <2> SUFFICES ASSUME NEW p \in Procs, Running(p)'
               PROVE  \/ p \in Parked' \cup retiring'
                      \/ \E b \in boots' : b.proc = p /\ ~b.listing
                      \/ \E i \in Ids : chats'[i].agent = p /\ (chats'[i].held \/ i \in ghosts')
    BY <1>1, <1>2 DEF StayInv
  <2>1. Running(p)
    BY <1>1
  <2>2. CASE \E i \in Ids : chats[i].agent = p /\ (chats[i].held \/ i \in ghosts)
    BY <1>3, <2>2
  <2>3. CASE \E b \in boots : b.proc = p /\ ~b.listing
    BY <2>3
  <2> QED
    BY <2>1, <2>2, <2>3 DEF StayInv
<1> QED
  BY <1>4, <1>5, <1>6, <1>7, <1>8, <1>9, <1>10, <1>11

\* The next process is none there is.
LEMMA NextProcess ==
  ASSUME HoldInv
  PROVE  /\ Next1 \in Nat /\ Next1 # 0 /\ Next1 \notin Procs /\ Len(proc) \in Nat /\ Procs = 1..Len(proc)
         /\ Next1 \notin Parked /\ Next1 \notin taken /\ Next1 \notin Listed /\ Next1 \notin retiring
         /\ \A b \in boots : b.proc # Next1
         /\ \A i \in Ids : chats[i].agent # Next1
<1>1. Len(proc) \in Nat /\ Procs = 1..Len(proc)
  BY DEF HoldInv, Shapes, Procs
<1>2. Next1 \in Nat /\ Next1 # 0 /\ Next1 \notin Procs
  BY <1>1 DEF Next1
<1>3. Next1 \notin Parked /\ Next1 \notin taken /\ Next1 \notin retiring
  BY <1>2 DEF HoldInv, SparesInv, Pool, Parked, Procs, Shapes, BorrowInv
<1>4. \A b \in boots : b.proc # Next1
  BY <1>2 DEF HoldInv, BootsInv
<1>5. \A i \in Ids : chats[i].agent # Next1
  BY <1>2 DEF HoldInv, AgentInv
<1>6. Next1 \notin Listed
  BY <1>4 DEF Listed
<1> QED
  BY <1>1, <1>2, <1>3, <1>4, <1>5, <1>6

\* A step that boots a process in the background.
LEMMA BootKeeps ==
  ASSUME HoldInv, NEW dir \in Dirs, Spawn(dir), NEW b \in Boot, b.proc = Next1, b.dir = dir,
         ~b.listing, boots' = boots \cup {b}, UNCHANGED <<spares, retiring, taken, ghosts, recent>>,
         Alike(chats'), \A i \in Ids : chats'[i].held = chats[i].held,
         \A i \in Ids : chats'[i].stage \notin {"restoring", "done", "failed"}
                          => chats[i].stage \notin {"restoring", "done", "failed"}
  PROVE  HoldInv'
<1> USE DEF HoldInv
<1>1. /\ Next1 \in Nat /\ Next1 # 0 /\ Next1 \notin Procs /\ Len(proc) \in Nat /\ Procs = 1..Len(proc)
      /\ Next1 \notin Parked /\ Next1 \notin taken /\ Next1 \notin Listed /\ Next1 \notin retiring
      /\ \A c \in boots : c.proc # Next1
      /\ \A i \in Ids : chats[i].agent # Next1
  BY NextProcess
<1>2. /\ Keeps(proc') /\ Len(proc') = Len(proc) + 1
      /\ \A p \in Procs : proc'[p] = proc[p]
      /\ proc'[Next1] = Booting(dir)
  <2>1. Keeps(proc) /\ Procs = DOMAIN proc /\ Next1 = Len(proc) + 1
    BY ProcKeeps DEF Still, Procs, Next1
  <2> QED
    BY <2>1, SpawnKeeps DEF Spawn
<1>3. Procs' = Procs \cup {Next1} /\ proc'[Next1].dir = dir /\ \A p \in Procs : Running(p)' => Running(p)
  BY <1>1, <1>2 DEF Keeps, Procs, Next1, Booting, Running
<1>4. Ids' = Ids /\ Parked' = Parked /\ \A i \in Ids : chats[i] \in Chat
  BY ChatTypes DEF Alike, Ids, Parked
<1>5. \A i \in Ids : /\ chats'[i].agent = chats[i].agent /\ chats'[i].dir = chats[i].dir
                     /\ chats'[i].stage \in Unserved <=> chats[i].stage \in Unserved
  BY DEF Alike
<1>6. Listed' = Listed
  BY DEF Listed
<1>7. Shapes'
  <2>1. proc' \in Seq(Process) /\ chats' \in Seq(Chat)
    BY <1>2 DEF Alike, Keeps
  <2>2. boots' \subseteq Boot /\ taken' \subseteq Procs' /\ ghosts' \subseteq Ids'
    BY <1>3, <1>4 DEF Shapes
  <2>3. borrowed' \in Seq(Nat) /\ Len(borrowed') = Len(proc')
    BY <1>2 DEF Shapes, Spawn
  <2> QED
    BY <2>1, <2>2, <2>3 DEF Shapes
<1>8. RecentInv'
  <2>1. Open' = Open
    BY <1>4 DEF Open
  <2> QED
    BY <2>1 DEF RecentInv
<1>9. SparesInv'
  BY <1>2, PoolMoves DEF SparesInv
<1>10. BootsInv'
  <2>1. \A c \in boots' : c.proc \in Procs' /\ proc'[c.proc].dir = c.dir
    BY <1>2, <1>3 DEF BootsInv
  <2>2. \A c, d \in boots' : c.proc = d.proc => c = d
    BY <1>1 DEF BootsInv
  <2>3. \A c \in boots' : ~c.listing => c.proc \notin Parked' \cup taken'
    BY <1>1, <1>4 DEF BootsInv
  <2>4. Parked' \cap taken' = {}
    BY <1>4 DEF BootsInv
  <2> QED
    BY <2>1, <2>2, <2>3, <2>4 DEF BootsInv
<1>11. BorrowInv'
  <2>1. borrowed' = Append(borrowed, 0) /\ borrowed \in Seq(Nat) /\ Len(borrowed) = Len(proc)
    BY DEF Spawn, Shapes
  <2>2. borrowed'[Next1] = 0 /\ \A p \in Procs : borrowed'[p] = borrowed[p]
    BY <1>1, <2>1 DEF Next1
  <2>3. \A p \in Procs' : borrowed'[p] = IF p \in Listed' THEN 1 ELSE 0
    BY <1>1, <1>3, <1>6, <2>2 DEF BorrowInv
  <2>4. \A p \in retiring' : p \in Procs' /\ borrowed'[p] > 0
    BY <1>3, <2>2 DEF BorrowInv
  <2> QED
    BY <2>3, <2>4 DEF BorrowInv
<1>12. AgentInv'
  <2>1. \A i \in Ids' : chats'[i].agent = 0 <=> chats'[i].stage \in Unserved
    BY <1>4, <1>5 DEF AgentInv
  <2>2. \A i \in Ids' : chats'[i].agent # 0 =>
           /\ chats'[i].agent \in Procs' \ Parked'
           /\ proc'[chats'[i].agent].dir = chats'[i].dir
    BY <1>2, <1>3, <1>4, <1>5 DEF AgentInv
  <2>3. \A i \in Ids' : chats'[i].agent # 0 =>
           chats'[i].agent \in taken' \/ \A c \in boots' : c.proc # chats'[i].agent
    BY <1>1, <1>4, <1>5 DEF AgentInv
  <2>4. \A i, j \in Ids' : chats'[i].agent # 0 /\ chats'[i].agent = chats'[j].agent => i = j
    BY <1>4, <1>5 DEF AgentInv
  <2> QED
    BY <2>1, <2>2, <2>3, <2>4 DEF AgentInv
<1>13. ProbeKeepsItsProcess'
  BY <1>2 DEF ProbeKeepsItsProcess, BootsInv
<1>14. GhostInv'
  BY <1>4 DEF GhostInv
<1>15. StayInv'
  <2> SUFFICES ASSUME NEW p \in Procs', Running(p)'
               PROVE  \/ p \in Parked \cup retiring
                      \/ \E c \in boots' : c.proc = p /\ ~c.listing
                      \/ \E i \in Ids : chats'[i].agent = p /\ (chats'[i].held \/ i \in ghosts)
    BY <1>4 DEF StayInv
  <2>1. CASE p = Next1
    BY <2>1
  <2>2. CASE p \in Procs
    <3>1. Running(p)
      BY <1>3, <2>2
    <3>2. CASE \E i \in Ids : chats[i].agent = p /\ (chats[i].held \/ i \in ghosts)
      BY <1>5, <3>2
    <3>3. CASE \E c \in boots : c.proc = p /\ ~c.listing
      BY <3>3
    <3> QED
      BY <2>2, <3>1, <3>2, <3>3 DEF StayInv
  <2> QED
    BY <1>3, <2>1, <2>2
<1> QED
  BY <1>7, <1>8, <1>9, <1>10, <1>11, <1>12, <1>13, <1>14, <1>15

\* A step that gives conversation i, new or left without a process that runs, what
\* connectSession found for it, or nothing yet, after the processes became pr.
Serves(pr, i, src, dir, wait) ==
    /\ Still(pr) /\ i \in Nat \ {0} /\ dir \in Dirs
    /\ \/ src = Source(dir, wait)
       \/ src.stage = "spawning" /\ src.agent = Next1
       \/ src.stage = "loading" /\ src.agent = 0
    /\ Uses(src, dir, pr)
    /\ chats' \in Seq(Chat) /\ DOMAIN chats' = Ids \cup {i}
    /\ \A j \in Ids : j # i =>
         /\ chats'[j].agent = chats[j].agent /\ chats'[j].dir = chats[j].dir
         /\ chats'[j].stage = chats[j].stage
         /\ chats[j].held /\ ~chats'[j].held => Named(j) /\ pr[chats[j].agent].state \notin {"booting", "up"}
    /\ i \in Ids /\ chats[i].agent # 0 => pr[chats[i].agent].state \notin {"booting", "up"}
    /\ chats'[i].agent = src.agent /\ chats'[i].dir = dir /\ chats'[i].stage = src.stage
    /\ chats'[i].held \/ i \in ghosts
    /\ \A p \in Procs : pr[p].state = "closed"
                          => proc[p].state = "closed" \/ \E j \in Ids : chats[j].agent = p
    /\ Orders(recent', Open') /\ UNCHANGED <<ghosts, boots>>

LEMMA ServeKeeps ==
  ASSUME HoldInv, NEW pr, NEW i, NEW src, NEW dir, NEW wait, Serves(pr, i, src, dir, wait)
  PROVE  HoldInv'
<1> USE DEF Serves
<1> USE DEF HoldInv
<1> DEFINE p == src.agent
<1>1. /\ Next1 \in Nat /\ Next1 # 0 /\ Next1 \notin Procs /\ Len(proc) \in Nat /\ Procs = 1..Len(proc)
      /\ Next1 \notin Parked /\ Next1 \notin taken /\ Next1 \notin Listed /\ Next1 \notin retiring
      /\ \A c \in boots : c.proc # Next1
      /\ \A j \in Ids : chats[j].agent # Next1
  BY NextProcess
<1>2. \/ src.stage = "spawning" /\ p = Next1
      \/ src.stage \in {"loading", "waiting"} /\ p = 0
      \/ src.stage = "adopting" /\ p \in Parked /\ proc[p].dir = dir
  <2>1. CASE SpareFor(dir) # <<>> /\ src = Source(dir, wait)
    <3>1. src.stage = "adopting" /\ p = SpareFor(dir)[1].proc
      BY <2>1 DEF Source
    <3> QED
      BY <2>1, <3>1, SpareForParked
  <2> QED
    BY <2>1 DEF Source
<1>3. Parked \subseteq Procs /\ 0 \notin Procs
  BY <1>1 DEF SparesInv, Pool, Parked, Procs
\* What Uses does to processes.
<1>4. /\ Keeps(proc') /\ Procs \subseteq Procs' /\ \A q \in Procs : proc'[q] = pr[q] /\ proc'[q].dir = proc[q].dir
      /\ \A q \in Procs' : q \in Procs \/ (q = Next1 /\ src.stage = "spawning")
      /\ src.stage = "spawning" => Next1 \in Procs' /\ proc'[Next1].dir = dir
      /\ Len(borrowed') = Len(proc') /\ borrowed' \in Seq(Nat)
      /\ \A q \in Procs : borrowed'[q] = borrowed[q]
      /\ Next1 \in Procs' => borrowed'[Next1] = 0
  <2>1. pr \in Seq(Process) /\ Len(pr) = Len(proc) /\ DOMAIN pr = Procs /\ Keeps(pr)
    BY DEF Still, Keeps, Procs, Shapes
  <2>2. borrowed \in Seq(Nat) /\ Len(borrowed) = Len(proc) /\ Procs' = 1..Len(proc') /\ Len(proc') \in Nat
    <3>1. proc' \in Seq(Process)
      <4>1. CASE src.stage = "spawning"
        <5>1. proc' = Append(pr, Booting(dir))
          BY <4>1 DEF Uses
        <5>2. Keeps(proc')
          BY <2>1, <5>1, SpawnKeeps
        <5> QED
          BY <5>2 DEF Keeps
      <4>2. CASE src.stage # "spawning"
        BY <2>1, <4>2 DEF Uses
      <4> QED
        BY <4>1, <4>2
    <3> QED
      BY <3>1 DEF Shapes, Procs
  <2>3. CASE src.stage = "spawning"
    <3>1. proc' = Append(pr, Booting(dir)) /\ borrowed' = Append(borrowed, 0)
      BY <2>3 DEF Uses
    <3>2. /\ Keeps(proc') /\ Len(proc') = Len(proc) + 1
          /\ \A q \in Procs : proc'[q] = pr[q]
          /\ proc'[Next1] = Booting(dir)
      BY <2>1, <3>1, SpawnKeeps DEF Next1
    <3>3. Procs' = Procs \cup {Next1}
      BY <1>1, <2>2, <3>2 DEF Next1
    <3>4. /\ borrowed' \in Seq(Nat) /\ Len(borrowed') = Len(proc') /\ borrowed'[Next1] = 0
          /\ \A q \in Procs : borrowed'[q] = borrowed[q]
      BY <1>1, <2>2, <3>1, <3>2 DEF Next1
    <3>5. proc'[Next1].dir = dir
      BY <3>2 DEF Booting
    <3> QED
      BY <2>1, <2>3, <3>2, <3>3, <3>4, <3>5 DEF Keeps
  <2>4. CASE src.stage # "spawning"
    <3>1. proc' = pr /\ borrowed' = borrowed
      BY <2>4 DEF Uses
    <3>2. Procs' = Procs
      BY <2>1, <3>1 DEF Procs
    <3> QED
      BY <1>1, <2>1, <2>2, <2>4, <3>1, <3>2 DEF Keeps
  <2> QED
    BY <2>3, <2>4
<1>5. \A q \in Procs : Running(q)' => Running(q)
  BY <1>4 DEF Running, Still
\* And to spares.
<1>6. /\ Pool(spares', proc) /\ retiring' = retiring
      /\ \/ src.stage = "adopting" /\ Parked' = Parked \ {p} /\ taken' = taken \cup {p}
         \/ src.stage # "adopting" /\ Parked' = Parked /\ taken' = taken
  <2>1. CASE src.stage = "adopting"
    <3>1. spares' = TakeOut(p) /\ taken' = taken \cup {p} /\ retiring' = retiring
      BY <2>1 DEF Uses
    <3>2. Pool(spares', proc) /\ ProcsOf(spares') = Parked \ {p}
      BY <3>1, TakeOutPool
    <3>3. Parked' = ProcsOf(spares')
      BY DEF Parked, ProcsOf
    <3> QED
      BY <2>1, <3>1, <3>2, <3>3
  <2>2. CASE src.stage # "adopting"
    BY <2>2 DEF Uses, SparesInv, Parked
  <2> QED
    BY <2>1, <2>2 DEF Uses
<1>7. Ids' = Ids \cup {i} /\ Listed' = Listed /\ Ids = 1..Len(chats)
  BY ChatTypes DEF Ids, Listed
<1>8. p # 0 => p \in Procs' /\ proc'[p].dir = dir /\ p \notin Parked'
  BY <1>1, <1>2, <1>3, <1>4, <1>6
<1>9. \A j \in Ids : chats[j].agent # 0 => chats[j].agent \in Procs /\ chats[j].agent # p
  BY <1>1, <1>2 DEF AgentInv
<1>10. p # 0 => p \in taken' \/ \A c \in boots : c.proc # p
  BY <1>1, <1>2, <1>6
<1> HIDE DEF p
<1>11. Shapes'
  <2>1. taken' \subseteq Procs'
    BY <1>2, <1>3, <1>4, <1>6 DEF Shapes
  <2>2. proc' \in Seq(Process)
    BY <1>4 DEF Keeps
  <2> QED
    BY <1>4, <1>7, <2>1, <2>2 DEF Shapes
<1>12. RecentInv'
  BY DEF RecentInv
<1>13. SparesInv'
  <2>1. Pool(spares', proc')
    BY <1>4, <1>6, PoolMoves
  <2> QED
    BY <2>1 DEF SparesInv, Pool
<1>14. BootsInv'
  <2>1. \A b \in boots : b.proc \in Procs' /\ proc'[b.proc].dir = b.dir
    BY <1>4 DEF BootsInv
  <2>2. \A b \in boots : ~b.listing => b.proc \notin Parked' \cup taken'
    BY <1>2, <1>6 DEF BootsInv, p
  <2>3. Parked' \cap taken' = {}
    BY <1>6 DEF BootsInv
  <2> QED
    BY <2>1, <2>2, <2>3 DEF BootsInv
<1>15. BorrowInv'
  <2>1. \A q \in Procs' : borrowed'[q] = IF q \in Listed' THEN 1 ELSE 0
    BY <1>1, <1>4, <1>7 DEF BorrowInv
  <2>2. \A q \in retiring' : q \in Procs' /\ borrowed'[q] > 0
    BY <1>4, <1>6 DEF BorrowInv
  <2> QED
    BY <2>1, <2>2 DEF BorrowInv
<1>16. AgentInv'
  <2>1. \A j \in Ids' : chats'[j].agent = 0 <=> chats'[j].stage \in Unserved
    <3>1. chats'[i].agent = 0 <=> chats'[i].stage \in Unserved
      BY <1>1, <1>2, <1>3 DEF p, Unserved
    <3> QED
      BY <1>7, <3>1 DEF AgentInv
  <2>2. \A j \in Ids' : chats'[j].agent # 0 =>
           /\ chats'[j].agent \in Procs' \ Parked'
           /\ proc'[chats'[j].agent].dir = chats'[j].dir
    <3> SUFFICES ASSUME NEW j \in Ids', chats'[j].agent # 0
                 PROVE  /\ chats'[j].agent \in Procs' \ Parked'
                        /\ proc'[chats'[j].agent].dir = chats'[j].dir
      OBVIOUS
    <3>1. CASE j = i
      BY <1>8, <3>1 DEF p
    <3>2. CASE j # i
      <4>1. j \in Ids /\ chats'[j].agent = chats[j].agent /\ chats'[j].dir = chats[j].dir
        BY <1>7, <3>2
      <4>2. /\ chats[j].agent \in Procs /\ chats[j].agent \notin Parked
            /\ proc[chats[j].agent].dir = chats[j].dir
        BY <4>1 DEF AgentInv
      <4> QED
        BY <1>4, <1>6, <4>1, <4>2
    <3> QED
      BY <3>1, <3>2
  <2>3. \A j \in Ids' : chats'[j].agent # 0 =>
           chats'[j].agent \in taken' \/ \A b \in boots : b.proc # chats'[j].agent
    <3> SUFFICES ASSUME NEW j \in Ids', chats'[j].agent # 0
                 PROVE  chats'[j].agent \in taken' \/ \A b \in boots : b.proc # chats'[j].agent
      OBVIOUS
    <3>1. CASE j = i
      BY <1>10, <3>1 DEF p
    <3>2. CASE j # i
      BY <1>6, <1>7, <3>2 DEF AgentInv
    <3> QED
      BY <3>1, <3>2
  <2>4. \A j, k \in Ids' : chats'[j].agent # 0 /\ chats'[j].agent = chats'[k].agent => j = k
    <3>1. \A j \in Ids : j # i /\ chats'[j].agent # 0 => chats'[j].agent # chats'[i].agent
      BY <1>9 DEF p
    <3>2. \A j, k \in Ids : j # i /\ k # i /\ chats'[j].agent # 0 /\ chats'[j].agent = chats'[k].agent => j = k
      BY DEF AgentInv
    <3> QED
      BY <1>7, <3>1, <3>2
  <2> QED
    BY <2>1, <2>2, <2>3, <2>4 DEF AgentInv
<1>17. ProbeKeepsItsProcess'
  <2> SUFFICES ASSUME NEW b \in boots, b.listing, proc'[b.proc].state = "closed"
               PROVE  b.proc \in taken'
    BY DEF ProbeKeepsItsProcess
  <2>1. b.proc \in Procs /\ pr[b.proc].state = "closed"
    BY <1>4 DEF BootsInv
  <2>2. CASE proc[b.proc].state = "closed"
    BY <1>6, <2>2 DEF ProbeKeepsItsProcess
  <2>3. CASE \E j \in Ids : chats[j].agent = b.proc
    BY <1>1, <1>3, <1>6, <2>1, <2>3 DEF AgentInv
  <2> QED
    BY <2>1, <2>2, <2>3
<1>18. GhostInv'
  <2> SUFFICES ASSUME NEW j \in Ids', ~chats'[j].held,
                      chats'[j].stage \notin {"restoring", "done", "failed"}
               PROVE  j \in ghosts
    BY DEF GhostInv
  <2>1. CASE j = i
    BY <2>1
  <2>2. CASE j # i
    BY <1>7, <2>2 DEF GhostInv, Named
  <2> QED
    BY <2>1, <2>2
<1>19. StayInv'
  <2> SUFFICES ASSUME NEW q \in Procs', Running(q)'
               PROVE  \/ q \in Parked' \cup retiring
                      \/ \E b \in boots : b.proc = q /\ ~b.listing
                      \/ \E j \in Ids' : chats'[j].agent = q /\ (chats'[j].held \/ j \in ghosts)
    BY <1>6 DEF StayInv
  <2>1. CASE q = p
    BY <1>7, <2>1 DEF p
  <2>2. CASE q # p
    <3>1. q \in Procs /\ Running(q) /\ pr[q].state \in {"booting", "up"}
      BY <1>2, <1>4, <1>5, <2>2 DEF p, Running
    <3>2. CASE \E j \in Ids : chats[j].agent = q /\ (chats[j].held \/ j \in ghosts)
      <4>1. PICK j \in Ids : chats[j].agent = q /\ (chats[j].held \/ j \in ghosts)
        BY <3>2
      <4>2. j # i
        BY <1>3, <3>1, <4>1
      <4> QED
        BY <1>7, <3>1, <4>1, <4>2
    <3>3. CASE q \in Parked
      BY <1>6, <2>2, <3>3
    <3> QED
      BY <3>1, <3>2, <3>3 DEF StayInv
  <2> QED
    BY <2>1, <2>2
<1> QED
  BY <1>11, <1>12, <1>13, <1>14, <1>15, <1>16, <1>17, <1>18, <1>19

-----------------------------------------------------------------------------
(***************************************************************************)
(* The actions, by the kind of step they are.                              *)
(***************************************************************************)

\* What a calm step leaves alone, it need not show.
LEMMA Unmoved ==
  ASSUME HoldInv
  PROVE  /\ Still(proc) /\ Alike(chats) /\ Pool(spares, proc) /\ Orders(recent, Open)
         /\ borrowed \in Seq(Nat) /\ Len(borrowed) = Len(proc) /\ ghosts \subseteq Ids
BY ProcKeeps, ChatTypes DEF HoldInv, SparesInv, RecentInv, Shapes

\* A step that changes no spare, boot or borrower.
LEMMA QuietKeeps ==
  ASSUME HoldInv, Still(proc'), Alike(chats'), ghosts \subseteq ghosts', ghosts' \subseteq Ids,
         Orders(recent', Open'), UNCHANGED <<boots, spares, borrowed, retiring, taken>>,
         \A i \in Ids : chats'[i].stage \notin {"restoring", "done", "failed"}
                          => chats[i].stage \notin {"restoring", "done", "failed"},
         \A i \in Ids : chats[i].held /\ ~chats'[i].held
                          => i \in ghosts' \/ (Named(i) /\ ~Running(chats[i].agent)'),
         \A p \in Procs : proc'[p].state = "closed"
                            => proc[p].state = "closed" \/ p \in Handles(Ids)
  PROVE  HoldInv'
<1>1. Parked' = Parked /\ Listed' = Listed
  BY DEF Parked, Listed
<1>2. Procs' = Procs
  BY StillRuns DEF HoldInv
<1>3. BorrowInv'
  BY <1>1, <1>2 DEF HoldInv, BorrowInv
<1> QED
  BY <1>1, <1>3, CalmKeeps, Unmoved

\* One process stops, or one that runs is up.
LEMMA OneTurned ==
  ASSUME HoldInv, NEW p \in Procs, NEW st \in States, proc' = Turned(proc, p, st),
         st \in {"booting", "up"} => Running(p)
  PROVE  /\ Still(proc') /\ proc'[p].state = st
         /\ \A q \in Procs : q # p => proc'[q].state = proc[q].state
<1>1. Shapes /\ Keeps(proc) /\ DOMAIN proc = Procs
  BY ProcKeeps DEF Still, HoldInv, Procs
<1>2. /\ Keeps(proc') /\ Len(proc') = Len(proc)
      /\ \A q \in Procs : proc'[q].state = IF q = p THEN st ELSE proc[q].state
  BY <1>1, StateKeeps
<1> QED
  BY <1>2 DEF Still, Running

\* The same conversations are open after one of them changes nothing of that.
LEMMA SameOpen ==
  ASSUME Alike(chats'), Shapes, \A i \in Ids : chats'[i].held = chats[i].held
  PROVE  Open' = Open /\ Ids' = Ids
<1>1. Ids' = Ids
  BY ChatTypes DEF Alike, Ids
<1> QED
  BY <1>1 DEF Open

LEMMA AnswersHolds ==
  ASSUME HoldInv, NEW i \in Ids, Answers(i)
  PROVE  HoldInv'
<1> DEFINE c == [chats[i] EXCEPT !.stage = "restoring"]
<1>1. chats' = [chats EXCEPT ![i] = c] /\ chats[i].stage \in {"adopting", "spawning"}
  BY DEF Answers
<1>2. /\ c \in Chat /\ c.agent = chats[i].agent /\ c.dir = chats[i].dir /\ c.held = chats[i].held
      /\ c.stage = "restoring"
  BY ChatTypes DEF Chat, Stages, HoldInv
<1> HIDE DEF c
<1>3. Alike(chats') /\ \A j \in Ids : chats'[j].held = chats[j].held
  BY <1>1, <1>2, OneAlike, OneChat DEF HoldInv, Unserved
<1>4. \A j \in Ids : chats'[j].stage = IF j = i THEN "restoring" ELSE chats[j].stage
  BY <1>1, <1>2, OneChat DEF HoldInv
<1>5. Still(proc') /\ \A p \in Procs : proc'[p].state = "closed" => proc[p].state = "closed"
  <2>1. chats[i].agent \in Procs
    BY <1>1, ServedProc DEF HoldInv, Unserved
  <2>2. Running(chats[i].agent) /\ proc' = Turned(proc, chats[i].agent, "up") /\ "up" \in States
    BY DEF Answers, Comes, Turned, States
  <2> QED
    BY <2>1, <2>2, OneTurned
<1>6. Orders(recent', Open')
  BY <1>3, SameOpen DEF HoldInv, RecentInv, Answers
<1>7. UNCHANGED <<boots, spares, borrowed, retiring, taken, ghosts>>
  BY DEF Answers, poolVars
<1> QED
  BY <1>3, <1>4, <1>5, <1>6, <1>7, QuietKeeps, Unmoved

\* A turn begins, stops on an approval or ends.
LEMMA TurnHolds ==
  ASSUME HoldInv, NEW i \in Ids, Works(i) \/ AsksApproval(i) \/ TurnEnds(i)
  PROVE  HoldInv'
<1>1. PICK w \in BOOLEAN, b \in BOOLEAN :
        chats' = [chats EXCEPT ![i] = [chats[i] EXCEPT !.working = w, !.blocked = b]]
  <2>1. chats[i] \in Chat
    BY ChatTypes DEF HoldInv
  <2>2. CASE Works(i)
    <3>1. chats' = [chats EXCEPT ![i] = [chats[i] EXCEPT !.working = TRUE, !.blocked = chats[i].blocked]]
      BY <2>1, <2>2 DEF Works, Chat
    <3> QED
      BY <2>1, <3>1 DEF Chat
  <2>3. CASE AsksApproval(i)
    <3>1. chats' = [chats EXCEPT ![i] = [chats[i] EXCEPT !.working = chats[i].working, !.blocked = TRUE]]
      BY <2>1, <2>3 DEF AsksApproval, Chat
    <3> QED
      BY <2>1, <3>1 DEF Chat
  <2>4. CASE TurnEnds(i)
    BY <2>4 DEF TurnEnds
  <2> QED
    BY <2>2, <2>3, <2>4
<1> DEFINE c == [chats[i] EXCEPT !.working = w, !.blocked = b]
<1>2. /\ c \in Chat /\ c.agent = chats[i].agent /\ c.dir = chats[i].dir /\ c.held = chats[i].held
      /\ c.stage = chats[i].stage
  BY ChatTypes DEF Chat, HoldInv
<1>3. chats' = [chats EXCEPT ![i] = c]
  BY <1>1
<1> HIDE DEF c
<1>4. Alike(chats') /\ \A j \in Ids : chats'[j].held = chats[j].held
  BY <1>2, <1>3, OneAlike, OneChat DEF HoldInv
<1>5. \A j \in Ids : chats'[j].stage = chats[j].stage
  BY <1>2, <1>3, OneChat DEF HoldInv
<1>6. UNCHANGED <<proc, boots, spares, borrowed, retiring, taken, ghosts>> /\ Touch(i)
  BY DEF Works, AsksApproval, TurnEnds, poolVars
<1>7. Orders(recent', Open')
  BY <1>4, <1>6, SameOpen, TouchOrders DEF HoldInv
<1>8. Still(proc')
  BY <1>6, Unmoved
<1> QED
  BY <1>4, <1>5, <1>6, <1>7, <1>8, QuietKeeps, Unmoved

LEMMA ReapsHolds ==
  ASSUME HoldInv, NEW i \in Ids, Reaps(i)
  PROVE  HoldInv'
<1>1. /\ chats' = Closing({i}) /\ recent' = Without({i}) /\ proc' = Closed(Handles({i})) /\ Named(i)
      /\ UNCHANGED <<boots, spares, borrowed, retiring, taken, ghosts>>
  BY DEF Reaps, poolVars
<1>2. /\ Alike(chats')
      /\ \A j \in Ids : /\ chats'[j].stage = chats[j].stage
                        /\ chats'[j].held = (chats[j].held /\ j \notin {i})
  BY <1>1, ClosingChats DEF HoldInv
<1>3. Ids' = Ids /\ Open' = Open \ {i}
  <2>1. Ids' = Ids
    BY <1>2, ChatTypes DEF Alike, Ids, HoldInv
  <2> QED
    BY <1>2, <2>1 DEF Open
<1>4. Orders(recent', Open')
  BY <1>1, <1>3, WithoutOrders DEF HoldInv
<1>5. Handles({i}) = {chats[i].agent} /\ chats[i].agent \in Procs
  BY <1>1, ServedProc DEF Handles, Named, HoldInv, Unserved
<1>6. /\ Still(proc') /\ ~Running(chats[i].agent)'
      /\ \A p \in Procs : proc'[p].state = "closed" => proc[p].state = "closed" \/ p \in Handles(Ids)
  <2>1. ~Running(chats[i].agent)'
    <3>1. Closed(Handles({i}))[chats[i].agent].state \notin {"booting", "up"}
      BY <1>5, ClosedKeeps DEF HoldInv
    <3>2. chats'[i].agent = chats[i].agent
      BY <1>2 DEF Alike
    <3> QED
      BY <1>1, <3>1, <3>2 DEF Running
  <2>2. Handles({i}) \subseteq Handles(Ids)
    BY DEF Handles
  <2> QED
    BY <1>1, <2>1, <2>2, ClosedKeeps DEF HoldInv
<1> QED
  BY <1>1, <1>2, <1>4, <1>6, QuietKeeps, Unmoved

LEMMA CrashesHolds ==
  ASSUME HoldInv, NEW p \in Procs, Crashes(p)
  PROVE  HoldInv'
<1>1. UNCHANGED <<chats, recent, boots, spares, borrowed, retiring, taken, ghosts>>
  BY DEF Crashes, poolVars, chatVars
<1>2. Still(proc') /\ \A q \in Procs : proc'[q].state = "closed" => proc[q].state = "closed"
  <2>1. proc' = Turned(proc, p, "dead") /\ "dead" \in States
    BY DEF States, Crashes, Dies, Turned
  <2> QED
    BY <2>1, OneTurned
<1>3. Alike(chats') /\ Open' = Open
  BY <1>1, Unmoved DEF Open, Ids
<1> QED
  BY <1>1, <1>2, <1>3, QuietKeeps, Unmoved

\* Nothing this invariant speaks of changes.
LEMMA IdleHolds ==
  ASSUME HoldInv, UNCHANGED <<proc, chats, recent, boots, spares, borrowed, retiring, taken, ghosts>>
  PROVE  HoldInv'
<1>1. Alike(chats') /\ Open' = Open /\ Still(proc')
  BY Unmoved DEF Open, Ids
<1> QED
  BY <1>1, QuietKeeps, Unmoved

\* What is closed by closing conversations and retiring spares, as CalmKeeps asks.
LEMMA RetireKeeps ==
  ASSUME HoldInv, NEW S, NEW Q, S \subseteq Parked, Q \subseteq Handles(Ids),
         proc' = Closed(Q \cup Retire(S, borrowed)), UNCHANGED <<boots, borrowed>>,
         retiring' = retiring \cup (S \ Retire(S, borrowed))
  PROVE  /\ Still(proc') /\ Procs' = Procs /\ BorrowInv'
         /\ \A p \in Procs : proc'[p].state = "closed"
                               => proc[p].state = "closed" \/ p \in Handles(Ids) \/ p \notin Listed'
         /\ \A p \in Q \cap Procs : ~Running(p)'
         /\ \A p \in Procs : Running(p)' /\ p \in retiring \cup S => p \in retiring'
<1> USE DEF HoldInv
<1>1. Still(proc') /\ Procs' = Procs
  <2>1. Still(proc')
    BY ClosedKeeps
  <2> QED
    BY <2>1, StillRuns
<1>2. Parked \subseteq Procs
  BY DEF SparesInv, Pool, Parked, Procs
<1>3. \A p \in Procs : borrowed[p] \in Nat /\ (borrowed[p] = 0 <=> p \notin Listed)
  BY DEF BorrowInv
<1>4. Listed' = Listed
  BY DEF Listed
<1>5. \A p \in S : p \in Procs /\ (p \in Retire(S, borrowed) <=> borrowed[p] = 0)
  BY <1>2 DEF Retire
<1>6. BorrowInv'
  <2>1. \A p \in Procs' : borrowed'[p] = IF p \in Listed' THEN 1 ELSE 0
    BY <1>1, <1>4 DEF BorrowInv
  <2>2. \A p \in retiring' : p \in Procs' /\ borrowed'[p] > 0
    <3> SUFFICES ASSUME NEW p \in retiring' PROVE p \in Procs /\ borrowed[p] > 0
      BY <1>1
    <3>1. CASE p \in retiring
      BY <3>1 DEF BorrowInv
    <3>2. CASE p \in S \ Retire(S, borrowed)
      BY <1>3, <1>5, <3>2
    <3> QED
      BY <3>1, <3>2
  <2> QED
    BY <2>1, <2>2 DEF BorrowInv
<1>7. \A p \in Procs : proc'[p].state = "closed" =>
        proc[p].state = "closed" \/ p \in Q \cup Retire(S, borrowed)
  BY ClosedKeeps
<1>8. \A p \in Procs : p \in Retire(S, borrowed) => p \notin Listed'
  BY <1>3, <1>4 DEF Retire
<1>9. \A p \in Procs : p \in Q \cup Retire(S, borrowed) => ~Running(p)'
  BY ClosedKeeps DEF Running
<1> QED
  BY <1>1, <1>6, <1>7, <1>8, <1>9

LEMMA TurnedOffHolds ==
  ASSUME HoldInv, TurnedOff
  PROVE  HoldInv'
<1> DEFINE cut == {i \in Open : ~chats[i].working}
<1>1. /\ chats' = Closing(cut) /\ recent' = Without(cut)
      /\ ghosts' = ghosts \cup {i \in cut : ~Named(i)}
      /\ proc' = Closed(Handles(cut) \cup Retire(Parked, borrowed))
      /\ spares' = <<>> /\ retiring' = retiring \cup (Parked \ Retire(Parked, borrowed))
      /\ UNCHANGED <<boots, borrowed, taken>>
  BY DEF TurnedOff
<1>2. cut \subseteq Open /\ Open \subseteq Ids
  BY DEF Open
<1> HIDE DEF cut
<1>3. Handles(cut) \subseteq Handles(Ids)
  BY <1>2 DEF Handles
<1>4. /\ Still(proc') /\ Procs' = Procs /\ BorrowInv'
      /\ \A p \in Procs : proc'[p].state = "closed"
                            => proc[p].state = "closed" \/ p \in Handles(Ids) \/ p \notin Listed'
      /\ \A p \in Handles(cut) \cap Procs : ~Running(p)'
      /\ \A p \in Procs : Running(p)' /\ p \in retiring \cup Parked => p \in retiring'
  BY <1>1, <1>3, RetireKeeps
<1>5. /\ Alike(chats')
      /\ \A j \in Ids : /\ chats'[j].stage = chats[j].stage
                        /\ chats'[j].held = (chats[j].held /\ j \notin cut)
  BY <1>1, ClosingChats DEF HoldInv
<1>6. Open' = Open \ cut
  <2>1. Ids' = Ids
    BY <1>5, ChatTypes DEF Alike, Ids, HoldInv
  <2> QED
    BY <1>5, <2>1 DEF Open
<1>7. Orders(recent', Open')
  BY <1>1, <1>6, WithoutOrders DEF HoldInv
<1>8. \A i \in Ids : chats[i].held /\ ~chats'[i].held
                       => i \in ghosts' \/ (Named(i) /\ ~Running(chats[i].agent)')
  <2> SUFFICES ASSUME NEW i \in cut, Named(i), i \in Ids PROVE ~Running(chats[i].agent)'
    BY <1>1, <1>5
  <2>1. chats[i].agent \in Procs /\ chats[i].agent \in Handles(cut)
    BY ServedProc DEF Handles, Named, HoldInv, Unserved
  <2>2. chats'[i].agent = chats[i].agent
    BY <1>5 DEF Alike
  <2>3. ~Running(chats[i].agent)' <=> proc'[chats'[i].agent].state \notin {"booting", "up"}
    BY DEF Running
  <2>4. \A p \in Handles(cut) \cap Procs : proc'[p].state \notin {"booting", "up"}
    BY <1>4 DEF Running
  <2> QED
    BY <2>1, <2>2, <2>3, <2>4
<1>9. Pool(spares', proc) /\ Parked' = {}
  BY <1>1, ProcessBounds DEF Pool, Parked
<1>10. ghosts' \subseteq Ids /\ ghosts \subseteq ghosts'
  BY <1>1, <1>2, Unmoved
<1>11. borrowed' \in Seq(Nat) /\ Len(borrowed') = Len(borrowed) /\ boots' = boots /\ taken' = taken
  BY <1>1, Unmoved
<1> QED
  BY <1>4, <1>5, <1>7, <1>8, <1>9, <1>10, <1>11, CalmKeeps

LEMMA ExpiresHolds ==
  ASSUME HoldInv, NEW s \in ToSet(spares), Expires(s)
  PROVE  HoldInv'
<1>1. /\ spares' = Keep(spares, ToSet(spares) \ {s})
      /\ proc' = Closed(Retire({s.proc}, borrowed))
      /\ retiring' = retiring \cup ({s.proc} \ Retire({s.proc}, borrowed))
      /\ UNCHANGED <<chats, recent, ghosts, boots, borrowed, taken>>
  BY DEF Expires, chatVars
<1>2. {s.proc} \subseteq Parked
  BY DEF Parked, ToSet
<1>3. /\ Still(proc') /\ Procs' = Procs /\ BorrowInv'
      /\ \A p \in Procs : proc'[p].state = "closed"
                            => proc[p].state = "closed" \/ p \in Handles(Ids) \/ p \notin Listed'
      /\ \A p \in Procs : Running(p)' /\ p \in retiring \cup {s.proc} => p \in retiring'
  <2> DEFINE Q == {}
             S == {s.proc}
  <2>1. /\ proc' = Closed(Q \cup Retire(S, borrowed)) /\ S \subseteq Parked /\ Q \subseteq Handles(Ids)
        /\ retiring' = retiring \cup (S \ Retire(S, borrowed))
    BY <1>1, <1>2
  <2>2. S = {s.proc}
    OBVIOUS
  <2> HIDE DEF Q, S
  <2>3. /\ Still(proc') /\ Procs' = Procs /\ BorrowInv'
        /\ \A p \in Procs : proc'[p].state = "closed"
                              => proc[p].state = "closed" \/ p \in Handles(Ids) \/ p \notin Listed'
        /\ \A p \in Procs : Running(p)' /\ p \in retiring \cup S => p \in retiring'
    BY <1>1, <2>1, RetireKeeps
  <2> QED
    BY <2>2, <2>3
<1>4. Pool(spares', proc) /\ Parked' = {x.proc : x \in ToSet(spares) \cap (ToSet(spares) \ {s})}
  <2> DEFINE S == ToSet(spares) \ {s}
  <2>1. Pool(spares, proc) /\ spares' = Keep(spares, S) /\ S = ToSet(spares) \ {s}
    BY <1>1 DEF HoldInv, SparesInv
  <2>2. Parked' = ProcsOf(spares')
    BY DEF Parked, ProcsOf
  <2> HIDE DEF S
  <2>3. Pool(spares', proc) /\ ProcsOf(spares') = {x.proc : x \in ToSet(spares) \cap S}
    BY <2>1, PoolKeep
  <2> QED
    BY <2>1, <2>2, <2>3
<1>5. Parked' \subseteq Parked /\ \A p \in Parked : p # s.proc => p \in Parked'
  <2>1. Parked = {x.proc : x \in ToSet(spares)}
    BY DEF Parked, ToSet
  <2> QED
    BY <1>4, <2>1
<1>6. Alike(chats') /\ Open' = Open
  BY <1>1, Unmoved DEF Open, Ids
<1>7. Orders(recent', Open')
  BY <1>1, <1>6, Unmoved
<1>8. borrowed' \in Seq(Nat) /\ Len(borrowed') = Len(borrowed) /\ boots' = boots /\ taken' = taken /\ ghosts' \subseteq Ids
  BY <1>1, Unmoved
<1> QED
  BY <1>1, <1>3, <1>4, <1>5, <1>6, <1>7, <1>8, CalmKeeps

LEMMA BootFailsHolds ==
  ASSUME HoldInv, NEW b \in boots, BootFails(b)
  PROVE  HoldInv'
<1>1. /\ ~b.listing /\ proc' = [proc EXCEPT ![b.proc].state = "dead"] /\ boots' = boots \ {b}
      /\ UNCHANGED <<chats, recent, ghosts, spares, borrowed, retiring, taken>>
  BY DEF BootFails, Ends, Dies, chatVars, poolVars
<1>2. b.proc \in Procs
  BY DEF HoldInv, BootsInv
<1>3. /\ Still(proc') /\ ~Running(b.proc)'
      /\ \A q \in Procs : proc'[q].state = "closed" => proc[q].state = "closed"
  <2>1. proc' = Turned(proc, b.proc, "dead") /\ "dead" \in States
    BY <1>1 DEF States, Turned
  <2> QED
    BY <1>2, <2>1, OneTurned DEF Running
<1>4. Listed' = Listed /\ Parked' = Parked /\ Procs' = Procs
  <2>1. Procs' = Procs
    BY <1>3, StillRuns DEF HoldInv
  <2> QED
    BY <1>1, <2>1 DEF Listed, Parked
<1>5. BorrowInv'
  BY <1>1, <1>4 DEF HoldInv, BorrowInv
<1>6. Alike(chats') /\ Open' = Open
  BY <1>1, Unmoved DEF Open, Ids
<1>7. Orders(recent', Open')
  BY <1>1, <1>6, Unmoved
<1>8. borrowed' \in Seq(Nat) /\ Len(borrowed') = Len(borrowed) /\ ghosts' \subseteq Ids /\ Pool(spares', proc)
  BY <1>1, Unmoved
<1> QED
  BY <1>1, <1>3, <1>4, <1>5, <1>6, <1>7, <1>8, CalmKeeps

LEMMA ListsHolds ==
  ASSUME HoldInv, NEW b \in boots, Lists(b)
  PROVE  HoldInv'
<1> DEFINE last == borrowed[b.proc] = 1 /\ b.proc \in retiring
<1>1. /\ b.listing /\ boots' = boots \ {b} /\ borrowed' = [borrowed EXCEPT ![b.proc] = @ - 1]
      /\ UNCHANGED <<chats, recent, ghosts, spares, taken>>
  BY DEF Lists, Ends, chatVars
<1>2. \/ last /\ proc' = Closed({b.proc}) /\ retiring' = retiring \ {b.proc}
      \/ ~last /\ UNCHANGED <<proc, retiring>>
  BY DEF Lists
<1>3. b.proc \in Procs /\ b.proc \in Listed /\ borrowed[b.proc] = 1
  BY <1>1 DEF HoldInv, BootsInv, BorrowInv, Listed
<1>4. Listed' = Listed \ {b.proc}
  BY <1>1 DEF Listed, HoldInv, BootsInv
<1>5. /\ Still(proc') /\ \A p \in Procs : p # b.proc => proc'[p] = proc[p]
      /\ b.proc \in retiring => ~Running(b.proc)'
  BY <1>2, <1>3, ClosedKeeps, Unmoved DEF HoldInv, Running
<1>6. Procs' = Procs
  BY <1>5, StillRuns DEF HoldInv
<1>7. /\ borrowed' \in Seq(Nat) /\ Len(borrowed') = Len(borrowed)
      /\ \A p \in Procs : borrowed'[p] = IF p = b.proc THEN 0 ELSE borrowed[p]
  <2>1. borrowed \in Seq(Nat) /\ DOMAIN borrowed = Procs /\ Procs = 1..Len(borrowed) /\ Len(borrowed) \in Nat
    BY DEF HoldInv, Shapes, Procs
  <2>2. borrowed' = [borrowed EXCEPT ![b.proc] = 0]
    BY <1>1, <1>3, <2>1
  <2> QED
    BY <1>3, <2>1, <2>2, ExceptSeq
<1>8. BorrowInv'
  <2>1. \A p \in Procs' : borrowed'[p] = IF p \in Listed' THEN 1 ELSE 0
    BY <1>4, <1>6, <1>7 DEF HoldInv, BorrowInv
  <2>2. \A p \in retiring' : p \in Procs' /\ borrowed'[p] > 0
    <3>1. b.proc \notin retiring' /\ retiring' \subseteq retiring
      BY <1>2, <1>3
    <3> QED
      BY <1>6, <1>7, <3>1 DEF HoldInv, BorrowInv
  <2> QED
    BY <2>1, <2>2 DEF BorrowInv
<1>9. Alike(chats') /\ Open' = Open /\ Parked' = Parked
  BY <1>1, Unmoved DEF Open, Ids, Parked
<1>10. Orders(recent', Open')
  BY <1>1, <1>9, Unmoved
<1>11. ghosts' \subseteq Ids /\ Pool(spares', proc)
  BY <1>1, Unmoved
<1>12. \A p \in Procs : proc'[p].state = "closed" => proc[p].state = "closed" \/ p \notin Listed'
  BY <1>4, <1>5
<1>13. \A p \in Procs : Running(p)' /\ p \in Parked \cup retiring => p \in Parked' \cup retiring'
  BY <1>2, <1>5, <1>9
<1> QED
  BY <1>1, <1>5, <1>7, <1>8, <1>9, <1>10, <1>11, <1>12, <1>13, CalmKeeps

LEMMA RestoredHolds ==
  ASSUME HoldInv, NEW i \in Ids, Restored(i)
  PROVE  HoldInv'
<1> DEFINE c == [chats[i] EXCEPT !.stage = "done"]
<1>1. /\ chats' = [chats EXCEPT ![i] = c] /\ chats[i].stage = "restoring"
      /\ UNCHANGED <<recent, ghosts, spares, retiring, taken>>
  BY DEF Restored
<1>2. /\ c \in Chat /\ c.agent = chats[i].agent /\ c.dir = chats[i].dir /\ c.held = chats[i].held
      /\ c.stage = "done" /\ chats[i].dir \in Dirs
  BY ChatTypes DEF Chat, Stages, HoldInv
<1> HIDE DEF c
<1>3. Alike(chats') /\ \A j \in Ids : chats'[j].held = chats[j].held
  BY <1>1, <1>2, OneAlike, OneChat DEF HoldInv, Unserved
<1>4. \A j \in Ids : chats'[j].stage = IF j = i THEN "done" ELSE chats[j].stage
  BY <1>1, <1>2, OneChat DEF HoldInv
<1>5. \A j \in Ids : chats'[j].stage \notin {"restoring", "done", "failed"}
                       => chats[j].stage \notin {"restoring", "done", "failed"}
  BY <1>4
<1>6. CASE SpareFor(chats[i].dir) # <<>>
  <2>1. UNCHANGED <<proc, borrowed, boots>>
    BY <1>6 DEF Restored
  <2>2. Orders(recent', Open')
    BY <1>1, <1>3, SameOpen, Unmoved DEF HoldInv
  <2>3. Still(proc')
    BY <2>1, Unmoved
  <2> QED
    BY <1>1, <1>3, <1>5, <2>1, <2>2, <2>3, QuietKeeps, Unmoved
<1>7. CASE SpareFor(chats[i].dir) = <<>>
  <2> DEFINE b == [kind |-> "warm", proc |-> Next1, dir |-> chats[i].dir, entry |-> 0, listing |-> FALSE]
  <2>1. Spawn(chats[i].dir) /\ boots' = boots \cup {b}
    BY <1>7 DEF Restored
  <2>2. b \in Boot /\ b.proc = Next1 /\ b.dir = chats[i].dir /\ ~b.listing
    BY <1>2, NextProcess DEF Boot
  <2> HIDE DEF b
  <2> QED
    BY <1>1, <1>2, <1>3, <1>5, <2>1, <2>2, BootKeeps
<1> QED
  BY <1>6, <1>7

\* A probe or a refresh boots a process at home.
LEMMA ProbeBoots ==
  ASSUME HoldInv, NEW kind \in {"probe", "refresh"}, NEW entry \in Nat, Spawn(Home),
         boots' = boots \cup {[kind |-> kind, proc |-> Next1, dir |-> Home, entry |-> entry, listing |-> FALSE]},
         UNCHANGED <<chats, spares, retiring, taken, ghosts, recent>>
  PROVE  HoldInv'
<1> DEFINE b == [kind |-> kind, proc |-> Next1, dir |-> Home, entry |-> entry, listing |-> FALSE]
<1>1. b \in Boot /\ b.proc = Next1 /\ b.dir = Home /\ ~b.listing /\ Home \in Dirs
  BY NextProcess DEF Boot, Dirs
<1>2. boots' = boots \cup {b}
  OBVIOUS
<1> HIDE DEF b
<1>3. Alike(chats')
  BY Unmoved
<1> QED
  BY <1>1, <1>2, <1>3, BootKeeps

LEMMA EntryNat ==
  ASSUME EntryShapes
  PROVE  /\ Len(released) \in Nat /\ armed \in Nat
         /\ \A a \in 0 .. Len(released) : Entry(a) \in Nat /\ Entry(a) # 0
         /\ Entry(0) = Len(released) + 1 /\ \A a \in 1 .. Len(released) : Entry(a) = a
BY DEF EntryShapes, Entry

LEMMA ProbingHolds ==
  ASSUME HoldInv, EntryShapes, Asked \/ AskedAgain \/ ReadHit \/ ReadMiss
  PROVE  HoldInv'
<1>1. UNCHANGED <<chats, recent, ghosts, spares, retiring, taken>>
  BY DEF Asked, AskedAgain, ReadHit, ReadMiss, chatVars, poolVars
<1>2. CASE UNCHANGED <<proc, borrowed, boots>>
  BY <1>1, <1>2, IdleHolds
<1>3. ASSUME NEW a \in 0 .. Len(released), Refresh(a), ~refreshing
      PROVE  HoldInv'
  <2>1. Spawn(Home) /\ boots' = boots \cup {[kind |-> "refresh", proc |-> Next1, dir |-> Home,
                                             entry |-> Entry(a), listing |-> FALSE]}
    BY <1>3 DEF Refresh
  <2>2. Entry(a) \in Nat
    BY EntryNat
  <2> QED
    BY <1>1, <2>1, <2>2, ProbeBoots
<1>4. CASE ReadMiss
  <2>1. Spawn(Home) /\ boots' = boots \cup {[kind |-> "probe", proc |-> Next1, dir |-> Home,
                                             entry |-> Head(reads), listing |-> FALSE]}
    BY <1>4 DEF ReadMiss
  <2>2. Head(reads) \in Nat
    BY <1>4, EntryNat DEF ReadMiss, EntryShapes
  <2> QED
    BY <1>1, <2>1, <2>2, ProbeBoots
<1>5. \A a : Refresh(a) /\ refreshing => UNCHANGED <<proc, borrowed, boots>>
  BY DEF Refresh
<1>6. CASE Asked
  BY <1>2, <1>6 DEF Asked, poolVars
<1>7. CASE AskedAgain
  <2>1. Refresh(armed) /\ ~refreshing /\ armed \in 0 .. Len(released)
    BY <1>7 DEF AskedAgain, EntryShapes
  <2> QED
    BY <1>3, <2>1
<1>8. CASE ReadHit
  <2>1. \/ UNCHANGED <<proc, borrowed, boots>>
        \/ ~refreshing /\ Refresh(0)
        \/ Refresh(armed)
    BY <1>8 DEF ReadHit
  <2>2. 0 \in 0 .. Len(released) /\ armed \in 0 .. Len(released)
    BY EntryNat DEF EntryShapes
  <2>3. refreshing \in BOOLEAN
    BY DEF EntryShapes
  <2> QED
    BY <1>2, <1>3, <1>5, <2>1, <2>2, <2>3
<1> QED
  BY <1>4, <1>6, <1>7, <1>8

LEMMA BootsHolds ==
  ASSUME HoldInv, NEW b \in boots, Boots(b)
  PROVE  HoldInv'
<1> USE DEF HoldInv
<1> DEFINE lists == b.kind # "warm"
           held == IF lists THEN [borrowed EXCEPT ![b.proc] = @ + 1] ELSE borrowed
           out == Stash(b.proc, b.dir).out
           R == Retire(out, held)
           lister == [b EXCEPT !.listing = TRUE]
<1>1. /\ ~b.listing /\ spares' = Stash(b.proc, b.dir).pool /\ borrowed' = held
      /\ retiring' = retiring \cup (out \ R)
      /\ proc' = [Closed(R) EXCEPT ![b.proc].state = "up"]
      /\ boots' = (boots \ {b}) \cup (IF lists THEN {lister} ELSE {})
      /\ UNCHANGED <<chats, recent, ghosts, taken>>
  BY DEF Boots, chatVars
<1>2. /\ b.proc \in Procs \ Parked /\ proc[b.proc].dir = b.dir /\ b.proc \notin taken
      /\ b.proc \in Nat /\ b.dir \in Dirs /\ b \in Boot
  BY <1>1 DEF BootsInv, Shapes, Boot
<1>3. /\ Pool(spares', proc) /\ out \subseteq Parked /\ Parked' = (Parked \ out) \cup {b.proc}
  <2>1. Parked' = ProcsOf(spares')
    BY DEF Parked, ProcsOf
  <2>2. b.dir = proc[b.proc].dir
    BY <1>2
  <2> QED
    BY <1>1, <1>2, <2>1, <2>2, StashPool
<1>4. /\ lister \in Boot /\ lister.listing /\ lister.proc = b.proc /\ lister.dir = b.dir
  BY <1>2 DEF Boot
<1> HIDE DEF out, lister
<1>5. b.proc \notin Listed /\ \A c \in boots : c.proc = b.proc => c = b
  BY <1>1 DEF Listed, BootsInv
<1>6. Listed' = IF lists THEN Listed \cup {b.proc} ELSE Listed
  BY <1>1, <1>4 DEF Listed
<1>7. /\ held \in Seq(Nat) /\ Len(held) = Len(borrowed)
      /\ \A p \in Procs : held[p] = IF p \in Listed' THEN 1 ELSE 0
      /\ \A p \in Procs : held[p] >= borrowed[p]
  <2>1. borrowed \in Seq(Nat) /\ DOMAIN borrowed = Procs /\ Procs = 1..Len(borrowed) /\ Len(borrowed) \in Nat
    BY DEF Shapes, Procs
  <2>2. \A p \in Procs : borrowed[p] \in Nat /\ borrowed[p] = IF p \in Listed THEN 1 ELSE 0
    BY DEF BorrowInv
  <2>3. CASE ~lists
    BY <1>6, <2>1, <2>2, <2>3
  <2>4. CASE lists
    <3>1. borrowed[b.proc] = 0
      BY <1>2, <1>5, <2>2
    <3>2. held = [borrowed EXCEPT ![b.proc] = 1]
      BY <1>2, <2>1, <2>4, <3>1
    <3> HIDE DEF held
    <3>3. /\ held \in Seq(Nat) /\ Len(held) = Len(borrowed)
          /\ \A p \in Procs : held[p] = IF p = b.proc THEN 1 ELSE borrowed[p]
      BY <1>2, <2>1, <3>2, ExceptSeq
    <3> QED
      BY <1>2, <1>5, <1>6, <2>2, <2>4, <3>3
  <2> QED
    BY <2>3, <2>4
<1> HIDE DEF held
<1>8. R \subseteq out /\ \A p \in out : p \in Procs /\ (p \in R <=> held[p] = 0)
  <2>1. Parked \subseteq Procs
    BY DEF SparesInv, Pool, Parked, Procs
  <2> QED
    BY <1>3, <2>1 DEF Retire
<1> HIDE DEF R
\* What becomes of the processes.
<1>9. /\ Keeps(proc') /\ Procs' = Procs /\ Len(proc') = Len(proc)
      /\ \A p \in Procs : p # b.proc /\ Running(p)' => Running(p) /\ p \notin R
      /\ \A p \in Procs : p # b.proc /\ proc'[p].state = "closed" => proc[p].state = "closed" \/ p \in R
      /\ proc'[b.proc].state = "up"
  <2> DEFINE pr == Closed(R)
  <2>1. /\ Still(pr)
        /\ \A p \in Procs : pr[p].state \in {"booting", "up"} => p \notin R
        /\ \A p \in Procs : p \notin R => pr[p] = proc[p]
    BY ClosedKeeps
  <2>2. Keeps(pr) /\ Len(pr) = Len(proc) /\ DOMAIN pr = Procs /\ "up" \in States
    BY <2>1 DEF Still, Keeps, Procs, Shapes, States
  <2>3. proc' = Turned(pr, b.proc, "up") /\ Shapes
    BY <1>1 DEF Turned
  <2> HIDE DEF pr, HoldInv
  <2>4. /\ Keeps(proc') /\ Len(proc') = Len(pr)
        /\ \A q \in Procs : proc'[q].state = IF q = b.proc THEN "up" ELSE pr[q].state
    BY <1>2, <2>2, <2>3, StateKeeps
  <2>5. Procs' = Procs
    BY <2>2, <2>4 DEF Keeps, Procs, Shapes
  <2> QED
    BY <1>2, <2>1, <2>2, <2>4, <2>5 DEF Still, Running
<1>10. Ids' = Ids /\ Open' = Open
  BY <1>1 DEF Ids, Open
<1>11. \A c \in boots' : c \in boots \/ (lists /\ c = lister)
  BY <1>1
<1>12. Shapes'
  <2>1. boots' \subseteq Boot
    BY <1>4, <1>11 DEF Shapes
  <2> QED
    BY <1>1, <1>7, <1>9, <1>10, <2>1 DEF Shapes, Keeps
<1>13. RecentInv'
  BY <1>1, <1>10 DEF RecentInv
<1>14. SparesInv'
  <2>1. Pool(spares', proc')
    BY <1>3, <1>9, PoolMoves
  <2> QED
    BY <2>1 DEF SparesInv, Pool
<1>15. BootsInv'
  <2>1. \A c \in boots' : c.proc \in Procs' /\ proc'[c.proc].dir = c.dir
    BY <1>2, <1>4, <1>9, <1>11 DEF BootsInv, Keeps
  <2>2. \A c, d \in boots' : c.proc = d.proc => c = d
    BY <1>1, <1>4, <1>5 DEF BootsInv
  <2>3. \A c \in boots' : ~c.listing => c.proc \notin Parked' \cup taken'
    <3> SUFFICES ASSUME NEW c \in boots', ~c.listing PROVE c.proc \notin Parked' \cup taken
      BY <1>1
    <3>1. c \in boots /\ c # b
      BY <1>1, <1>4
    <3> QED
      BY <1>3, <1>5, <3>1 DEF BootsInv
  <2>4. Parked' \cap taken' = {}
    BY <1>1, <1>2, <1>3 DEF BootsInv
  <2> QED
    BY <2>1, <2>2, <2>3, <2>4 DEF BootsInv
<1>16. BorrowInv'
  <2>1. \A p \in Procs' : borrowed'[p] = IF p \in Listed' THEN 1 ELSE 0
    BY <1>1, <1>7, <1>9
  <2>2. \A p \in retiring' : p \in Procs' /\ borrowed'[p] > 0
    <3> SUFFICES ASSUME NEW p \in retiring' PROVE p \in Procs /\ held[p] > 0
      BY <1>1, <1>9
    <3>1. CASE p \in retiring
      <4>1. p \in Procs /\ borrowed[p] > 0 /\ borrowed[p] \in Nat
        BY <3>1 DEF BorrowInv
      <4> QED
        BY <1>7, <4>1
    <3>2. CASE p \in out \ R
      BY <1>7, <1>8, <3>2
    <3> QED
      BY <1>1, <3>1, <3>2
  <2> QED
    BY <2>1, <2>2 DEF BorrowInv
<1>17. AgentInv'
  <2>1. \A i \in Ids : chats[i].agent # 0 => chats[i].agent # b.proc
    BY <1>2 DEF AgentInv
  <2>2. \A i \in Ids : chats[i].agent # 0 =>
           /\ chats[i].agent \in Procs' \ Parked'
           /\ proc'[chats[i].agent].dir = chats[i].dir
    BY <1>3, <1>9, <2>1 DEF AgentInv, Keeps
  <2>3. \A i \in Ids : chats[i].agent # 0 =>
           chats[i].agent \in taken \/ \A c \in boots' : c.proc # chats[i].agent
    BY <1>4, <1>11, <2>1 DEF AgentInv
  <2> QED
    BY <1>1, <1>10, <2>2, <2>3 DEF AgentInv
<1>18. ProbeKeepsItsProcess'
  <2> SUFFICES ASSUME NEW c \in boots', c.listing, proc'[c.proc].state = "closed"
               PROVE  c.proc \in taken
    BY <1>1 DEF ProbeKeepsItsProcess
  <2>1. c \in boots /\ c.proc # b.proc /\ c.proc \in Procs
    BY <1>1, <1>2, <1>4, <1>5, <1>9, <1>11 DEF BootsInv
  <2>2. c.proc \in Listed'
    BY DEF Listed
  <2>3. c.proc \notin R
    BY <1>7, <1>8, <2>1, <2>2
  <2> QED
    BY <1>9, <2>1, <2>3 DEF ProbeKeepsItsProcess
<1>19. GhostInv'
  BY <1>1, <1>10 DEF GhostInv
<1>20. StayInv'
  <2> SUFFICES ASSUME NEW p \in Procs, Running(p)'
               PROVE  \/ p \in Parked' \cup retiring'
                      \/ \E c \in boots' : c.proc = p /\ ~c.listing
                      \/ \E i \in Ids : chats[i].agent = p /\ (chats[i].held \/ i \in ghosts)
    BY <1>1, <1>9, <1>10 DEF StayInv
  <2>1. CASE p = b.proc
    BY <1>3, <2>1
  <2>2. CASE p # b.proc
    <3>1. Running(p) /\ p \notin R
      BY <1>9, <2>2
    <3>2. CASE p \in Parked \cup retiring
      BY <1>1, <1>3, <3>1, <3>2
    <3>3. CASE \E c \in boots : c.proc = p /\ ~c.listing
      BY <1>1, <2>2, <3>3
    <3> QED
      BY <3>1, <3>2, <3>3 DEF StayInv
  <2> QED
    BY <2>1, <2>2
<1> QED
  BY <1>12, <1>13, <1>14, <1>15, <1>16, <1>17, <1>18, <1>19, <1>20

\* What connectSession finds has a stage, a process and an entry to wait for.
LEMMA SourceTypes ==
  ASSUME HoldInv, EntryShapes, NEW dir, NEW wait
  PROVE  /\ Source(dir, wait).stage \in {"adopting", "waiting", "spawning"}
         /\ Source(dir, wait).agent \in Nat /\ Source(dir, wait).awaits \in Nat
<1>1. CASE SpareFor(dir) # <<>>
  <2>1. SpareFor(dir)[1].proc \in Nat
    BY <1>1, SpareForParked, NextProcess DEF HoldInv, SparesInv, Pool, Parked
  <2> QED
    BY <1>1, <2>1 DEF Source
<1>2. CASE SpareFor(dir) = <<>>
  BY <1>2, NextProcess, EntryNat DEF Source
<1> QED
  BY <1>1, <1>2

LEMMA ConnectsHolds ==
  ASSUME HoldInv, EntryShapes, NEW i \in Ids, Connects(i)
  PROVE  HoldInv'
<1> DEFINE src == Source(chats[i].dir, chats[i].stage = "waiting")
           c == With(chats[i], src)
<1>1. /\ chats' = [chats EXCEPT ![i] = c] /\ Uses(src, chats[i].dir, proc)
      /\ chats[i].stage \in {"loading", "waiting"}
      /\ UNCHANGED <<recent, ghosts, boots>>
  BY DEF Connects
<1>2. /\ chats[i] \in Chat /\ chats[i].dir \in Dirs /\ i \in Nat \ {0}
  BY ChatTypes DEF HoldInv, Chat
<1>3. src.stage \in {"adopting", "waiting", "spawning"} /\ src.agent \in Nat /\ src.awaits \in Nat
  BY SourceTypes
<1> DEFINE wait == chats[i].stage = "waiting"
<1>4. src = Source(chats[i].dir, wait)
  OBVIOUS
<1> HIDE DEF src, wait
<1>5. /\ c \in Chat /\ c.agent = src.agent /\ c.dir = chats[i].dir /\ c.held = chats[i].held
      /\ c.stage = src.stage
  BY <1>2, <1>3 DEF With, Chat, Stages
<1> HIDE DEF c
<1>6. /\ chats' \in Seq(Chat) /\ DOMAIN chats' = Ids
      /\ \A j \in Ids : chats'[j] = IF j = i THEN c ELSE chats[j]
  BY <1>1, <1>5, OneChat DEF HoldInv
<1>7. chats[i].agent = 0
  BY <1>1 DEF HoldInv, AgentInv, Unserved
<1>8. chats'[i].held \/ i \in ghosts
  BY <1>1, <1>5, <1>6 DEF HoldInv, GhostInv
<1>9. Open' = Open
  BY <1>5, <1>6 DEF Open, Ids
<1>10. Orders(recent', Open')
  BY <1>1, <1>9, Unmoved
<1>11. Ids = Ids \cup {i} /\ Still(proc)
  BY Unmoved
<1>12. \A j \in Ids : j # i => chats'[j] = chats[j]
  BY <1>6
<1>13. chats'[i].agent = src.agent /\ chats'[i].dir = chats[i].dir /\ chats'[i].stage = src.stage
  BY <1>5, <1>6
<1>14. Serves(proc, i, src, chats[i].dir, wait)
  BY <1>1, <1>2, <1>4, <1>6, <1>7, <1>8, <1>10, <1>11, <1>12, <1>13 DEF Serves
<1> QED
  BY <1>14, ServeKeeps

LEMMA AdoptFailsHolds ==
  ASSUME HoldInv, NEW i \in Ids, AdoptFails(i)
  PROVE  HoldInv'
<1> DEFINE p == chats[i].agent
           pr == Closed({p})
           c == [chats[i] EXCEPT !.stage = "spawning", !.agent = Next1]
           src == [stage |-> "spawning", agent |-> Next1, awaits |-> 0]
<1>1. /\ chats' = [chats EXCEPT ![i] = c]
      /\ proc' = Append(pr, Booting(chats[i].dir)) /\ borrowed' = Append(borrowed, 0)
      /\ chats[i].stage = "adopting"
      /\ UNCHANGED <<recent, ghosts, boots, spares, retiring, taken>>
  BY DEF AdoptFails
<1>2. chats[i] \in Chat /\ chats[i].dir \in Dirs /\ i \in Nat \ {0}
  BY ChatTypes DEF HoldInv, Chat
<1>3. /\ c \in Chat /\ c.agent = Next1 /\ c.dir = chats[i].dir /\ c.held = chats[i].held
      /\ c.stage = "spawning"
  BY <1>2, NextProcess DEF Chat, Stages
<1> HIDE DEF c
<1>4. /\ chats' \in Seq(Chat) /\ DOMAIN chats' = Ids
      /\ \A j \in Ids : chats'[j] = IF j = i THEN c ELSE chats[j]
  BY <1>1, <1>3, OneChat DEF HoldInv
<1>5. p \in Procs
  BY <1>1, ServedProc DEF HoldInv, Unserved
<1>6. /\ Still(pr) /\ pr[p].state \notin {"booting", "up"}
      /\ \A q \in Procs : pr[q].state = "closed" => proc[q].state = "closed" \/ q = p
  <2>1. \A q \in Procs : q # p => pr[q] = proc[q]
    BY ClosedKeeps DEF HoldInv
  <2>2. Still(pr) /\ pr[p].state \notin {"booting", "up"}
    BY <1>5, ClosedKeeps DEF HoldInv
  <2> QED
    BY <2>1, <2>2
<1> HIDE DEF pr
<1>7. Uses(src, chats[i].dir, pr) /\ src.stage = "spawning" /\ src.agent = Next1
  BY <1>1 DEF Uses
<1> HIDE DEF src
<1>8. chats'[i].held \/ i \in ghosts
  BY <1>1, <1>3, <1>4 DEF HoldInv, GhostInv
<1>9. Open' = Open
  BY <1>3, <1>4 DEF Open, Ids
<1>10. Orders(recent', Open')
  BY <1>1, <1>9, Unmoved
<1>11. Ids = Ids \cup {i}
  OBVIOUS
<1>12. \A j \in Ids : j # i => chats'[j] = chats[j]
  BY <1>4
<1>13. chats'[i].agent = src.agent /\ chats'[i].dir = chats[i].dir /\ chats'[i].stage = src.stage
  BY <1>3, <1>4, <1>7
<1>14. \A q \in Procs : pr[q].state = "closed"
                          => proc[q].state = "closed" \/ \E j \in Ids : chats[j].agent = q
  BY <1>6
<1>15. Serves(pr, i, src, chats[i].dir, FALSE)
  BY <1>1, <1>2, <1>4, <1>6, <1>7, <1>8, <1>10, <1>11, <1>12, <1>13, <1>14 DEF Serves
<1> QED
  BY <1>15, ServeKeeps

LEMMA OpensHolds ==
  ASSUME HoldInv, EntryShapes, NEW dir \in Dirs, NEW resumed \in BOOLEAN, Opens(dir, resumed)
  PROVE  HoldInv'
<1> DEFINE cut == Excess(Cardinality(Open) + 1)
           i == Len(chats) + 1
           new == NewChat(dir, resumed)
           src == IF resumed THEN [stage |-> "loading", agent |-> 0, awaits |-> 0] ELSE Source(dir, FALSE)
           c == IF resumed THEN new ELSE With(new, src)
           pr == Closed(Handles(cut))
<1>1. /\ new \in Chat /\ new.held /\ new.dir = dir
      /\ resumed => new.agent = src.agent /\ new.stage = src.stage
  BY DEF NewChat, Chat, Stages
<1>2. /\ src.stage \in {"loading", "adopting", "waiting", "spawning"} /\ src.agent \in Nat
      /\ src.awaits \in Nat
      /\ src = Source(dir, FALSE) \/ (src.stage = "loading" /\ src.agent = 0)
  BY SourceTypes
<1>3. /\ chats' = Append(Closing(cut), c) /\ Uses(src, dir, pr)
      /\ recent' = Append(Without(cut), i)
      /\ UNCHANGED <<ghosts, boots>>
  <2>1. CASE resumed
    <3>1. Uses(src, dir, pr)
      BY <2>1 DEF Opens, Uses, poolVars
    <3> QED
      BY <2>1, <3>1 DEF Opens
  <2>2. CASE ~resumed
    BY <2>2 DEF Opens
  <2> QED
    BY <2>1, <2>2
<1>4. \A j \in cut : j \in Open /\ Named(j)
  <2>1. Cardinality(Open) + 1 \in Int
    BY OpenCount DEF HoldInv
  <2> QED
    BY <2>1, ExcessClosable DEF HoldInv
<1> HIDE DEF cut, new, src
<1>5. c \in Chat /\ c.held /\ c.dir = dir /\ c.agent = src.agent /\ c.stage = src.stage
  BY <1>1, <1>2 DEF With, Chat, Stages
<1> HIDE DEF c
<1>6. /\ Alike(Closing(cut))
      /\ \A j \in Ids : /\ Closing(cut)[j].stage = chats[j].stage
                        /\ Closing(cut)[j].held = (chats[j].held /\ j \notin cut)
  BY ClosingChats DEF HoldInv
<1>7. /\ chats' \in Seq(Chat) /\ DOMAIN chats' = Ids \cup {i} /\ i \notin Ids
      /\ \A j \in Ids : chats'[j] = Closing(cut)[j]
      /\ chats'[i] = c
  BY <1>3, <1>5, <1>6, NewChatAt DEF HoldInv
<1>8. i \in Nat \ {0}
  BY ChatTypes DEF HoldInv
<1> HIDE DEF i
<1>9. /\ Still(pr)
      /\ \A q \in Procs : q \in Handles(cut) => pr[q].state \notin {"booting", "up"}
      /\ \A q \in Procs : pr[q].state = "closed" => proc[q].state = "closed" \/ q \in Handles(cut)
  <2>1. \A q \in Procs : q \notin Handles(cut) => pr[q] = proc[q]
    BY ClosedKeeps DEF HoldInv
  <2>2. Still(pr) /\ \A q \in Procs : pr[q].state \in {"booting", "up"} => q \notin Handles(cut)
    BY ClosedKeeps DEF HoldInv
  <2> QED
    BY <2>1, <2>2
<1> HIDE DEF pr
<1>10. cut \subseteq Ids
  BY <1>4 DEF Open
<1>11. \A q \in Procs : pr[q].state = "closed"
                          => proc[q].state = "closed" \/ \E j \in Ids : chats[j].agent = q
  BY <1>9, <1>10 DEF Handles
<1>12. \A j \in Ids : j # i =>
         /\ chats'[j].agent = chats[j].agent /\ chats'[j].dir = chats[j].dir
         /\ chats'[j].stage = chats[j].stage
         /\ chats[j].held /\ ~chats'[j].held => Named(j) /\ pr[chats[j].agent].state \notin {"booting", "up"}
  <2> SUFFICES ASSUME NEW j \in Ids
               PROVE  /\ chats'[j].agent = chats[j].agent /\ chats'[j].dir = chats[j].dir
                      /\ chats'[j].stage = chats[j].stage
                      /\ chats[j].held /\ ~chats'[j].held
                           => Named(j) /\ pr[chats[j].agent].state \notin {"booting", "up"}
    OBVIOUS
  <2>1. chats'[j].agent = chats[j].agent /\ chats'[j].dir = chats[j].dir /\ chats'[j].stage = chats[j].stage
    BY <1>6, <1>7 DEF Alike
  <2>2. ASSUME j \in cut PROVE Named(j) /\ pr[chats[j].agent].state \notin {"booting", "up"}
    <3>1. Named(j) /\ chats[j].agent \in Procs /\ chats[j].agent \in Handles(cut)
      BY <1>4, <2>2, ServedProc DEF Named, HoldInv, Unserved, Handles
    <3> QED
      BY <1>9, <3>1
  <2> QED
    BY <1>6, <1>7, <2>1, <2>2
<1>13. Open' = (Open \ cut) \cup {i}
  BY <1>5, <1>6, <1>7 DEF Open, Ids
<1>14. Orders(recent', Open')
  <2>1. Orders(Without(cut), Open \ cut)
    BY WithoutOrders DEF HoldInv
  <2>2. i \in Nat \ (Open \ cut)
    BY <1>7, <1>8 DEF Open
  <2> QED
    BY <1>3, <1>13, <2>1, <2>2, AppendOrders
<1>15. i \in Ids /\ chats[i].agent # 0 => pr[chats[i].agent].state \notin {"booting", "up"}
  BY <1>7
<1>16. chats'[i].agent = src.agent /\ chats'[i].dir = dir /\ chats'[i].stage = src.stage /\ chats'[i].held
  BY <1>5, <1>7
<1>17. Serves(pr, i, src, dir, FALSE)
  BY <1>2, <1>3, <1>7, <1>8, <1>9, <1>11, <1>12, <1>14, <1>15, <1>16 DEF Serves
<1> QED
  BY <1>17, ServeKeeps

LEMMA OpenFailsHolds ==
  ASSUME HoldInv, NEW i \in Ids, OpenFails(i)
  PROVE  HoldInv'
<1> USE DEF HoldInv
<1> DEFINE p == chats[i].agent
           c == [chats[i] EXCEPT !.stage = "failed", !.agent = 0,
                                 !.held = @ /\ chats[i].resumed, !.working = FALSE]
<1>1. /\ chats' = [chats EXCEPT ![i] = c] /\ chats[i].stage = "spawning"
      /\ recent' = IF chats[i].resumed THEN recent ELSE Without({i})
      /\ proc' = [proc EXCEPT ![p].state = "dead"]
      /\ UNCHANGED <<ghosts, boots, spares, borrowed, retiring, taken>>
  BY DEF OpenFails, Dies, poolVars
<1>2. chats[i] \in Chat /\ Ids = 1..Len(chats)
  BY ChatTypes
<1>3. /\ c \in Chat /\ c.agent = 0 /\ c.dir = chats[i].dir /\ c.stage = "failed"
      /\ c.held = (chats[i].held /\ chats[i].resumed)
  BY <1>2 DEF Chat, Stages
<1> HIDE DEF c
<1>4. /\ chats' \in Seq(Chat) /\ DOMAIN chats' = Ids /\ Len(chats') = Len(chats)
      /\ \A j \in Ids : chats'[j] = IF j = i THEN c ELSE chats[j]
  BY <1>1, <1>3, OneChat
<1>5. Ids' = Ids /\ Parked' = Parked /\ Listed' = Listed
  BY <1>1, <1>4 DEF Ids, Parked, Listed
<1>6. p # 0 /\ p \in Procs
  BY <1>1, ServedProc DEF Unserved
<1>7. /\ Still(proc') /\ proc'[p].state = "dead"
      /\ \A q \in Procs : proc'[q].state = "closed" => proc[q].state = "closed"
  <2>1. proc' = Turned(proc, p, "dead") /\ "dead" \in States
    BY <1>1 DEF States, Turned
  <2> HIDE DEF p, HoldInv
  <2>2. HoldInv
    OBVIOUS
  <2> QED
    BY <1>6, <2>1, <2>2, OneTurned
<1>8. Keeps(proc') /\ Procs' = Procs /\ \A q \in Procs : Running(q)' => Running(q) /\ q # p
  BY <1>7, StillRuns DEF Running
<1>9. Shapes'
  <2>1. proc' \in Seq(Process) /\ Len(proc') = Len(proc)
    BY <1>7 DEF Still, Keeps
  <2> QED
    BY <1>1, <1>4, <1>5, <1>8, <2>1 DEF Shapes
<1>10. RecentInv'
  <2>1. Open' = IF chats[i].resumed THEN Open ELSE Open \ {i}
    BY <1>2, <1>3, <1>4, <1>5 DEF Open, Chat
  <2>2. Orders(recent', Open')
    BY <1>1, <2>1, WithoutOrders DEF RecentInv
  <2> QED
    BY <2>2 DEF RecentInv
<1>11. SparesInv'
  <2>1. Pool(spares', proc')
    BY <1>1, <1>8, PoolMoves DEF SparesInv
  <2> QED
    BY <2>1 DEF SparesInv, Pool
<1>12. BootsInv'
  BY <1>1, <1>5, <1>8 DEF BootsInv, Keeps
<1>13. BorrowInv'
  BY <1>1, <1>5, <1>8 DEF BorrowInv
<1>14. AgentInv'
  <2>1. \A j \in Ids' : chats'[j].agent = 0 <=> chats'[j].stage \in Unserved
    BY <1>3, <1>4, <1>5 DEF AgentInv, Unserved
  <2>2. \A j \in Ids' : chats'[j].agent # 0 =>
           /\ chats'[j].agent \in Procs' \ Parked'
           /\ proc'[chats'[j].agent].dir = chats'[j].dir
           /\ chats'[j].agent \in taken' \/ \A b \in boots' : b.proc # chats'[j].agent
    BY <1>1, <1>3, <1>4, <1>5, <1>8 DEF AgentInv, Keeps
  <2>3. \A j, k \in Ids' : chats'[j].agent # 0 /\ chats'[j].agent = chats'[k].agent => j = k
    BY <1>3, <1>4, <1>5 DEF AgentInv
  <2> QED
    BY <2>1, <2>2, <2>3 DEF AgentInv
<1>15. ProbeKeepsItsProcess'
  BY <1>1, <1>7 DEF ProbeKeepsItsProcess, BootsInv
<1>16. GhostInv'
  BY <1>1, <1>3, <1>4, <1>5 DEF GhostInv
<1>17. StayInv'
  <2> SUFFICES ASSUME NEW q \in Procs, Running(q)'
               PROVE  \/ q \in Parked \cup retiring
                      \/ \E b \in boots : b.proc = q /\ ~b.listing
                      \/ \E j \in Ids : chats'[j].agent = q /\ (chats'[j].held \/ j \in ghosts)
    BY <1>1, <1>5, <1>8 DEF StayInv
  <2>1. Running(q) /\ q # p
    BY <1>8
  <2>2. CASE \E j \in Ids : chats[j].agent = q /\ (chats[j].held \/ j \in ghosts)
    BY <1>4, <2>1, <2>2
  <2> QED
    BY <2>1, <2>2 DEF StayInv
<1> QED
  BY <1>9, <1>10, <1>11, <1>12, <1>13, <1>14, <1>15, <1>16, <1>17

-----------------------------------------------------------------------------
(***************************************************************************)
(* Entries of spareReady.                                                  *)
(***************************************************************************)

\* Announcing an entry, or another, keeps how many there are.
LEMMA AnnouncedEntries ==
  ASSUME EntryShapes, NEW e
  PROVE  Announced(e) \in Seq(BOOLEAN) /\ Len(Announced(e)) = Len(released)
<1>1. released \in Seq(BOOLEAN) /\ released \in [1..Len(released) -> BOOLEAN] /\ Len(released) \in Nat
  BY DEF EntryShapes
<1>2. [released EXCEPT ![e] = TRUE] \in [1..Len(released) -> BOOLEAN]
  BY <1>1
<1>3. /\ [released EXCEPT ![e] = TRUE] \in Seq(BOOLEAN)
      /\ Len([released EXCEPT ![e] = TRUE]) = Len(released)
  BY <1>1, <1>2
<1> QED
  BY <1>1, <1>3 DEF Announced

\* More entries keep what the invariant says of reads and lost.
LEMMA EntriesGrow ==
  ASSUME EntryShapes, released' \in Seq(BOOLEAN), Len(released) <= Len(released'),
         armed' \in 0 .. Len(released'), reads' \in Seq(1 .. Len(released)) \cup Seq(1 .. Len(released')),
         lost' \subseteq 1 .. Len(released),
         enabled' \in BOOLEAN, warming' \in BOOLEAN, refreshing' \in BOOLEAN, probed' \in BOOLEAN
  PROVE  EntryShapes'
<1>1. Len(released) \in Nat /\ Len(released') \in Nat
  BY DEF EntryShapes
<1>2. 1 .. Len(released) \subseteq 1 .. Len(released')
  BY <1>1
<1>3. reads' \in Seq(1 .. Len(released'))
  <2>1. ASSUME NEW s \in Seq(1 .. Len(released)) PROVE s \in Seq(1 .. Len(released'))
    <3>1. Len(s) \in Nat /\ s \in [1..Len(s) -> 1 .. Len(released)]
      BY <2>1
    <3>2. s \in [1..Len(s) -> 1 .. Len(released')]
      BY <1>2, <3>1
    <3> QED
      BY <3>1, <3>2
  <2> QED
    BY <2>1
<1> QED
  BY <1>2, <1>3 DEF EntryShapes

\* Arming makes an entry when there is none.
LEMMA ArmEntries ==
  ASSUME EntryShapes, NEW a \in 0 .. Len(released), Arm(a)
  PROVE  /\ released' \in Seq(BOOLEAN) /\ Len(released) <= Len(released')
         /\ armed' \in 1 .. Len(released') /\ armed' = Entry(a)
<1>1. released \in Seq(BOOLEAN) /\ Len(released) \in Nat
  BY DEF EntryShapes
<1>2. CASE a = 0
  <2>1. released' = Append(released, FALSE) /\ armed' = Len(released) + 1 /\ armed' = Entry(a)
    BY <1>2 DEF Arm, Entry
  <2> QED
    BY <1>1, <2>1
<1>3. CASE a # 0
  BY <1>1, <1>3 DEF Arm, Entry
<1> QED
  BY <1>2, <1>3

LEMMA EntryStep ==
  ASSUME EntryShapes, [Next]_vars
  PROVE  EntryShapes'
<1>1. /\ released \in Seq(BOOLEAN) /\ Len(released) \in Nat /\ armed \in 0 .. Len(released)
      /\ reads \in Seq(1 .. Len(released)) /\ lost \subseteq 1 .. Len(released)
      /\ enabled \in BOOLEAN /\ warming \in BOOLEAN /\ refreshing \in BOOLEAN /\ probed \in BOOLEAN
  BY DEF EntryShapes
<1>2. CASE UNCHANGED <<released, armed, reads, lost, warming, refreshing, probed>> /\ enabled' \in BOOLEAN
  BY <1>2 DEF EntryShapes
<1>3. CASE Asked
  <2>1. /\ Arm(armed) /\ reads' = Append(reads, Entry(armed))
        /\ UNCHANGED <<enabled, warming, refreshing, probed, lost>>
    BY <1>3 DEF Asked
  <2>2. /\ released' \in Seq(BOOLEAN) /\ Len(released) <= Len(released')
        /\ armed' \in 1 .. Len(released') /\ armed' = Entry(armed)
    BY <1>1, <2>1, ArmEntries
  <2>3. reads' \in Seq(1 .. Len(released'))
    <3>1. Len(reads) \in Nat /\ reads \in [1..Len(reads) -> 1 .. Len(released)] /\ Len(released') \in Nat
      BY <1>1, <2>2
    <3>2. reads \in [1..Len(reads) -> 1 .. Len(released')]
      BY <1>1, <2>2, <3>1
    <3>3. reads \in Seq(1 .. Len(released')) /\ Entry(armed) \in 1 .. Len(released')
      BY <2>2, <3>1, <3>2
    <3> QED
      BY <2>1, <3>3
  <2>4. armed' \in 0 .. Len(released')
    BY <2>2
  <2> QED
    BY <1>1, <2>1, <2>2, <2>3, <2>4, EntriesGrow
<1>4. CASE AskedAgain
  <2>1. /\ Arm(armed) /\ refreshing' = TRUE /\ UNCHANGED <<enabled, warming, probed, reads, lost>>
    BY <1>4 DEF AskedAgain, Refresh
  <2>2. /\ released' \in Seq(BOOLEAN) /\ Len(released) <= Len(released')
        /\ armed' \in 0 .. Len(released')
    BY <1>1, <2>1, ArmEntries
  <2> QED
    BY <1>1, <2>1, <2>2, EntriesGrow
<1>5. CASE ReadMiss
  <2>1. /\ reads # <<>> /\ reads' = Tail(reads) /\ probed' = TRUE
        /\ UNCHANGED <<enabled, armed, released, warming, refreshing, lost>>
    BY <1>5 DEF ReadMiss
  <2>2. reads' \in Seq(1 .. Len(released))
    BY <1>1, <2>1
  <2> QED
    BY <1>1, <2>1, <2>2 DEF EntryShapes
<1>6. CASE ReadHit
  <2>1. /\ reads # <<>> /\ reads' = Tail(reads) /\ probed' = TRUE /\ UNCHANGED enabled
        /\ lost' = IF enabled THEN lost ELSE lost \cup {Head(reads)}
    BY <1>6 DEF ReadHit
  <2>2. reads' \in Seq(1 .. Len(released)) /\ lost' \subseteq 1 .. Len(released)
    <3>1. Tail(reads) \in Seq(1 .. Len(released)) /\ Head(reads) \in 1 .. Len(released)
      BY <1>1, <2>1
    <3> QED
      BY <1>1, <2>1, <3>1
  <2>3. refreshing' \in BOOLEAN /\ warming' \in BOOLEAN
    BY <1>1, <1>6 DEF ReadHit, Refresh
  <2>4. /\ released' \in Seq(BOOLEAN) /\ Len(released) <= Len(released')
        /\ armed' \in 0 .. Len(released')
    <3>1. CASE UNCHANGED <<armed, released>>
      BY <1>1, <3>1
    <3>2. CASE armed' = 0 /\ released' = Announced(armed)
      BY <1>1, <3>2, AnnouncedEntries
    <3>3. CASE armed' = Len(released) + 1 /\ released' = Append(Announced(armed), FALSE)
      <4>1. Announced(armed) \in Seq(BOOLEAN) /\ Len(Announced(armed)) = Len(released)
        BY AnnouncedEntries
      <4> QED
        BY <1>1, <3>3, <4>1
    <3>4. CASE Arm(armed)
      BY <1>1, <3>4, ArmEntries
    <3> QED
      BY <1>6, <3>1, <3>2, <3>3, <3>4 DEF ReadHit
  <2> QED
    BY <1>1, <2>1, <2>2, <2>3, <2>4, EntriesGrow
<1>7. ASSUME NEW b \in boots, Boots(b) PROVE EntryShapes'
  <2>1. /\ released' = Announced(b.entry)
        /\ UNCHANGED <<enabled, armed, warming, refreshing, probed, reads, lost>>
    BY <1>7 DEF Boots, AnnounceSpare
  <2>2. released' \in Seq(BOOLEAN) /\ Len(released') = Len(released)
    BY <2>1, AnnouncedEntries
  <2> QED
    BY <1>1, <2>1, <2>2 DEF EntryShapes
<1>8. ASSUME NEW b, NEW ok \in BOOLEAN, Ends(b, ok), UNCHANGED <<enabled, reads, lost>> PROVE EntryShapes'
  <2>1. /\ probed' \in BOOLEAN /\ refreshing' \in BOOLEAN /\ warming' \in BOOLEAN
    BY <1>1, <1>8 DEF Ends
  <2>2. released' \in Seq(BOOLEAN) /\ Len(released') = Len(released) /\ armed' \in 0 .. Len(released)
    <3>1. CASE b.kind = "refresh" /\ warming
      <4>1. armed' = 0 /\ released' = [released EXCEPT ![b.entry] = TRUE, ![armed] = TRUE]
        BY <1>8, <3>1 DEF Ends
      <4> DEFINE one == [released EXCEPT ![b.entry] = TRUE]
      <4>2. one \in [1..Len(released) -> BOOLEAN]
        <5>1. released \in [1..Len(released) -> BOOLEAN]
          BY <1>1
        <5> QED
          BY <5>1
      <4>3. released' = [one EXCEPT ![armed] = TRUE]
        BY <4>1
      <4> HIDE DEF one
      <4>4. released' \in [1..Len(released) -> BOOLEAN]
        BY <4>2, <4>3
      <4>5. released' \in Seq(BOOLEAN) /\ Len(released') = Len(released)
        BY <1>1, <4>4
      <4> QED
        BY <1>1, <4>1, <4>5
    <3>2. CASE ~(b.kind = "refresh" /\ warming)
      BY <1>1, <1>8, <3>2, AnnouncedEntries DEF Ends
    <3> QED
      BY <3>1, <3>2
  <2> QED
    BY <1>1, <1>8, <2>1, <2>2 DEF EntryShapes
<1>9. ASSUME NEW b \in boots, BootFails(b) PROVE EntryShapes'
  BY <1>8, <1>9 DEF BootFails
<1>10. ASSUME NEW b \in boots, Lists(b) PROVE EntryShapes'
  BY <1>8, <1>10 DEF Lists
<1>11. CASE Connecting
  BY <1>1, <1>2, <1>11 DEF Connecting, Connects, Answers, AdoptFails, Restored, probeVars
<1>12. CASE Client
  BY <1>1, <1>2, <1>3, <1>4, <1>12 DEF Client, Opens, Works, TurnedOff, TurnedOn, probeVars
<1>13. CASE Agent
  BY <1>1, <1>2, <1>13 DEF Agent, AsksApproval, TurnEnds, OpenFails, probeVars
<1>14. CASE Clocks
  BY <1>1, <1>2, <1>14 DEF Clocks, Reaps, Expires, probeVars
<1>15. CASE Faults
  BY <1>1, <1>2, <1>9, <1>15 DEF Faults, Crashes, probeVars
<1>16. CASE Probing
  BY <1>5, <1>6, <1>7, <1>10, <1>16 DEF Probing
<1>17. CASE UNCHANGED vars
  BY <1>1, <1>2, <1>17 DEF vars, probeVars
<1> QED
  BY <1>11, <1>12, <1>13, <1>14, <1>15, <1>16, <1>17 DEF Next

-----------------------------------------------------------------------------
(***************************************************************************)
(* The theorems.                                                           *)
(***************************************************************************)

LEMMA HoldInit ==
  ASSUME Init
  PROVE  HoldInv /\ EntryShapes
<1> USE DEF Init
<1>1. Procs = {} /\ Ids = {} /\ Parked = {} /\ Open = {} /\ Listed = {}
  BY DEF Procs, Ids, Parked, Open, Listed
<1>2. Shapes
  BY <1>1 DEF Shapes
<1>3. EntryShapes
  <2>1. /\ released = <<>> /\ reads = <<>> /\ armed = 0 /\ lost = {}
        /\ enabled \in BOOLEAN /\ warming \in BOOLEAN /\ refreshing \in BOOLEAN /\ probed \in BOOLEAN
    OBVIOUS
  <2> HIDE DEF Init
  <2>2. <<>> \in Seq(BOOLEAN) /\ Len(<<>>) = 0 /\ \A T : <<>> \in Seq(T)
    OBVIOUS
  <2>3. armed \in 0 .. Len(released)
    BY <2>1, <2>2
  <2> QED
    BY <2>1, <2>2, <2>3 DEF EntryShapes
<1>4. RecentInv
  BY <1>1 DEF RecentInv, Orders, ToSet
<1>5. SparesInv
  BY ProcessBounds DEF SparesInv, Pool
<1> QED
  BY <1>1, <1>2, <1>3, <1>4, <1>5 DEF HoldInv, BootsInv, BorrowInv, AgentInv, ProbeKeepsItsProcess, GhostInv, StayInv

LEMMA HoldStep ==
  ASSUME HoldInv, EntryShapes, [Next]_vars
  PROVE  HoldInv'
<1>1. CASE Connecting
  BY <1>1, ConnectsHolds, AnswersHolds, AdoptFailsHolds, RestoredHolds DEF Connecting
<1>2. CASE Probing
  BY <1>2, ProbingHolds, BootsHolds, ListsHolds DEF Probing
<1>3. CASE Client
  <2>1. CASE TurnedOn
    BY <2>1, IdleHolds DEF TurnedOn, chatVars, poolVars
  <2> QED
    BY <1>3, <2>1, OpensHolds, TurnHolds, ProbingHolds, TurnedOffHolds DEF Client
<1>4. CASE Agent
  BY <1>4, TurnHolds, OpenFailsHolds DEF Agent
<1>5. CASE Clocks
  BY <1>5, ReapsHolds, ExpiresHolds DEF Clocks
<1>6. CASE Faults
  BY <1>6, BootFailsHolds, CrashesHolds DEF Faults
<1>7. CASE UNCHANGED vars
  BY <1>7, IdleHolds DEF vars, chatVars, poolVars
<1> QED
  BY <1>1, <1>2, <1>3, <1>4, <1>5, <1>6, <1>7 DEF Next

\* Where each process may be, in every state.
THEOREM HoldInvariant == Spec => [](HoldInv /\ EntryShapes)
<1>1. Init => HoldInv /\ EntryShapes
  BY HoldInit
<1>2. HoldInv /\ EntryShapes /\ [Next]_vars => HoldInv' /\ EntryShapes'
  BY HoldStep, EntryStep
<1> QED
  BY <1>1, <1>2, PTL DEF Spec, Safety

\* A sequence without repetition is as long as the set it lists.
LEMMA OrdersCount ==
  ASSUME NEW s, NEW S, Orders(s, S)
  PROVE  Len(s) = Cardinality(S)
<1>1. s \in Seq(Nat) /\ Len(s) \in Nat /\ DOMAIN s = 1..Len(s) /\ ToSet(s) = S
  BY DEF Orders
<1>2. s \in [1..Len(s) -> S] /\ \A x \in S : \E i \in 1..Len(s) : s[i] = x
  BY <1>1 DEF ToSet
<1>3. s \in Bijection(1..Len(s), S)
  <2>1. \A i, j \in 1..Len(s) : s[i] = s[j] => i = j
    BY <1>1 DEF Orders
  <2> QED
    BY <1>2, <2>1 DEF Bijection, Injection, Surjection, IsInjective
<1>4. IsFiniteSet(1..Len(s)) /\ Cardinality(1..Len(s)) = Len(s)
  <2>1. 1 \in Int /\ Len(s) \in Int
    BY <1>1
  <2>2. /\ IsFiniteSet(1..Len(s))
        /\ Cardinality(1..Len(s)) = IF 1 > Len(s) THEN 0 ELSE Len(s) - 1 + 1
    BY <2>1, FS_Interval
  <2> QED
    BY <1>1, <2>2
<1>5. Cardinality(S) = Cardinality(1..Len(s))
  BY <1>3, <1>4, FS_Bijection DEF ExistsBijection
<1> QED
  BY <1>4, <1>5

\* The daemon's maps have their types; `recent' orders exactly the open conversations,
\* and spares are bounded, no two in one directory.
THEOREM TypesHold == Spec => []TypeOK
<1>1. HoldInv /\ EntryShapes => TypeOK
  <2> SUFFICES ASSUME HoldInv, EntryShapes PROVE TypeOK
    OBVIOUS
  <2> USE DEF HoldInv
  <2>1. /\ \A p \in Procs : proc[p] \in [state : {"booting", "up", "closed", "dead"}, dir : Dirs]
        /\ \A i \in Ids : chats[i] \in Chat
        /\ boots \subseteq Boot /\ taken \subseteq Procs /\ ghosts \subseteq Ids
    <3>1. proc \in Seq(Process) /\ DOMAIN proc = Procs
      BY DEF Shapes, Procs
    <3>2. \A p \in Procs : proc[p] \in Process
      BY <3>1
    <3> QED
      BY <3>2, ChatTypes DEF Shapes, Process, States
  <2>2. ToSet(recent) = Open /\ Len(recent) = Cardinality(Open)
    BY OrdersCount DEF RecentInv, Orders
  <2>3. /\ Parked \subseteq Procs /\ Len(spares) <= MaxSpares
        /\ \A i, j \in DOMAIN spares : spares[i].dir = spares[j].dir => i = j
    BY DEF SparesInv, Pool, Parked, Procs
  <2>4. DOMAIN borrowed = Procs /\ retiring \subseteq {p \in Procs : borrowed[p] > 0}
    BY DEF Shapes, BorrowInv, Procs
  <2>5. /\ armed \in 0 .. Len(released) /\ lost \subseteq 1 .. Len(released)
        /\ ToSet(released) \cup {enabled, warming, refreshing, probed} \subseteq BOOLEAN
    BY DEF EntryShapes, ToSet
  <2> QED
    BY <2>1, <2>2, <2>3, <2>4, <2>5 DEF TypeOK
<1> QED
  BY <1>1, HoldInvariant, PTL

\* No process serves two masters, whatever spares are taken, refused, replaced or
\* expire, and whatever conversations wait for them.
THEOREM NoTwoMasters == Spec => []OneHolder
<1>1. HoldInv => OneHolder
  <2> SUFFICES ASSUME HoldInv, NEW p \in Procs
               PROVE  Cardinality(HoldersOf(p)) + (IF p \in Parked THEN 1 ELSE 0) <= 1
    BY DEF OneHolder
  <2>1. p # 0
    BY NextProcess
  <2>2. \A i, j \in HoldersOf(p) : i = j
    BY <2>1 DEF HoldersOf, HoldInv, AgentInv
  <2>3. CASE HoldersOf(p) = {}
    <3>1. Cardinality(HoldersOf(p)) = 0
      BY <2>3, FS_EmptySet
    <3> QED
      BY <3>1
  <2>4. CASE HoldersOf(p) # {}
    <3>1. PICK i \in HoldersOf(p) : TRUE
      BY <2>4
    <3>2. HoldersOf(p) = {i}
      BY <2>2, <3>1
    <3>3. Cardinality(HoldersOf(p)) = 1
      BY <3>2, FS_Singleton
    <3>4. p \notin Parked
      BY <2>1, <3>1 DEF HoldersOf, HoldInv, AgentInv
    <3> QED
      BY <3>3, <3>4
  <2> QED
    BY <2>3, <2>4
<1> QED
  BY <1>1, HoldInvariant, PTL

\* A conversation's agent works in the directory of the conversation.
THEOREM WorksWhereAsked == Spec => []RightDirectory
<1>1. HoldInv => RightDirectory
  BY DEF HoldInv, AgentInv, RightDirectory
<1> QED
  BY <1>1, HoldInvariant, PTL

\* A probe's list is cut off by nothing but the conversation that took its process.
THEOREM ListsUndisturbed == Spec => []ProbeKeepsItsProcess
<1>1. HoldInv => ProbeKeepsItsProcess
  BY DEF HoldInv
<1> QED
  BY <1>1, HoldInvariant, PTL

\* Every process that runs has a holder that will close it or hand it on, but for the
\* agent of a conversation closed while it was still being connected.
THEOREM NoneAbandoned == Spec => []NoneLeftRunning
<1>1. HoldInv => NoneLeftRunning
  <2> SUFFICES ASSUME HoldInv, NEW p \in Procs, Running(p)
               PROVE  Held(p) \/ HoldersOf(p) \cap ghosts # {}
    BY DEF NoneLeftRunning
  <2>1. CASE \E i \in Ids : chats[i].agent = p /\ (chats[i].held \/ i \in ghosts)
    BY <2>1 DEF Held, HoldersOf
  <2> QED
    BY <2>1 DEF HoldInv, StayInv, Held
<1> QED
  BY <1>1, HoldInvariant, PTL
=============================================================================
