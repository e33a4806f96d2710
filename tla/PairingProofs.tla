---------------------------- MODULE PairingProofs ----------------------------
(***************************************************************************)
(* Theorems about who may use a machine: for any phones, any number of     *)
(* rotations, crashes, reloads and registrations, and any interleaving of  *)
(* the two programs that write the pairing file.                           *)
(***************************************************************************)
EXTENDS Pairing, TLAPS

-----------------------------------------------------------------------------
\* Only a real phone has a real claim's id.
LEMMA PhoneIsReal == \A d \in Phones : IsRealClaim(d)
  BY DistinctIds DEF IsRealClaim

\* Generation 0 exists.
LEMMA FirstGen == 0 \in Gens
  BY PairingBounds DEF Gens

\* Half a file has the type of a file's content.
LEMMA FileTypes ==
  ASSUME NEW f \in Contents \cup {Torn}
  PROVE  /\ f.whole \in BOOLEAN /\ f.gen \in Gens /\ f.claim \in Claims
         /\ f.whole => f \in Contents
<1>1. CASE f \in Contents
  BY <1>1 DEF Contents
<1>2. CASE f = Torn
  BY <1>2, FirstGen DEF Torn, Claims
<1> QED
  BY <1>1, <1>2

-----------------------------------------------------------------------------
(***************************************************************************)
(* Types.                                                                  *)
(***************************************************************************)

\* What a claim taken may be.
LEMMA TakesType ==
  ASSUME NEW c \in Claims, NEW d \in Devices
  PROVE  Takes(c, d) \in Phones \cup {Nobody}
  BY DEF Takes, Devices

\* What a write leaves in the file.
LEMMA FillType ==
  ASSUME NEW doc \in Contents, Fill(doc), missed \in BOOLEAN, changed \in BOOLEAN
  PROVE  file' \in Contents \cup {Torn} /\ changed' \in BOOLEAN /\ missed' \in BOOLEAN
  BY DEF Fill, Touched

\* The reloader's states.
LEMMA ReaderTypes ==
  ASSUME NEW r \in Readers
  PROVE  /\ r.seen \in Contents \cup {Torn} /\ Resting \in Readers
         /\ Reload(r) \in Readers /\ [Resting EXCEPT !.at = "reading"] \in Readers
         /\ \A f \in Contents \cup {Torn} : [r EXCEPT !.at = "read", !.seen = f] \in Readers
         /\ [at |-> "idle", again |-> r.again, failures |-> r.failures + 1, seen |-> Torn] \in Readers
<1> USE DEF Readers
<1>2. Torn \in Contents \cup {Torn}
  OBVIOUS
<1>3. Resting \in Readers /\ [Resting EXCEPT !.at = "reading"] \in Readers
  BY <1>2 DEF Resting
<1>4. Reload(r) \in Readers
  BY DEF Reload
<1>5. ASSUME NEW f \in Contents \cup {Torn} PROVE [r EXCEPT !.at = "read", !.seen = f] \in Readers
  OBVIOUS
<1>6. [at |-> "idle", again |-> r.again, failures |-> r.failures + 1, seen |-> Torn] \in Readers
  BY <1>2
<1> QED
  BY <1>3, <1>4, <1>5, <1>6

LEMMA TypeStep == TypeOK /\ [Next]_vars => TypeOK'
<1> SUFFICES ASSUME TypeOK, [Next]_vars PROVE TypeOK'
  OBVIOUS
<1> USE DEF TypeOK, diskVars, claimVars, watchVars, pushVars, histVars
<1>1. CASE UNCHANGED vars
  BY <1>1 DEF vars
<1>2. CASE PairBegins
  BY <1>2, PairingBounds DEF PairBegins, Gens
<1>3. CASE PairOpens
  BY <1>3 DEF PairOpens, Truncate, Touched
<1>4. CASE PairFills
  <2>1. [whole |-> TRUE, gen |-> minted, claim |-> Nobody] \in Contents
    BY DEF Contents, Claims
  <2> QED
    BY <1>4, <2>1, FillType DEF PairFills
<1>5. ASSUME NEW d \in Devices, Hello(d) PROVE TypeOK'
  <2> DEFINE taken == Takes(claimedBy, d)
  <2>1. taken \in Phones \cup {Nobody}
    BY TakesType
  <2>2. claimedBy' \in Claims /\ interrupted' \in BOOLEAN
    BY <1>5, <2>1 DEF Hello, AdmitDevice, Claims
  <2>3. jobs' \subseteq Jobs
    <3>1. ASSUME taken # Nobody
          PROVE [dev |-> taken, under |-> current, at |-> "reading", seen |-> Torn] \in Jobs
      BY <2>1, <3>1 DEF Jobs
    <3> QED
      BY <1>5, <3>1 DEF Hello, AdmitDevice
  <2>4. admitted' \in [Gens -> SUBSET Phones] /\ connected' \subseteq Phones
    BY <1>5 DEF Hello
  <2> QED
    BY <1>5, <2>2, <2>3, <2>4 DEF Hello
<1>6. ASSUME NEW job \in jobs, ClaimReads(job) PROVE TypeOK'
  <2>1. file.whole => [job EXCEPT !.at = "read", !.seen = file] \in Jobs
    BY FileTypes DEF Jobs
  <2> QED
    BY <1>6, <2>1 DEF ClaimReads
<1>7. ASSUME NEW job \in jobs, ClaimOpens(job) PROVE TypeOK'
  <2>1. [job EXCEPT !.at = "open"] \in Jobs
    BY <1>7 DEF ClaimOpens, Jobs
  <2> QED
    BY <1>7, <2>1 DEF ClaimOpens, Truncate, Touched
<1>8. ASSUME NEW job \in jobs, ClaimFills(job) PROVE TypeOK'
  <2> DEFINE doc == [job.seen EXCEPT !.claim = job.dev]
  <2>1. job.seen \in Contents /\ job.dev \in Phones
    BY <1>8 DEF ClaimFills, Jobs
  <2>2. doc \in Contents
    BY <2>1 DEF Contents, Claims
  <2>3. misfiled' \in [Gens -> SUBSET Phones]
    BY <1>8, <2>1 DEF ClaimFills
  <2> QED
    BY <1>8, <2>2, <2>3, FillType DEF ClaimFills
<1>9. ASSUME NEW d \in Phones, Register(d) PROVE TypeOK'
  BY <1>9 DEF Register, QueueSave
<1>10. ASSUME NEW d \in Phones, Forget(d) PROVE TypeOK'
  BY <1>10 DEF Forget, QueueSave
<1>11. CASE SaveRuns
  BY <1>11 DEF SaveRuns
<1>12. CASE FileEvent \/ RetryFires
  <2>1. reader' \in Readers
    BY <1>12, ReaderTypes DEF FileEvent, RetryFires
  <2>2. timers' \in Nat
    BY <1>12 DEF FileEvent, RetryFires
  <2>3. changed' \in BOOLEAN
    BY <1>12 DEF FileEvent, RetryFires
  <2> QED
    BY <1>12, <2>1, <2>2, <2>3 DEF FileEvent, RetryFires
<1>13. CASE ReloadReads
  BY <1>13, ReaderTypes DEF ReloadReads
<1>14. CASE ReloadFails
  <2>1. reader' \in Readers
    BY <1>14, ReaderTypes DEF ReloadFails
  <2>2. timers' \in Nat
    BY <1>14 DEF ReloadFails
  <2>3. missed' \in BOOLEAN
    BY <1>14, ReaderTypes DEF ReloadFails
  <2> QED
    BY <1>14, <2>1, <2>2, <2>3 DEF ReloadFails
<1>15. CASE ReloadApplies
  <2>1. reader.seen.gen \in Gens /\ reader.seen.claim \in Claims
    BY FileTypes, ReaderTypes
  <2>2. current' \in Gens /\ claimedBy' \in Claims /\ connected' \subseteq Phones
        /\ targets' \subseteq Phones /\ saves' \in Nat
    BY <1>15, <2>1 DEF ReloadApplies, QueueSave
  <2> QED
    BY <1>15, <2>2, ReaderTypes DEF ReloadApplies
<1>16. CASE Start
  BY <1>16, FileTypes DEF Start, ReadPushTargets
<1>17. CASE Watch
  BY <1>17 DEF Watch
<1>18. CASE Crash
  <2>1. reader' \in Readers
    BY <1>18, ReaderTypes DEF Crash
  <2>2. budget' \in [upsets : Nat, pushes : Nat]
    BY <1>18 DEF Crash
  <2> QED
    BY <1>18, <2>1, <2>2, FirstGen DEF Crash, Claims
<1> QED
  BY <1>1, <1>2, <1>3, <1>4, <1>5, <1>6, <1>7, <1>8, <1>9, <1>10, <1>11, <1>12, <1>13, <1>14,
     <1>15, <1>16, <1>17, <1>18 DEF Next, Settles, ClaimStep

-----------------------------------------------------------------------------
(***************************************************************************)
(* The inductive invariants.                                               *)
(***************************************************************************)

\* Whoever is connected is the phone the daemon's claim names.
OwnerInv ==
  /\ \A p \in connected : claimedBy = p
  /\ phase = "down" => connected = {}

\* Every list of phones, in memory and on disk, lies inside its pairing.
BannerInv ==
  /\ connected \subseteq admitted[current]
  /\ targets \subseteq admitted[current]
  /\ pushFile.targets \subseteq admitted[pushFile.gen]

\* The command writes alone: its file is empty from opening to filling, and what
\* is whole is the pairing whose code was printed last.
FileInv ==
  /\ file.whole => file.gen = printed
  /\ cli = "idle" => minted = printed
  /\ cli # "idle" => jobs = {} /\ printed < minted
  /\ cli = "open" => ~file.whole
  /\ current <= printed
  /\ \A g \in Gens : printed < g => admitted[g] = {}

\* A claim being recorded is the claim the daemon decides by, on the pairing of
\* the file, which holds no real claim until the job fills it.
JobInv ==
  \A j \in jobs :
    /\ jobs = {j} /\ phase # "down" /\ current = printed
    /\ j.dev = claimedBy /\ j.under = printed
    /\ j.at = "open" => ~file.whole
    /\ j.at # "open" => file.whole /\ ~IsRealClaim(file.claim)
    /\ j.at # "reading" => j.seen.whole /\ j.seen.gen = printed

\* What the reloader holds is no older than the pairing in use; if it is newer,
\* its claim is the one in the file, and the one of whoever was let in with it.
ReaderInv ==
  /\ phase = "down" => reader.at = "idle" /\ timers = 0
  /\ reader.at = "read" /\ reader.seen.whole =>
       /\ current <= reader.seen.gen /\ reader.seen.gen <= printed
       /\ IsRealClaim(reader.seen.claim) => reader.seen.claim \in admitted[reader.seen.gen]
       /\ reader.seen.gen # current =>
            /\ file.whole /\ file.gen = reader.seen.gen => file.claim = reader.seen.claim
            /\ \A p \in admitted[reader.seen.gen] : reader.seen.claim = p

\* The claims in memory and in the file agree when nothing is being recorded, and
\* name the one phone their pairing has let in.
ClaimInv ==
  /\ phase # "down" /\ jobs = {} /\ file.whole /\ file.gen = current => file.claim = claimedBy
  /\ phase # "down" => \A p \in admitted[current] : claimedBy = p
  /\ jobs = {} /\ file.whole => \A p \in admitted[file.gen] : file.claim = p
  /\ phase # "down" /\ IsRealClaim(claimedBy) => claimedBy \in admitted[current]
  /\ file.whole /\ IsRealClaim(file.claim) => file.claim \in admitted[file.gen]
  /\ \A g \in Gens : \A p, q \in admitted[g] : p = q

LinkInv == ~interrupted => FileInv /\ JobInv /\ ReaderInv /\ ClaimInv

-----------------------------------------------------------------------------
(***************************************************************************)
(* The theorems on types and on who is connected.                          *)
(***************************************************************************)

\* The pairing file, the daemon, the reloader and the registry keep their types.
THEOREM TypeCorrect == Safety => []TypeOK
<1>1. Init => TypeOK
  <2> SUFFICES ASSUME Init PROVE TypeOK
    OBVIOUS
  <2>1. file \in Contents
    <3>1. PICK c \in FirstClaims : file = [whole |-> TRUE, gen |-> 0, claim |-> c]
      BY DEF Init
    <3>2. c \in Claims
      BY DistinctIds DEF Claims
    <3> QED
      BY <3>1, <3>2, FirstGen DEF Contents
  <2>2. reader \in Readers
    <3>1. Torn \in Contents \cup {Torn}
      OBVIOUS
    <3>2. Resting \in Readers
      BY <3>1 DEF Resting, Readers
    <3> QED
      BY <3>2 DEF Init
  <2>3. budget \in [upsets : Nat, pushes : Nat]
    BY PairingBounds DEF Init
  <2>4. pushFile \in [gen : Gens, targets : SUBSET Phones]
    BY FirstGen DEF Init
  <2> QED
    BY <2>1, <2>2, <2>3, <2>4, FirstGen DEF Init, TypeOK, Claims
<1> QED
  BY <1>1, TypeStep, PTL DEF Safety

\* A phone is let in only if the claim is its own afterwards.
LEMMA LetIn ==
  ASSUME TypeOK, NEW d \in Devices, Hello(d)
  PROVE  /\ d \in Phones => claimedBy' = d
         /\ IsRealClaim(claimedBy) => claimedBy' = claimedBy
         /\ d \notin Phones => claimedBy' = claimedBy
         /\ claimedBy' # claimedBy => d \in Phones /\ ~IsRealClaim(claimedBy)
<1> USE DEF Hello, AdmitDevice, Admits, Takes
<1>1. CASE d \in Phones
  <2>1. d \notin Guests /\ d # Nobody /\ IsRealClaim(d)
    BY <1>1, DistinctIds, PhoneIsReal
  <2> QED
    BY <1>1, <2>1
<1>2. CASE d \notin Phones
  BY <1>2 DEF Devices
<1> QED
  BY <1>1, <1>2

LEMMA OwnerStep == TypeOK /\ OwnerInv /\ [Next]_vars => OwnerInv'
<1> SUFFICES ASSUME TypeOK, OwnerInv, [Next]_vars PROVE OwnerInv'
  OBVIOUS
<1> USE DEF OwnerInv, diskVars, claimVars
<1>1. ASSUME NEW d \in Devices, Hello(d) PROVE OwnerInv'
  <2>1. ASSUME NEW p \in connected PROVE claimedBy' = p
    BY <1>1, <2>1, LetIn, PhoneIsReal DEF TypeOK
  <2>2. ASSUME d \in Phones PROVE claimedBy' = d
    BY <1>1, <2>2, LetIn
  <2>3. connected' = connected \cup ({d} \cap Phones) /\ phase' # "down"
    BY <1>1 DEF Hello
  <2> QED
    BY <2>1, <2>2, <2>3
<1>2. CASE Start
  BY <1>2 DEF Start
<1>3. CASE ReloadApplies
  BY <1>3 DEF ReloadApplies
<1>4. CASE Crash
  BY <1>4 DEF Crash
<1>5. CASE UNCHANGED <<claimedBy, connected>> /\ (phase' = "down" => phase = "down")
  BY <1>5
<1>6. ASSUME Next, ~Start, ~ReloadApplies, ~Crash, ~\E d \in Devices : Hello(d)
      PROVE  UNCHANGED <<claimedBy, connected>> /\ (phase' = "down" => phase = "down")
  BY <1>6 DEF Next, Settles, ClaimStep, PairBegins, PairOpens, PairFills, ClaimReads, ClaimOpens,
     ClaimFills, Register, Forget, SaveRuns, FileEvent, RetryFires, ReloadReads, ReloadFails, Watch
<1> QED
  BY <1>1, <1>2, <1>3, <1>4, <1>5, <1>6 DEF vars

\* No two phones hold an authenticated socket at once (server.ts admitDevice),
\* whatever the file, the command and the reloader do.
THEOREM OnePhoneConnected == Safety => []OneOwner
<1>1. Init => OwnerInv
  BY DEF Init, OwnerInv
<1>2. OwnerInv => OneOwner
  BY DEF OwnerInv, OneOwner
<1> QED
  BY <1>1, <1>2, TypeCorrect, OwnerStep, PTL DEF Safety

-----------------------------------------------------------------------------
(***************************************************************************)
(* Who is sent banners.                                                    *)
(***************************************************************************)
LEMMA BannerStep == TypeOK /\ OwnerInv /\ BannerInv /\ [Next]_vars => BannerInv'
<1> SUFFICES ASSUME TypeOK, OwnerInv, BannerInv, [Next]_vars PROVE BannerInv'
  OBVIOUS
<1> USE DEF BannerInv, diskVars, claimVars, pushVars, histVars
<1>1. ASSUME NEW d \in Devices, Hello(d) PROVE BannerInv'
  <2>1. /\ admitted[current] \subseteq admitted'[current]
        /\ {d} \cap Phones \subseteq admitted'[current]
        /\ admitted[pushFile.gen] \subseteq admitted'[pushFile.gen]
    BY <1>1 DEF Hello, TypeOK
  <2> QED
    BY <1>1, <2>1 DEF Hello
<1>2. ASSUME NEW d \in Phones, Register(d) \/ Forget(d) PROVE BannerInv'
  BY <1>2 DEF Register, Forget
<1>3. CASE SaveRuns
  BY <1>3 DEF SaveRuns
<1>4. CASE ReloadApplies
  BY <1>4 DEF ReloadApplies
<1>5. CASE Start
  BY <1>5 DEF Start, ReadPushTargets, OwnerInv
<1>6. CASE Crash
  BY <1>6 DEF Crash
<1>7. CASE UNCHANGED <<connected, current, targets, pushFile, admitted>>
  BY <1>7
<1>8. ASSUME Next, ~Start, ~ReloadApplies, ~Crash, ~SaveRuns, ~\E d \in Devices : Hello(d),
             ~\E d \in Phones : Register(d) \/ Forget(d)
      PROVE  UNCHANGED <<connected, current, targets, pushFile, admitted>>
  BY <1>8 DEF Next, Settles, ClaimStep, PairBegins, PairOpens, PairFills, ClaimReads, ClaimOpens,
     ClaimFills, FileEvent, RetryFires, ReloadReads, ReloadFails, Watch
<1> QED
  BY <1>1, <1>2, <1>3, <1>4, <1>5, <1>6, <1>7, <1>8 DEF vars

\* Banners go to no device that was not let in with the pairing in use: a rotation
\* forgets the phones of the last pairing, across restarts too (push-store.ts).
THEOREM BannersOnlyInside == Safety => []BannersStayInside
<1>1. Init => OwnerInv /\ BannerInv
  BY FirstGen DEF Init, OwnerInv, BannerInv
<1>2. BannerInv => BannersStayInside
  BY DEF BannerInv, BannersStayInside
<1> QED
  BY <1>1, <1>2, TypeCorrect, OwnerStep, BannerStep, PTL DEF Safety

-----------------------------------------------------------------------------
(***************************************************************************)
(* A link admits one phone.                                                *)
(***************************************************************************)
LinkParts == FileInv /\ JobInv /\ ReaderInv /\ ClaimInv

\* The command only begins while nothing is being recorded.
LEMMA LinkCommand ==
  ASSUME TypeOK, LinkParts, ~interrupted', PairBegins \/ PairOpens \/ PairFills
  PROVE  LinkParts'
<1> USE DEF LinkParts, TypeOK, claimVars, watchVars
<1>0. reader' = reader /\ phase' = phase /\ current' = current /\ claimedBy' = claimedBy
      /\ jobs' = jobs /\ admitted' = admitted /\ timers' = timers
  BY DEF PairBegins, PairOpens, PairFills
<1>1. CASE PairBegins
  <2>1. jobs = {} /\ file' = file /\ printed' = printed /\ cli' = "read" /\ minted' = minted + 1
    BY <1>1 DEF PairBegins
  <2>2. FileInv' /\ JobInv'
    BY <1>1, <1>0, <2>1 DEF PairBegins, FileInv, JobInv, Gens
  <2>3. ReaderInv' /\ ClaimInv'
    BY <1>0, <2>1 DEF ReaderInv, ClaimInv
  <2> QED
    BY <2>2, <2>3
<1>2. CASE PairOpens
  <2>1. jobs = {} /\ ~file'.whole /\ printed' = printed /\ minted' = minted /\ cli' = "open"
        /\ printed < minted
    BY <1>2 DEF PairOpens, Truncate, Torn, FileInv
  <2>2. FileInv' /\ JobInv'
    BY <1>0, <2>1 DEF FileInv, JobInv
  <2>3. ReaderInv' /\ ClaimInv'
    BY <1>0, <2>1 DEF ReaderInv, ClaimInv
  <2> QED
    BY <2>2, <2>3
<1>3. CASE PairFills
  <2>1. jobs = {} /\ printed < minted /\ ~file.whole
    BY <1>3 DEF PairFills, FileInv
  <2>2. file' = [whole |-> TRUE, gen |-> minted, claim |-> Nobody]
        /\ printed' = minted /\ minted' = minted /\ cli' = "idle"
    BY <1>3, <2>1 DEF PairFills, Fill
  <2>3. FileInv' /\ JobInv'
    BY <1>0, <2>1, <2>2 DEF FileInv, JobInv, Gens
  <2>4. ReaderInv'
    <3>1. reader.seen.gen \in Gens
      BY ReaderTypes, FileTypes
    <3>2. reader.at = "read" /\ reader.seen.whole => reader.seen.gen <= printed' /\ reader.seen.gen # file'.gen
      BY <2>1, <2>2, <3>1 DEF ReaderInv, Gens
    <3> QED
      BY <1>0, <3>2 DEF ReaderInv
  <2>5. ClaimInv'
    <3>1. admitted[minted] = {}
      BY <2>1 DEF FileInv
    <3>2. current # minted
      BY <2>1 DEF FileInv, Gens
    <3> QED
      BY <1>0, <2>1, <2>2, <3>1, <3>2 DEF ClaimInv, IsRealClaim
  <2> QED
    BY <2>3, <2>4, <2>5
<1> QED
  BY <1>1, <1>2, <1>3

\* A hello that takes the claim finds the file whole, at rest and unclaimed.
LEMMA LinkHello ==
  ASSUME TypeOK, LinkParts, ~interrupted', NEW d \in Devices, Hello(d)
  PROVE  LinkParts'
<1> USE DEF LinkParts, TypeOK, diskVars, watchVars
<1> DEFINE taken == Takes(claimedBy, d)
<1>0. /\ file' = file /\ minted' = minted /\ printed' = printed /\ cli' = cli
      /\ phase' = phase /\ phase # "down" /\ current' = current /\ reader' = reader /\ timers' = timers
      /\ current <= printed
      /\ admitted' = [admitted EXCEPT ![current] = @ \cup ({d} \cap Phones)]
  BY DEF Hello
<1>1. \A g \in Gens : g # current => admitted'[g] = admitted[g]
  BY <1>0
<1>2. \A p \in admitted'[current] : claimedBy' = p
  <2>1. \A p \in admitted[current] : p \in Phones /\ claimedBy = p
    BY <1>0 DEF ClaimInv
  <2>2. \A p \in admitted[current] : claimedBy' = p
    BY <2>1, LetIn, PhoneIsReal
  <2>3. d \in Phones => claimedBy' = d
    BY LetIn
  <2> QED
    BY <1>0, <2>2, <2>3
<1>3. IsRealClaim(claimedBy') => claimedBy' \in admitted'[current]
  BY <1>0, LetIn DEF ClaimInv
<1>4. ReaderInv' /\ FileInv'
  <2>1. FileInv'
    <3>1. cli # "idle" => jobs' = jobs
      BY DEF Hello, AdmitDevice
    <3>2. \A g \in Gens : printed < g => g # current
      BY <1>0 DEF Gens
    <3> QED
      BY <1>0, <1>1, <3>1, <3>2 DEF FileInv
  <2>2. reader.at = "read" => reader.seen.gen \in Gens
    BY ReaderTypes, FileTypes
  <2>3. ReaderInv'
    BY <1>0, <1>1, <2>2 DEF ReaderInv
  <2> QED
    BY <2>1, <2>3
<1>5. \A g \in Gens : \A p, q \in admitted'[g] : p = q
  BY <1>0, <1>1, <1>2 DEF ClaimInv
<1>6. file.whole => file.gen \in Gens
  BY FileTypes
<1>7. file.whole /\ IsRealClaim(file.claim) => file.claim \in admitted'[file.gen]
  BY <1>0, <1>6 DEF ClaimInv
<1>8. CASE taken = Nobody
  <2>1. claimedBy' = claimedBy /\ jobs' = jobs
    BY <1>8 DEF Hello, AdmitDevice
  <2>2. JobInv'
    BY <1>0, <2>1 DEF JobInv
  <2>3. jobs = {} /\ file.whole => \A p \in admitted'[file.gen] : file.claim = p
    BY <1>0, <1>1, <1>2, <1>6, <2>1 DEF ClaimInv
  <2> QED
    BY <1>0, <1>2, <1>3, <1>4, <1>5, <1>7, <2>1, <2>2, <2>3 DEF ClaimInv
<1>9. CASE taken # Nobody
  <2> DEFINE job == [dev |-> taken, under |-> current, at |-> "reading", seen |-> Torn]
  <2>1. /\ claimedBy' = taken /\ jobs' = jobs \cup {job}
        /\ cli = "idle" /\ file.whole /\ file.gen = current
    BY <1>9 DEF Hello, AdmitDevice
  <2>2. ~IsRealClaim(claimedBy)
    BY <1>9 DEF Takes
  <2>3. jobs = {}
    BY <2>2, PhoneIsReal DEF JobInv, Jobs
  <2>4. ~IsRealClaim(file.claim)
    BY <1>0, <2>1, <2>2, <2>3 DEF ClaimInv
  <2>5. JobInv'
    BY <1>0, <2>1, <2>3, <2>4 DEF JobInv, FileInv
  <2>6. jobs' # {}
    BY <2>1
  <2> QED
    BY <1>0, <1>2, <1>3, <1>4, <1>5, <1>7, <2>5, <2>6 DEF ClaimInv
<1> QED
  BY <1>8, <1>9

\* A claim being recorded goes through with nobody in its way.
LEMMA LinkClaim ==
  ASSUME TypeOK, LinkParts, NEW job \in jobs, ClaimReads(job) \/ ClaimOpens(job) \/ ClaimFills(job)
  PROVE  LinkParts'
<1> USE DEF LinkParts, TypeOK, watchVars, histVars
<1>0. /\ minted' = minted /\ printed' = printed /\ cli' = cli /\ phase' = phase
      /\ current' = current /\ claimedBy' = claimedBy /\ reader' = reader /\ timers' = timers
      /\ admitted' = admitted
  BY DEF ClaimReads, ClaimOpens, ClaimFills, diskVars
<1>1. /\ jobs = {job} /\ phase # "down" /\ current = printed /\ job.dev = claimedBy /\ job.dev \in Phones
      /\ cli = "idle"
  BY DEF JobInv, FileInv, Jobs
<1>2. IsRealClaim(claimedBy) /\ claimedBy \in admitted[current]
  BY <1>1, PhoneIsReal DEF ClaimInv
<1>3. reader.at = "read" /\ reader.seen.whole => reader.seen.gen = current
  <2>1. reader.seen.gen \in Gens
    BY ReaderTypes, FileTypes
  <2> QED
    BY <1>1, <2>1 DEF ReaderInv, Gens
<1>4. CASE ClaimReads(job)
  <2>1. file' = file /\ job.at = "reading" /\ file.whole /\ ~IsRealClaim(file.claim)
    BY <1>4 DEF ClaimReads, diskVars, JobInv
  <2>2. jobs' = {[job EXCEPT !.at = "read", !.seen = file]}
    BY <1>1, <1>4, <2>1 DEF ClaimReads
  <2>3. \A k \in jobs' : k.dev = job.dev /\ k.under = job.under /\ k.at = "read" /\ k.seen = file
    BY <2>2 DEF Jobs
  <2>4. JobInv'
    BY <1>0, <1>1, <2>1, <2>2, <2>3 DEF JobInv, FileInv
  <2>5. jobs' # {}
    BY <2>2
  <2> QED
    BY <1>0, <1>1, <2>1, <2>4, <2>5 DEF FileInv, ReaderInv, ClaimInv
<1>5. CASE ClaimOpens(job)
  <2>1. ~file'.whole /\ job.at = "read"
    BY <1>5 DEF ClaimOpens, Truncate, Torn
  <2>2. jobs' = {[job EXCEPT !.at = "open"]}
    BY <1>1, <1>5 DEF ClaimOpens
  <2>3. [job EXCEPT !.at = "open"] =
          [dev |-> job.dev, under |-> job.under, at |-> "open", seen |-> job.seen]
    BY DEF Jobs
  <2>4. JobInv'
    BY <1>0, <1>1, <2>1, <2>2, <2>3 DEF JobInv
  <2>5. jobs' # {}
    BY <2>2
  <2> QED
    BY <1>0, <1>1, <2>1, <2>4, <2>5 DEF FileInv, ReaderInv, ClaimInv
<1>6. CASE ClaimFills(job)
  <2>1. ~file.whole /\ job.at = "open" /\ job.seen.whole /\ job.seen.gen = printed
    BY <1>6 DEF ClaimFills, JobInv
  <2>2. job.seen \in Contents
    BY <2>1 DEF Jobs
  <2>3. file' = [whole |-> TRUE, gen |-> current, claim |-> claimedBy]
    BY <1>1, <1>6, <2>1, <2>2 DEF ClaimFills, Fill, Contents
  <2>4. jobs' = {}
    BY <1>1, <1>6 DEF ClaimFills
  <2>5. FileInv' /\ JobInv'
    BY <1>0, <1>1, <2>3, <2>4 DEF FileInv, JobInv
  <2>6. ReaderInv'
    BY <1>0, <1>1, <1>3 DEF ReaderInv
  <2>7. ClaimInv'
    BY <1>0, <1>1, <1>2, <2>3, <2>4 DEF ClaimInv
  <2> QED
    BY <2>5, <2>6, <2>7
<1> QED
  BY <1>4, <1>5, <1>6

\* What leaves the file, the command, the claim and the sockets' history alone.
Untouched == UNCHANGED <<diskVars, phase, current, claimedBy, jobs, admitted>>

LEMMA LinkFrame ==
  ASSUME LinkParts, Untouched, ReaderInv'
  PROVE  LinkParts'
  BY DEF Untouched, diskVars, LinkParts, FileInv, JobInv, ClaimInv

\* The reloader follows the file and applies what it read.
LEMMA LinkReload ==
  ASSUME TypeOK, LinkParts,
         FileEvent \/ RetryFires \/ ReloadReads \/ ReloadFails \/ ReloadApplies
  PROVE  LinkParts'
<1> USE DEF LinkParts, TypeOK
<1>1. CASE FileEvent \/ RetryFires
  <2>1. Untouched
    BY <1>1 DEF FileEvent, RetryFires, Untouched, claimVars, histVars
  <2>2. phase = "down" => ~(FileEvent \/ RetryFires)
    BY DEF FileEvent, RetryFires, ReaderInv
  <2>3. reader.at = "read" => reader' = [reader EXCEPT !.again = TRUE]
    BY <1>1 DEF FileEvent, RetryFires, Reload
  <2>4. reader'.at = "read" => reader.at = "read" /\ reader'.seen = reader.seen
    BY <1>1, <2>3 DEF FileEvent, RetryFires, Reload, Readers
  <2>5. ReaderInv'
    BY <1>1, <2>1, <2>2, <2>4 DEF ReaderInv, Untouched, diskVars
  <2> QED
    BY <2>1, <2>5, LinkFrame
<1>2. CASE ReloadReads
  <2>1. Untouched /\ timers' = timers
    BY <1>2 DEF ReloadReads, Untouched, claimVars, histVars
  <2>2. phase # "down"
    BY <1>2 DEF ReloadReads, ReaderInv
  <2>3. reader'.at = "read" /\ reader'.seen = file
    BY <1>2 DEF ReloadReads, Readers
  <2>4. file.whole => file.gen \in Gens /\ file.gen = printed /\ current <= file.gen /\ file.gen <= printed
    BY FileTypes DEF FileInv, Gens
  <2>5. file.whole /\ file.gen # current => jobs = {}
    BY DEF FileInv, JobInv
  <2>6. ReaderInv'
    BY <2>1, <2>2, <2>3, <2>4, <2>5 DEF ReaderInv, ClaimInv, Untouched, diskVars
  <2> QED
    BY <2>1, <2>6, LinkFrame
<1>3. CASE ReloadFails
  <2>1. Untouched
    BY <1>3 DEF ReloadFails, Untouched, claimVars
  <2>2. phase # "down"
    BY <1>3 DEF ReloadFails, ReaderInv
  <2>3. reader'.at = "idle"
    BY <1>3 DEF ReloadFails, Resting, Readers
  <2>4. ReaderInv'
    BY <2>1, <2>2, <2>3 DEF ReaderInv, Untouched
  <2> QED
    BY <2>1, <2>4, LinkFrame
<1>4. CASE ReloadApplies
  <2>1. phase # "down" /\ phase' = phase /\ reader.seen.whole
    BY <1>4 DEF ReloadApplies, ReaderInv
  <2>2. reader'.at # "read"
    BY <1>4 DEF ReloadApplies, Resting
  <2>3. ReaderInv'
    BY <2>1, <2>2 DEF ReaderInv
  <2>4. CASE reader.seen.gen = current
    BY <1>4, <2>3, <2>4, LinkFrame DEF ReloadApplies, Untouched, histVars
  <2>5. CASE reader.seen.gen # current
    <3>1. /\ current' = reader.seen.gen /\ claimedBy' = reader.seen.claim
          /\ UNCHANGED <<diskVars, jobs, admitted>>
      BY <1>4, <2>5 DEF ReloadApplies, histVars
    <3>2. /\ current <= reader.seen.gen /\ reader.seen.gen <= printed /\ reader.seen.gen \in Gens
          /\ IsRealClaim(reader.seen.claim) => reader.seen.claim \in admitted[reader.seen.gen]
          /\ file.whole /\ file.gen = reader.seen.gen => file.claim = reader.seen.claim
          /\ \A p \in admitted[reader.seen.gen] : reader.seen.claim = p
      BY <1>4, <2>5, ReaderTypes, FileTypes DEF ReloadApplies, ReaderInv
    <3>3. jobs = {}
      BY <2>5, <3>2 DEF JobInv, Gens
    <3>4. FileInv' /\ JobInv'
      BY <3>1, <3>2, <3>3 DEF FileInv, JobInv, diskVars
    <3>5. ClaimInv'
      BY <2>1, <3>1, <3>2, <3>3 DEF ClaimInv, diskVars
    <3> QED
      BY <2>3, <3>4, <3>5
  <2> QED
    BY <2>4, <2>5
<1> QED
  BY <1>1, <1>2, <1>3, <1>4

\* A daemon begins with what the file says, and one that dies loses no claim.
LEMMA LinkLife ==
  ASSUME TypeOK, LinkParts, ~interrupted', Start \/ Watch \/ Crash
  PROVE  LinkParts'
<1> USE DEF LinkParts, TypeOK
<1>1. CASE Start
  <2>1. /\ phase = "down" /\ phase' = "starting" /\ file.whole /\ file.gen \in Gens
        /\ current' = file.gen /\ claimedBy' = file.claim
        /\ UNCHANGED <<diskVars, jobs, reader, timers, admitted>>
    BY <1>1, FileTypes DEF Start, watchVars, histVars
  <2>2. jobs = {}
    BY <2>1 DEF JobInv
  <2>3. FileInv' /\ JobInv'
    BY <2>1, <2>2 DEF FileInv, JobInv, diskVars, Gens
  <2>4. ReaderInv'
    BY <2>1 DEF ReaderInv
  <2>5. ClaimInv'
    BY <2>1, <2>2 DEF ClaimInv, diskVars
  <2> QED
    BY <2>3, <2>4, <2>5
<1>2. CASE Watch
  <2>1. /\ phase = "starting" /\ phase' = "up"
        /\ UNCHANGED <<diskVars, current, claimedBy, jobs, reader, timers, admitted>>
    BY <1>2 DEF Watch, claimVars, watchVars, histVars
  <2>2. FileInv' /\ JobInv'
    BY <2>1 DEF FileInv, JobInv, diskVars
  <2>3. ReaderInv'
    BY <2>1 DEF ReaderInv, diskVars
  <2>4. ClaimInv'
    BY <2>1 DEF ClaimInv, diskVars
  <2> QED
    BY <2>2, <2>3, <2>4
<1>3. CASE Crash
  <2>1. /\ phase' = "down" /\ current' = 0 /\ jobs = {} /\ jobs' = {} /\ timers' = 0
        /\ UNCHANGED <<diskVars, admitted>>
    BY <1>3 DEF Crash
  <2>2. reader'.at = "idle"
    BY <1>3 DEF Crash, Resting
  <2>3. FileInv' /\ JobInv'
    BY <2>1 DEF FileInv, JobInv, diskVars, Gens
  <2>4. ReaderInv' /\ ClaimInv'
    BY <2>1, <2>2 DEF ReaderInv, ClaimInv, diskVars
  <2> QED
    BY <2>3, <2>4
<1> QED
  BY <1>1, <1>2, <1>3

\* A disturbance is never forgotten.
LEMMA Undisturbed == [Next]_vars /\ ~interrupted' => ~interrupted
  BY DEF vars, histVars, claimVars, Next, Settles, ClaimStep, PairBegins, PairOpens, PairFills, Hello,
     AdmitDevice, ClaimReads, ClaimOpens, ClaimFills, Register, Forget, SaveRuns, FileEvent,
     RetryFires, ReloadReads, ReloadFails, ReloadApplies, Start, Watch, Crash

LEMMA LinkStep == TypeOK /\ LinkInv /\ [Next]_vars => LinkInv'
<1> SUFFICES ASSUME TypeOK, LinkInv, [Next]_vars, ~interrupted' PROVE LinkParts'
  BY DEF LinkInv, LinkParts
<1>1. ~interrupted
  BY Undisturbed
<1>2. LinkParts
  BY <1>1 DEF LinkInv, LinkParts
<1>3. CASE PairBegins \/ PairOpens \/ PairFills
  BY <1>2, <1>3, LinkCommand
<1>4. ASSUME NEW d \in Devices, Hello(d) PROVE LinkParts'
  BY <1>2, <1>4, LinkHello
<1>5. CASE ClaimStep
  BY <1>2, <1>5, LinkClaim DEF ClaimStep
<1>6. CASE FileEvent \/ RetryFires \/ ReloadReads \/ ReloadFails \/ ReloadApplies
  BY <1>2, <1>6, LinkReload
<1>7. CASE Start \/ Watch \/ Crash
  BY <1>2, <1>7, LinkLife
<1>8. CASE SaveRuns \/ (\E d \in Phones : Register(d) \/ Forget(d)) \/ UNCHANGED vars
  <2>1. Untouched /\ UNCHANGED <<reader, timers>>
    BY <1>8 DEF SaveRuns, Register, Forget, vars, claimVars, watchVars, histVars, Untouched
  <2>2. ReaderInv'
    BY <1>2, <2>1 DEF LinkParts, ReaderInv, Untouched, diskVars
  <2> QED
    BY <1>2, <2>1, <2>2, LinkFrame
<1> QED
  BY <1>3, <1>4, <1>5, <1>6, <1>7, <1>8 DEF Next, Settles

LEMMA LinkInit == Init => LinkInv
<1> SUFFICES ASSUME Init PROVE LinkParts
  BY DEF LinkInv, LinkParts
<1>1. PICK c \in FirstClaims : file = [whole |-> TRUE, gen |-> 0, claim |-> c]
  BY DEF Init
<1>2. ~IsRealClaim(c)
  BY DistinctIds DEF IsRealClaim
<1>3. reader.at = "idle"
  BY DEF Init, Resting
<1>4. \A g \in Gens : admitted[g] = {}
  BY DEF Init
<1> QED
  BY <1>1, <1>2, <1>3, <1>4, FirstGen DEF Init, LinkParts, FileInv, JobInv, ReaderInv, ClaimInv

\* However its sockets, reloads, restarts and claims interleave, a pairing link
\* admits one phone, unless a claim was taken while the file held or was getting
\* another pairing, or a command or a crash fell into its write.
THEOREM OnePhonePerLink == Safety => []LinkAdmitsOne
<1>1. LinkInv => LinkAdmitsOne
  BY DEF LinkInv, ClaimInv, LinkAdmitsOne
<1> QED
  BY <1>1, LinkInit, TypeCorrect, LinkStep, PTL DEF Safety

-----------------------------------------------------------------------------
(***************************************************************************)
(* A claim is earned.                                                      *)
(***************************************************************************)

\* The claim of pairing g is a phone that was let in with it, or one claimPairing
\* wrote into its file for another.
EarnedBy(c, g) == IsRealClaim(c) => c \in admitted[g] \cup misfiled[g]

\* This holds wherever a claim is kept, or on its way: in the file, in what the
\* reloader read, in the daemon, and in the calls that will write one.
EarnedInv ==
  /\ \A j \in jobs : j.dev \in admitted[j.under]
  /\ file.whole => EarnedBy(file.claim, file.gen)
  /\ reader.seen.whole => EarnedBy(reader.seen.claim, reader.seen.gen)
  /\ phase # "down" => EarnedBy(claimedBy, current)

\* A hello's claim is recorded for a phone that is let in by it.
LEMMA EarnedHello ==
  ASSUME TypeOK, EarnedInv, NEW d \in Devices, Hello(d)
  PROVE  EarnedInv'
<1> USE DEF TypeOK, EarnedInv, EarnedBy
<1>1. /\ UNCHANGED <<file, reader, phase, current, misfiled>> /\ phase # "down"
      /\ admitted' = [admitted EXCEPT ![current] = @ \cup ({d} \cap Phones)]
  BY DEF Hello, diskVars, watchVars
<1>2. \A g \in Gens : admitted[g] \subseteq admitted'[g]
  BY <1>1
<1>3. \A j \in jobs : j.under \in Gens
  BY DEF Jobs
<1>4. /\ file.gen \in Gens /\ reader.seen.gen \in Gens
  BY FileTypes, ReaderTypes
<1>5. d \in Phones => d \in admitted'[current]
  BY <1>1
<1>6. \A j \in jobs' : j.dev \in admitted'[j.under]
  <2> DEFINE taken == Takes(claimedBy, d)
  <2>1. CASE taken = Nobody
    BY <1>2, <1>3, <2>1 DEF Hello, AdmitDevice
  <2>2. CASE taken # Nobody
    <3>1. taken = d /\ d \in Phones
      BY <2>2 DEF Takes, Devices
    <3>2. jobs' = jobs \cup {[dev |-> taken, under |-> current, at |-> "reading", seen |-> Torn]}
      BY <2>2 DEF Hello, AdmitDevice
    <3> QED
      BY <1>2, <1>3, <1>5, <3>1, <3>2
  <2> QED
    BY <2>1, <2>2
<1>7. IsRealClaim(claimedBy') => claimedBy' \in admitted'[current] \cup misfiled[current]
  BY <1>1, <1>2, <1>5, LetIn
<1> QED
  BY <1>1, <1>2, <1>4, <1>6, <1>7

\* A claim is written into the pairing it was taken for, or into another, which
\* misfiled remembers.
LEMMA EarnedFill ==
  ASSUME TypeOK, EarnedInv, NEW job \in jobs, ClaimFills(job)
  PROVE  EarnedInv'
<1> USE DEF TypeOK, EarnedInv, EarnedBy
<1>1. /\ UNCHANGED <<phase, current, claimedBy, reader, admitted>> /\ jobs' \subseteq jobs
  BY DEF ClaimFills
<1>2. /\ job.dev \in Phones /\ job.seen \in Contents
  BY DEF ClaimFills, Jobs
<1>3. job.seen.gen \in Gens /\ job.dev \in admitted[job.under]
  BY <1>2 DEF Contents
<1>4. \A g \in Gens : misfiled[g] \subseteq misfiled'[g]
  BY <1>3 DEF ClaimFills
<1>5. job.dev \in admitted[job.seen.gen] \cup misfiled'[job.seen.gen]
  BY <1>3 DEF ClaimFills
<1>6. file'.whole => file'.gen = job.seen.gen /\ file'.claim = job.dev
  <2> DEFINE doc == [job.seen EXCEPT !.claim = job.dev]
  <2>1. file' = doc \/ file' = Torn
    BY DEF ClaimFills, Fill
  <2>2. doc.gen = job.seen.gen /\ doc.claim = job.dev
    BY <1>2 DEF Contents
  <2>3. ~Torn.whole
    BY DEF Torn
  <2> QED
    BY <2>1, <2>2, <2>3
<1>7. reader.seen.gen \in Gens
  BY FileTypes, ReaderTypes
<1>8. reader'.seen.whole => EarnedBy(reader.seen.claim, reader.seen.gen)'
  BY <1>1, <1>4, <1>7
<1>9. phase' # "down" => EarnedBy(claimedBy, current)'
  BY <1>1, <1>4
<1>10. file'.whole => EarnedBy(file.claim, file.gen)'
  BY <1>1, <1>5, <1>6
<1> QED
  BY <1>1, <1>8, <1>9, <1>10

LEMMA EarnedStep == TypeOK /\ EarnedInv /\ [Next]_vars => EarnedInv'
<1> SUFFICES ASSUME TypeOK, EarnedInv, [Next]_vars PROVE EarnedInv'
  OBVIOUS
<1> USE DEF EarnedInv, EarnedBy, diskVars, claimVars, watchVars, histVars
<1>1. CASE PairBegins
  BY <1>1 DEF PairBegins
<1>2. CASE PairOpens
  BY <1>2 DEF PairOpens, Truncate, Torn
<1>3. CASE PairFills
  <2>1. file'.whole => file'.claim = Nobody
    BY <1>3 DEF PairFills, Fill, Torn
  <2> QED
    BY <1>3, <2>1 DEF PairFills, IsRealClaim
<1>4. ASSUME NEW d \in Devices, Hello(d) PROVE EarnedInv'
  BY <1>4, EarnedHello
<1>5. ASSUME NEW job \in jobs, ClaimReads(job) PROVE EarnedInv'
  <2>1. \A j \in jobs' : j \in jobs \/ (j.dev = job.dev /\ j.under = job.under)
    <3>1. job \in Jobs
      BY DEF TypeOK
    <3>2. LET k == [job EXCEPT !.at = "read", !.seen = file] IN k.dev = job.dev /\ k.under = job.under
      BY <3>1 DEF Jobs
    <3> QED
      BY <1>5, <3>2 DEF ClaimReads
  <2> QED
    BY <1>5, <2>1 DEF ClaimReads
<1>6. ASSUME NEW job \in jobs, ClaimOpens(job) PROVE EarnedInv'
  <2>1. \A j \in jobs' : j \in jobs \/ (j.dev = job.dev /\ j.under = job.under)
    <3>1. job \in Jobs
      BY DEF TypeOK
    <3>2. LET k == [job EXCEPT !.at = "open"] IN k.dev = job.dev /\ k.under = job.under
      BY <3>1 DEF Jobs
    <3> QED
      BY <1>6, <3>2 DEF ClaimOpens
  <2>2. ~file'.whole
    BY <1>6 DEF ClaimOpens, Truncate, Torn
  <2> QED
    BY <1>6, <2>1, <2>2 DEF ClaimOpens
<1>7. ASSUME NEW job \in jobs, ClaimFills(job) PROVE EarnedInv'
  BY <1>7, EarnedFill
<1>8. CASE SaveRuns \/ Watch \/ (\E d \in Phones : Register(d) \/ Forget(d)) \/ UNCHANGED vars
  BY <1>8 DEF SaveRuns, Watch, Register, Forget, vars
<1>9. CASE FileEvent \/ RetryFires
  <2>1. reader'.seen = reader.seen
    BY <1>9 DEF FileEvent, RetryFires, Reload, TypeOK, Readers
  <2> QED
    BY <1>9, <2>1 DEF FileEvent, RetryFires
<1>10. CASE ReloadReads
  <2>1. reader'.seen = file
    BY <1>10 DEF ReloadReads, TypeOK, Readers
  <2> QED
    BY <1>10, <2>1 DEF ReloadReads
<1>11. CASE ReloadFails
  <2>1. ~reader'.seen.whole
    BY <1>11 DEF ReloadFails, Resting, Torn
  <2> QED
    BY <1>11, <2>1 DEF ReloadFails
<1>12. CASE ReloadApplies
  <2>1. ~reader'.seen.whole
    BY <1>12 DEF ReloadApplies, Resting, Torn
  <2> QED
    BY <1>12, <2>1 DEF ReloadApplies
<1>13. CASE Start
  BY <1>13 DEF Start
<1>14. CASE Crash
  <2>1. ~reader'.seen.whole /\ phase' = "down" /\ jobs' = {}
    BY <1>14 DEF Crash, Resting, Torn
  <2> QED
    BY <1>14, <2>1 DEF Crash
<1> QED
  BY <1>1, <1>2, <1>3, <1>4, <1>5, <1>6, <1>7, <1>8, <1>9, <1>10, <1>11, <1>12, <1>13, <1>14
     DEF Next, Settles, ClaimStep

\* What goes undisturbed to the disk is filed under the pairing that was claimed.
FiledInv == ~interrupted => \A g \in Gens : misfiled[g] = {}

LEMMA FiledStep == TypeOK /\ LinkInv /\ FiledInv /\ [Next]_vars => FiledInv'
<1> SUFFICES ASSUME TypeOK, LinkInv, FiledInv, [Next]_vars, ~interrupted' PROVE misfiled' = misfiled
  BY Undisturbed DEF FiledInv
<1>1. CASE \E job \in jobs : ClaimFills(job)
  <2>1. PICK job \in jobs : ClaimFills(job)
    BY <1>1
  <2>2. JobInv
    BY Undisturbed DEF LinkInv
  <2>3. job.seen.gen = job.under
    BY <2>1, <2>2 DEF JobInv, ClaimFills
  <2> QED
    BY <2>1, <2>3 DEF ClaimFills
<1>2. CASE ~\E job \in jobs : ClaimFills(job)
  BY <1>2 DEF vars, histVars, Next, Settles, ClaimStep, PairBegins, PairOpens, PairFills, Hello,
     ClaimReads, ClaimOpens, Register, Forget, SaveRuns, FileEvent, RetryFires, ReloadReads,
     ReloadFails, ReloadApplies, Start, Watch, Crash
<1> QED
  BY <1>1, <1>2

\* No claim, in memory or on disk, names a phone that was not let in with its
\* pairing (device-claim.ts decideClaim), through restarts, reloads, half files
\* and crashes at any point, but one that claimPairing wrote into the file of a
\* pairing it had not claimed, which takes a claim that was disturbed on its way.
THEOREM ClaimsAreEarned == Safety => []ClaimIsEarned
<1>1. Init => EarnedInv
  <2> SUFFICES ASSUME Init PROVE EarnedInv
    OBVIOUS
  <2>1. PICK c \in FirstClaims : file = [whole |-> TRUE, gen |-> 0, claim |-> c]
    BY DEF Init
  <2>2. ~IsRealClaim(c)
    BY DistinctIds DEF IsRealClaim
  <2> QED
    BY <2>1, <2>2 DEF Init, EarnedInv, EarnedBy, Resting, Torn
<1>2. Init => FiledInv
  BY DEF Init, FiledInv
<1>3. EarnedInv /\ FiledInv => ClaimIsEarned
  BY DEF EarnedInv, EarnedBy, FiledInv, ClaimIsEarned
<1> QED
  BY <1>1, <1>2, <1>3, TypeCorrect, LinkInit, LinkStep, EarnedStep, FiledStep, PTL DEF Safety

=============================================================================
