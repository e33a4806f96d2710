------------------------------- MODULE Pairing -------------------------------
(* Who may use a machine, and where that is written down.                    *)
(*                                                                           *)
(* The pairing file holds the minted pairing and the device that claimed it. *)
(* Two programs read and write it with no lock: the daemon records a claim   *)
(* behind the decision it has already taken in memory, and `pew2 pair` mints *)
(* over it. The daemon follows the file through a watcher. A write truncates *)
(* before it fills (writeFile), so a reader may meet half a file, and two    *)
(* writers that overlap may leave one behind for good. Beside it, the phones *)
(* that asked for banners are kept per pairing, written whole and renamed.   *)
EXTENDS Naturals, FiniteSets

CONSTANTS
  Phones,        \* device ids of real phones
  Placeholder,   \* the id every app sent before the gate: "phone"
  Guests,        \* ids let in without a claim: the placeholder, `pew2 pair`'s watcher
  Nobody,        \* no claim
  FirstClaims,   \* what may stand in the file for a claim when the run begins
  MaxRotations,  \* bound: times `pew2 pair` mints
  MaxUpsets,     \* bound: deaths of the daemon and of push tokens
  MaxPushes,     \* bound: registrations for banners
  MaxReloadFailures  \* MAX_RELOAD_FAILURES

ASSUME DistinctIds ==
  /\ Phones \cap Guests = {} /\ Placeholder \notin Phones
  /\ Nobody \notin Phones \cup Guests \cup {Placeholder}
  /\ FirstClaims \subseteq {Nobody, Placeholder}
ASSUME PairingBounds ==
  MaxRotations \in Nat /\ MaxUpsets \in Nat /\ MaxPushes \in Nat
  /\ MaxReloadFailures \in Nat

Devices == Phones \cup Guests
Claims == Phones \cup {Placeholder, Nobody}
Gens == 0 .. MaxRotations            \* pairings, numbered as they are minted

Contents == [whole : {TRUE}, gen : Gens, claim : Claims]
Torn == [whole |-> FALSE, gen |-> 0, claim |-> Nobody]   \* half a file

VARIABLES
  file,       \* the pairing file
  minted,     \* the last pairing minted
  printed,    \* the pairing whose code is on the screen
  cli,        \* where `pew2 pair` is
  phase,      \* the daemon: "down", "starting" (file read, not watched), "up"
  current,    \* currentToken and rootKey
  claimedBy,  \* the claim the daemon decides by
  jobs,       \* claimPairing calls under way
  connected,  \* phones let in since every socket was last closed
  changed,    \* a file event is on its way to the watcher
  reader,     \* the reloader
  timers,     \* its armed retries
  targets,    \* PushRegistry.targets
  pushFile,   \* push-targets.json
  saves,      \* writes queued on the chain of persistPushTargets
  budget,     \* what is left of the bounds
  admitted,     \* history: admitted[g]: phones ever admitted to pairing g
  interrupted,  \* history: a phone claimed a pairing the file no longer held, or
                \* that was being rewritten, or a command or a crash fell into the
                \* write of its claim
  misfiled,     \* history: misfiled[g]: phones recorded as the claim of pairing g
                \* that had claimed another
  missed        \* history: a rewrite of the file fell where no event reports it

diskVars == <<file, minted, printed, cli>>
claimVars == <<current, claimedBy, jobs, connected>>
watchVars == <<changed, reader, timers>>
pushVars == <<targets, pushFile, saves>>
histVars == <<admitted, interrupted, misfiled, missed>>
vars == <<diskVars, phase, claimVars, watchVars, pushVars, budget, histVars>>

Resting == [at |-> "idle", again |-> FALSE, failures |-> 0, seen |-> Torn]

\* The reloader: whether it reads, is to read again, and how often it failed.
Readers == [at : {"idle", "reading", "read"}, again : BOOLEAN, failures : Nat,
            seen : Contents \cup {Torn}]
\* What a claimPairing call holds: the phone, the pairing it claimed, and nothing
\* of the file until it has read a whole one.
Jobs == [dev : Phones, under : Gens, at : {"reading"}, seen : {Torn}]
          \cup [dev : Phones, under : Gens, at : {"read", "open"}, seen : Contents]

TypeOK ==
  /\ file \in Contents \cup {Torn}
  /\ minted \in Gens /\ printed \in Gens
  /\ cli \in {"idle", "read", "open"}
  /\ phase \in {"down", "starting", "up"}
  /\ current \in Gens
  /\ claimedBy \in Claims
  /\ jobs \subseteq Jobs
  /\ connected \subseteq Phones
  /\ changed \in BOOLEAN
  /\ reader \in Readers
  /\ timers \in Nat
  /\ targets \subseteq Phones
  /\ pushFile \in [gen : Gens, targets : SUBSET Phones]
  /\ saves \in Nat
  /\ budget \in [upsets : Nat, pushes : Nat]
  /\ admitted \in [Gens -> SUBSET Phones] /\ misfiled \in [Gens -> SUBSET Phones]
  /\ interrupted \in BOOLEAN /\ missed \in BOOLEAN

\* setup has minted a pairing; an app from before the gate may have left its
\* placeholder in it, and the daemon is not running yet.
Init ==
  /\ file \in {[whole |-> TRUE, gen |-> 0, claim |-> c] : c \in FirstClaims}
  /\ minted = 0 /\ printed = 0 /\ cli = "idle"
  /\ phase = "down" /\ current = 0 /\ claimedBy = Nobody
  /\ jobs = {} /\ connected = {}
  /\ changed = FALSE /\ reader = Resting /\ timers = 0
  /\ targets = {} /\ pushFile = [gen |-> 0, targets |-> {}] /\ saves = 0
  /\ budget = [upsets |-> MaxUpsets, pushes |-> MaxPushes]
  /\ admitted = [g \in Gens |-> {}] /\ misfiled = [g \in Gens |-> {}]
  /\ interrupted = FALSE /\ missed = FALSE

-----------------------------------------------------------------------------
(* Writing the pairing file. `writeFile` truncates on open and fills later.  *)

IsRealClaim(c) == c \notin {Nobody, Placeholder}

\* A write is an event for the watcher only while there is one.
Touched == changed' = (changed \/ phase = "up")

Truncate ==
  /\ file' = Torn
  /\ Touched
  /\ UNCHANGED missed

\* The file is whole here only if another writer filled it since this one
\* opened it: the longer document then shows behind the shorter.
Fill(doc) ==
  /\ file' \in IF file.whole THEN {doc, Torn} ELSE {doc}
  /\ Touched
  /\ missed' = (missed \/ (phase = "starting" /\ doc.gen # current))

-----------------------------------------------------------------------------
(* `pew2 pair`, one command at a time.                                       *)

\* cmdPair begins by reading the file; half a file throws.
PairBegins ==
  /\ cli = "idle" /\ file.whole /\ minted < MaxRotations
  /\ minted' = minted + 1
  /\ cli' = "read"
  /\ interrupted' = (interrupted \/ jobs # {})
  /\ UNCHANGED <<file, printed, phase, claimVars, watchVars, pushVars, budget,
                 admitted, misfiled, missed>>

PairOpens ==
  /\ cli = "read"
  /\ cli' = "open"
  /\ Truncate
  /\ UNCHANGED <<minted, printed, phase, claimVars, reader, timers, pushVars, budget,
                 admitted, interrupted, misfiled>>

\* rotatePairing writes a fresh, unclaimed pairing; then its code is printed.
PairFills ==
  /\ cli = "open"
  /\ Fill([whole |-> TRUE, gen |-> minted, claim |-> Nobody])
  /\ printed' = minted
  /\ cli' = "idle"
  /\ UNCHANGED <<minted, phase, claimVars, reader, timers, pushVars, budget,
                 admitted, interrupted, misfiled>>

-----------------------------------------------------------------------------
(* The daemon decides, and records behind the decision.                      *)

\* Slip: the watcher of `pew2 pair` takes the pairing it prints.
TakesAnyone(claim, d) == IF ~IsRealClaim(claim) THEN d ELSE Nobody

\* decideClaim. The claim this hello takes is Nobody when it takes none.
Admits(claim, d) ==
  d \in Guests \/ ~IsRealClaim(claim) \/ claim = d
Takes(claim, d) ==
  IF d \notin Guests /\ ~IsRealClaim(claim) THEN d ELSE Nobody

\* Slip: the claim counts once it is written.
AdmitDeviceLate(d) ==
  LET taken == Takes(claimedBy, d)
  IN /\ Admits(claimedBy, d)
     /\ IF taken = Nobody
        THEN UNCHANGED <<claimedBy, jobs, interrupted>>
        ELSE /\ jobs' = jobs \cup {[dev |-> taken, under |-> current, at |-> "reading",
                                   seen |-> Torn]}
             /\ UNCHANGED <<claimedBy, interrupted>>

\* admitDevice: memory is changed at once, the file by a call nobody awaits.
AdmitDevice(d) ==
  LET taken == Takes(claimedBy, d)
  IN /\ Admits(claimedBy, d)
     /\ IF taken = Nobody
        THEN UNCHANGED <<claimedBy, jobs, interrupted>>
        ELSE /\ claimedBy' = taken
             /\ jobs' = jobs \cup {[dev |-> taken, under |-> current, at |-> "reading",
                                   seen |-> Torn]}
             /\ interrupted' = (interrupted \/ cli # "idle" \/ ~file.whole \/ file.gen # current)

\* A hello whose proof was made with the current key, on either transport; any
\* device may have scanned any code printed so far. The relay is dialled before
\* the daemon has finished starting.
Hello(d) ==
  /\ phase # "down" /\ current <= printed
  /\ AdmitDevice(d)
  /\ connected' = connected \cup ({d} \cap Phones)
  /\ admitted' = [admitted EXCEPT ![current] = @ \cup ({d} \cap Phones)]
  /\ UNCHANGED <<diskVars, phase, current, watchVars, pushVars, budget, misfiled, missed>>

\* claimPairing: loadPairing throws on half a file, and a real claim is kept. It
\* is not asked which pairing was claimed: the file is read as it stands.
ClaimReads(job) ==
  /\ job.at = "reading"
  /\ jobs' = (jobs \ {job}) \cup
       (IF file.whole /\ ~IsRealClaim(file.claim)
        THEN {[job EXCEPT !.at = "read", !.seen = file]} ELSE {})
  /\ UNCHANGED <<diskVars, phase, current, claimedBy, connected, watchVars, pushVars,
                 budget, histVars>>

ClaimOpens(job) ==
  /\ job.at = "read"
  /\ jobs' = (jobs \ {job}) \cup {[job EXCEPT !.at = "open"]}
  /\ Truncate
  /\ UNCHANGED <<minted, printed, cli, phase, current, claimedBy, connected, reader,
                 timers, pushVars, budget, admitted, interrupted, misfiled>>

ClaimFills(job) ==
  /\ job.at = "open"
  /\ Fill([job.seen EXCEPT !.claim = job.dev])
  /\ jobs' = jobs \ {job}
  /\ misfiled' = IF job.seen.gen = job.under THEN misfiled
                 ELSE [misfiled EXCEPT ![job.seen.gen] = @ \cup {job.dev}]
  /\ UNCHANGED <<minted, printed, cli, phase, current, claimedBy, connected, reader,
                 timers, pushVars, budget, admitted, interrupted>>

-----------------------------------------------------------------------------
(* The push registry.                                                        *)

\* Slip: the stored phones are read whatever pairing they were stored under.
ReadAnyTargets(gen) == pushFile.targets

ReadPushTargets(gen) == IF pushFile.gen = gen THEN pushFile.targets ELSE {}

\* onChange appends a write to the chain.
QueueSave == saves' = saves + 1

Register(d) ==
  /\ d \in connected /\ d \notin targets /\ budget.pushes > 0
  /\ targets' = targets \cup {d}
  /\ QueueSave
  /\ budget' = [budget EXCEPT !.pushes = @ - 1]
  /\ UNCHANGED <<diskVars, phase, claimVars, watchVars, pushFile, histVars>>

\* Slip: a dead token is dropped in memory only.
ForgetUnsaved(d) ==
  /\ phase # "down" /\ d \in targets /\ budget.upsets > 0
  /\ targets' = targets \ {d}
  /\ budget' = [budget EXCEPT !.upsets = @ - 1]
  /\ UNCHANGED <<diskVars, phase, claimVars, watchVars, pushFile, saves, histVars>>

\* The push service says a token is dead.
Forget(d) ==
  /\ phase # "down" /\ d \in targets /\ budget.upsets > 0
  /\ targets' = targets \ {d}
  /\ QueueSave
  /\ budget' = [budget EXCEPT !.upsets = @ - 1]
  /\ UNCHANGED <<diskVars, phase, claimVars, watchVars, pushFile, histVars>>

\* Each write takes its snapshot, and the pairing it is filed under, as it runs;
\* the rename makes the file old or new, never half.
SaveRuns ==
  /\ saves > 0
  /\ saves' = saves - 1
  /\ pushFile' = [gen |-> current, targets |-> targets]
  /\ UNCHANGED <<diskVars, phase, claimVars, watchVars, targets, budget, histVars>>

-----------------------------------------------------------------------------
(* Following the file: the reloader.                                         *)

\* Slip: an event that lands in a read is ignored.
ReloadDropping(r) == IF r.at = "idle" THEN [r EXCEPT !.at = "reading"] ELSE r

\* reload: one read at a time; an event during one is remembered, not dropped.
Reload(r) == IF r.at = "idle" THEN [r EXCEPT !.at = "reading"] ELSE [r EXCEPT !.again = TRUE]

FileEvent ==
  /\ phase = "up" /\ changed
  /\ changed' = FALSE
  /\ reader' = Reload(reader)
  /\ UNCHANGED <<diskVars, phase, claimVars, timers, pushVars, budget, histVars>>

RetryFires ==
  /\ timers > 0
  /\ timers' = timers - 1
  /\ reader' = Reload(reader)
  /\ UNCHANGED <<diskVars, phase, claimVars, changed, pushVars, budget, histVars>>

ReloadReads ==
  /\ reader.at = "reading"
  /\ reader' = [reader EXCEPT !.at = "read", !.seen = file]
  /\ UNCHANGED <<diskVars, phase, claimVars, changed, timers, pushVars, budget, histVars>>

\* finish(true): half a file. Retried a few times, then left alone.
ReloadFails ==
  /\ reader.at = "read" /\ ~reader.seen.whole
  /\ IF reader.failures >= MaxReloadFailures
     THEN /\ reader' = Resting
          /\ missed' = (missed \/ reader.again)
          /\ UNCHANGED timers
     ELSE /\ reader' = [at |-> "idle", again |-> reader.again, failures |-> reader.failures + 1,
                       seen |-> Torn]
          /\ timers' = timers + 1
          /\ UNCHANGED missed
  /\ UNCHANGED <<diskVars, phase, claimVars, changed, pushVars, budget, admitted, interrupted, misfiled>>

\* Slip: the phone of the last pairing stays the claim of the next.
ReloadKeepsClaim ==
  /\ reader.at = "read" /\ reader.seen.whole
  /\ IF reader.seen.gen = current
     THEN UNCHANGED <<current, connected, targets, saves>>
     ELSE /\ current' = reader.seen.gen
          /\ connected' = {}
          /\ targets' = {}
          /\ IF targets = {} THEN UNCHANGED saves ELSE QueueSave
  /\ reader' = IF reader.again THEN [Resting EXCEPT !.at = "reading"] ELSE Resting
  /\ UNCHANGED <<diskVars, phase, claimedBy, jobs, changed, timers, pushFile, budget, histVars>>

\* applyPairing, then finish(false). A document whose pairing is the one in use
\* changes nothing, its claim included. Every socket is closed with the swap.
ReloadApplies ==
  /\ reader.at = "read" /\ reader.seen.whole
  /\ IF reader.seen.gen = current
     THEN UNCHANGED <<current, claimedBy, connected, targets, saves>>
     ELSE /\ current' = reader.seen.gen
          /\ claimedBy' = reader.seen.claim
          /\ connected' = {}
          /\ targets' = {}
          /\ IF targets = {} THEN UNCHANGED saves ELSE QueueSave
  /\ reader' = IF reader.again THEN [Resting EXCEPT !.at = "reading"] ELSE Resting
  /\ UNCHANGED <<diskVars, phase, jobs, changed, timers, pushFile, budget, histVars>>

-----------------------------------------------------------------------------
(* Starting and dying.                                                       *)

\* Slip: the stored claim is dropped on the way in.
StartUnclaimed ==
  /\ phase = "down" /\ file.whole
  /\ phase' = "starting"
  /\ current' = file.gen
  /\ claimedBy' = Nobody
  /\ targets' = ReadPushTargets(file.gen)
  /\ UNCHANGED <<diskVars, jobs, connected, watchVars, pushFile, saves, budget, histVars>>

\* The daemon reads the file before it serves; half a file ends it at once and
\* the service manager tries again.
Start ==
  /\ phase = "down" /\ file.whole
  /\ phase' = "starting"
  /\ current' = file.gen
  /\ claimedBy' = file.claim
  /\ targets' = ReadPushTargets(file.gen)
  /\ UNCHANGED <<diskVars, jobs, connected, watchVars, pushFile, saves, budget, histVars>>

\* The relay is up and the providers are loaded by the time the watcher exists.
Watch ==
  /\ phase = "starting"
  /\ phase' = "up"
  /\ UNCHANGED <<diskVars, claimVars, watchVars, pushVars, budget, histVars>>

Crash ==
  /\ phase # "down" /\ budget.upsets > 0
  /\ phase' = "down"
  /\ interrupted' = (interrupted \/ jobs # {})
  /\ current' = 0 /\ claimedBy' = Nobody /\ jobs' = {} /\ connected' = {}
  /\ changed' = FALSE /\ reader' = Resting /\ timers' = 0
  /\ targets' = {} /\ saves' = 0
  /\ budget' = [budget EXCEPT !.upsets = @ - 1]
  /\ UNCHANGED <<diskVars, pushFile, admitted, misfiled, missed>>

-----------------------------------------------------------------------------
ClaimStep == \E job \in jobs : ClaimReads(job) \/ ClaimOpens(job) \/ ClaimFills(job)

\* A command begun runs to its end, the daemon's promises and timers settle, the
\* system delivers file events, and the service manager restarts the daemon. No
\* phone owes anything, and nobody has to pair. None of these steps can repeat
\* for ever, so fairness of all together is fairness of each.
Settles ==
  \/ PairOpens \/ PairFills \/ ClaimStep \/ SaveRuns
  \/ FileEvent \/ RetryFires \/ ReloadReads \/ ReloadFails \/ ReloadApplies
  \/ Start \/ Watch

Next ==
  \/ PairBegins
  \/ \E d \in Devices : Hello(d)
  \/ \E d \in Phones : Register(d) \/ Forget(d)
  \/ Settles
  \/ Crash

Safety == Init /\ [][Next]_vars
Spec == Safety /\ WF_vars(Settles)

-----------------------------------------------------------------------------
(* Properties.                                                               *)

\* Two phones that race for one unclaimed pairing are never both let in: no two
\* phones hold an authenticated socket at once, whatever the file says.
OneOwner == \A p, q \in connected : p = q

\* A pairing link admits one phone for as long as the pairing lives, restarts
\* and reloads included, unless a claim's way to the disk was disturbed: taken
\* while the file held or was getting another pairing, or met by a command or a
\* crash before it was written.
LinkAdmitsOne ==
  ~interrupted => \A g \in Gens : \A p, q \in admitted[g] : p = q

\* A claim, in memory and on disk, names a phone that was let in with its pairing,
\* or one that claimPairing itself wrote into the file of a pairing it had not
\* claimed: a phone of the replaced pairing that says hello before the daemon has
\* reloaded, and no phone whose claim went to the disk undisturbed. Neither the
\* command that watches for a phone, nor a reload, a restart or a crash at any point
\* makes a claim that locks out the phone the code is for.
ClaimIsEarned ==
  /\ phase # "down" /\ IsRealClaim(claimedBy) =>
       claimedBy \in admitted[current] \cup misfiled[current]
  /\ file.whole /\ IsRealClaim(file.claim) =>
       file.claim \in admitted[file.gen] \cup misfiled[file.gen]
  /\ ~interrupted => \A g \in Gens : misfiled[g] = {}

\* Banners, which carry project names in the clear, go to no device that was not
\* let in with the pairing in use: a rotation forgets the phones of the last one
\* across restarts too.
BannersStayInside == phase # "down" => targets \subseteq admitted[current]

\* The daemon ends up on the pairing in the file, however its reads fell between
\* the writes, unless a rewrite fell before the watcher existed, or into the read
\* after which the reloader gave up on half a file.
FollowsFile ==
  [](~missed) => <>[](phase = "up" /\ file.whole => current = file.gen)

\* What is stored of the phones ends up being what the daemon knows, so that a
\* restart neither forgets a phone nor brings back one that was dropped.
PhonesRemembered ==
  <>[](phase = "up" => ReadPushTargets(current) = targets)

\* pairing.ts:212: "a claim never resurrects a token that was rotated out from
\* under this process": once a code is printed the file never again holds an
\* earlier pairing.
NeverResurrected == file.whole => file.gen >= printed

=============================================================================
