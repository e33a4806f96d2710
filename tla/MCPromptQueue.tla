---------------------------- MODULE MCPromptQueue ----------------------------
(* Small instances of PromptQueue, and its refinement of MessageFate. *)
EXTENDS PromptQueue

\* A message waits from the moment it is accepted until it is echoed: in the
\* queue, or in a turn whose files are still being written.
Waiting == queue \cup (IF pc \in {"storing", "taking"} THEN turn ELSE {})

Fate == INSTANCE MessageFate WITH
    waiting <- Waiting, ran <- Logged, returned <- returned,
    withdrawn <- withdrawn, rejected <- rejected

\* The turn loop does to each message what MessageFate allows: it accepts it
\* once, settles it once, and never brings a settled one back (prompt-queue.ts).
RefinesMessageFate == Fate!Safety

\* And it leaves none waiting for ever, whatever stops, failed turns and failed
\* connects do (prompt-queue.ts:158).
NoneWaitsForEver == Fate!Liveness
=============================================================================
