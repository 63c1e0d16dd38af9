-------------------------------- MODULE Agent --------------------------------
(***************************************************************************)
(* src/src/core/Agent.cpp with the loop of src/src/main.cpp: the single    *)
(* thread that follows the file, frames its bytes into records, batches    *)
(* and sends them, and moves the checkpoint.  Its parts are the modules it *)
(* extends; "disk" is the checkpoint file, and the sink is the outcome of  *)
(* a send.                                                                 *)
(*                                                                         *)
(* The agent observes other programs only through system calls, so they    *)
(* take their steps where the next step of the agent makes one (opening,   *)
(* after poll() and before read()), between ticks, and while it is down:   *)
(* anywhere else their steps commute with the agent's.                     *)
(***************************************************************************)
EXTENDS RetryScheduler, BatchBuilder, LineFramer, FileFollower

CONSTANTS
  SendOutcomes,  \* what a send may come to: "acked"; "lost", when the backend
                 \* has the batch and its answer is lost; "refused"
  SendTimes,     \* how long a send takes, in units of time
  SleepTimes,    \* how long the sleep between two ticks takes
  StoreFaults,   \* the checkpoint operations that may fail: "load", "save"
  OpenRaces,     \* may the path be repointed between the agent's stat and open?
  MayStop,       \* may SIGTERM arrive?
  MayCrash,      \* may the process be killed?
  MaxBoots       \* bound: how often the process is started

ASSUME AgentAssumption ==
  /\ SendOutcomes \subseteq {"acked", "lost", "refused"} /\ SendOutcomes # {}
  /\ SendTimes \subseteq Nat /\ SendTimes # {}
  /\ SleepTimes \subseteq Nat \ {0} /\ SleepTimes # {}
  /\ StoreFaults \subseteq {"load", "save"}
  /\ {OpenRaces, MayStop, MayCrash} \subseteq BOOLEAN
  /\ MaxBoots \in Nat

ASSUME NoneNotLabel == None \notin Label

VARIABLES
  pc,               \* where the process is
  site,             \* the call site whose batch is being sent, or "boot"
  framed,           \* run_once's records not pushed yet
  committedOffset,  \* committed_offset_
  committedGen,     \* committed_generation_
  disk,             \* the checkpoint file: a Label, or None when there is none
  boots,            \* bound: starts of the process so far
  taken,            \* history: the records framed since the process started
  received,         \* history: the records the backend has
  acked             \* history: the labels of the batches it acknowledged

agentVars == <<pc, site, framed, committedOffset, committedGen>>
history   == <<taken, received, acked>>
vars == <<fsVars, followerVars, framerVars, batchVars, retryVars, agentVars,
          disk, boots, history>>

AgentTypeOK ==
  /\ pc \in {"down", "open", "load", "top", "polled", "push", "send",
             "acked", "failed", "save", "sleep", "exit"}
  /\ site \in {"boot", "retry", "due", "rotate", "reset", "full", "limit",
               "shutdown"}
  /\ framed \in Seq(Record)
  /\ committedOffset \in Nat /\ committedGen \in Nat
  /\ disk \in Label \cup {None}
  /\ boots \in 0..MaxBoots
  /\ taken \in SUBSET Record /\ received \in SUBSET Record
  /\ acked \in SUBSET Label

TypeOK == /\ FsTypeOK /\ FollowerTypeOK /\ FramerTypeOK /\ BatchTypeOK
          /\ RetryTypeOK /\ AgentTypeOK

Init ==
  /\ FsInit /\ FollowerInit /\ FramerInit /\ BatchInit /\ RetryInit
  /\ pc = "down" /\ site = "boot" /\ framed = <<>>
  /\ committedOffset = 0 /\ committedGen = 0
  /\ disk = None /\ boots = 0
  /\ taken = {} /\ received = {} /\ acked = {}
------------------------------------------------------------------------------
\* Mutant of Resume: after a full batch the tick ends, its records unpushed.
ResumeNextTick(s) == pc' = CASE s \in {"retry", "due", "limit", "full"} -> "sleep"
                             [] s \in {"rotate", "reset"} -> "polled"
                             [] OTHER                      -> "exit"

\* The agent goes on after a batch or a checkpoint is dealt with at site s.
Resume(s) == pc' = CASE s \in {"retry", "due", "limit"} -> "sleep"
                     [] s \in {"rotate", "reset"}       -> "polled"
                     [] s = "full"                      -> "push"
                     [] OTHER                           -> "exit"

Goto(l, s) == pc' = l /\ site' = s

Elapse(d) == q' = Waited(q, d) /\ age' = Aged(d) /\ eofAge' = EofAged(d)

(* initialize() *)
Boot ==
  /\ pc = "down" /\ boots < MaxBoots
  /\ StartReopen
  /\ boots' = boots + 1
  /\ Goto("open", "boot")
  /\ UNCHANGED <<fsVars, framerVars, batchVars, retryVars, framed,
                 committedOffset, committedGen, disk, history>>

\* open_if_exists(), or the open inside poll().
Opening ==
  /\ pc = "open"
  /\ StatPath \/ OpenPath \/ OpenFails
  /\ pc' = IF opening' # "no" THEN "open"
           ELSE IF site = "boot" THEN "load" ELSE "polled"
  /\ UNCHANGED <<fsVars, framerVars, batchVars, retryVars, site, framed,
                 committedOffset, committedGen, disk, boots, history>>

\* The checkpoint is of the file that is open: resume where it says.
Resumable == fd # None /\ disk # None /\ disk.file = activeId

LoadResumes ==
  /\ pc = "load"
  /\ Resumable
  /\ SetPosition(disk.off, disk.gen)
  /\ committedOffset' = disk.off /\ committedGen' = disk.gen
  /\ ResetBatch(activeId, disk.gen)
  /\ Goto("top", "due")
  /\ UNCHANGED <<fsVars, framerVars, retryVars, framed, disk, boots, history>>

\* No checkpoint, one of another file, or one that load() throws for.
LoadStartsOver ==
  /\ pc = "load"
  /\ fd # None
  /\ ~Resumable \/ "load" \in StoreFaults
  /\ committedOffset' = 0 /\ committedGen' = generation
  /\ ResetBatch(activeId, generation)
  /\ Goto("top", "due")
  /\ UNCHANGED <<fsVars, followerVars, framerVars, retryVars, framed, disk,
                 boots, history>>

LoadWithoutFile ==
  /\ pc = "load"
  /\ fd = None
  /\ Goto("top", "due")
  /\ UNCHANGED <<fsVars, followerVars, framerVars, batchVars, retryVars, framed,
                 committedOffset, committedGen, disk, boots, history>>

(* run_once(): at most one of a retry, a flush that is due, and new data *)
TickRetry ==
  /\ pc = "top"
  /\ PopReady
  /\ Goto("send", "retry")
  /\ UNCHANGED <<fsVars, followerVars, framerVars, batchVars, framed,
                 committedOffset, committedGen, disk, boots, history>>

\* maybe_flush() has a batch to give, which is sent from site s.
HandOver(s, force) ==
  /\ FlushReady(force)
  /\ Hold(batch)
  /\ Flush
  /\ Goto("send", s)
  /\ UNCHANGED <<fsVars, followerVars, framerVars, q, givenUp, framed,
                 committedOffset, committedGen, disk, boots, history>>

TickFlush == pc = "top" /\ ~FrontReady /\ HandOver("due", FALSE)

TickPoll ==
  /\ pc = "top" /\ ~FrontReady /\ ~FlushReady(FALSE)
  /\ Poll(committedOffset)
  /\ Goto(IF opening' = "no" THEN "polled" ELSE "open", "due")
  /\ UNCHANGED <<fsVars, framerVars, batchVars, retryVars, framed,
                 committedOffset, committedGen, disk, boots, history>>

\* The file was switched or truncated: first the batch of the old one is sent,
\* then everything is reset for the new one and its checkpoint saved.
FlushOld == pc = "polled" /\ changed /\ HandOver("rotate", TRUE)

ResetForNewFile ==
  /\ pc = "polled" /\ changed /\ ~FlushReady(TRUE)
  /\ FramerReset
  /\ committedOffset' = 0 /\ committedGen' = generation
  /\ ResetBatch(activeId, generation)
  /\ changed' = FALSE
  /\ Goto("save", "reset")
  /\ UNCHANGED <<fsVars, fd, activeId, generation, readOffset, rotationPending,
                 wasEof, eofAge, opening, statId, retryVars, framed, disk,
                 boots, history>>

\* The chunk read is framed, its lines labelled with the file they came from.
Labelled(lines) ==
  [k \in DOMAIN lines |->
     [payload |-> lines[k].payload, start |-> lines[k].start,
      end |-> lines[k].end, file |-> activeId, gen |-> generation]]

ReadChunk == \E n \in 1..MaxRead :
  /\ pc = "polled" /\ ~changed
  /\ ReadData(n)
  /\ \E cuts \in Cuts(Buffered(Chunk(n))) :
       /\ framed' = Labelled(Lines(Buffered(Chunk(n)), BufferBase(readOffset), cuts))
       /\ IngestAndDrain(Chunk(n), readOffset, cuts)
  /\ taken' = taken \cup Range(framed')
  /\ Goto(IF framed' = <<>> THEN "sleep" ELSE "push", "limit")
  /\ UNCHANGED <<fsVars, batchVars, retryVars, committedOffset, committedGen,
                 disk, boots, received, acked>>

ReadNoChunk ==
  /\ pc = "polled" /\ ~changed
  /\ ReadNoData
  /\ Goto("sleep", "limit")
  /\ UNCHANGED <<fsVars, framerVars, batchVars, retryVars, framed,
                 committedOffset, committedGen, disk, boots, history>>

PushRecord ==
  /\ pc = "push" /\ framed # <<>>
  /\ Push(Head(framed))
  /\ framed' = Tail(framed)
  /\ UNCHANGED <<fsVars, followerVars, framerVars, retryVars, pc, site,
                 committedOffset, committedGen, disk, boots, history>>

FlushFull ==
  /\ pc = "push" /\ framed # <<>> /\ ~Fits(Head(framed))
  /\ HandOver("full", TRUE)

FlushLimits == pc = "push" /\ framed = <<>> /\ HandOver("limit", FALSE)

KeepBatch ==
  /\ pc = "push" /\ framed = <<>> /\ ~FlushReady(FALSE)
  /\ Goto("sleep", "limit")
  /\ UNCHANGED <<fsVars, followerVars, framerVars, batchVars, retryVars, framed,
                 committedOffset, committedGen, disk, boots, history>>

\* sink_.send() of the batch in hand: the backend takes all of it or none.
Send == \E o \in SendOutcomes, d \in SendTimes :
  /\ pc = "send"
  /\ received' = received \cup (IF o = "refused" THEN {}
                                ELSE Range(held.batch.records))
  /\ acked' = acked \cup (IF o = "acked" THEN {LabelOf(held.batch)} ELSE {})
  /\ pc' = IF o = "acked" THEN "acked" ELSE "failed"
  /\ Elapse(d)
  /\ UNCHANGED <<fsVars, fd, activeId, generation, readOffset, rotationPending,
                 wasEof, opening, statId, changed, framerVars, batch,
                 approxBytes, held, givenUp, site, framed, committedOffset,
                 committedGen, disk, boots, taken>>

\* Mutants of IsCurrent: the generation is not compared; nothing is.
IsCurrentFile(b) == b.file = activeId
IsCurrentAlways(b) == TRUE

IsCurrent(b) == b.file = activeId /\ b.gen = generation

\* Mutant of Commit: the offset is that of the bytes read.
CommitAllRead ==
  /\ pc = "acked" /\ site # "rotate" /\ IsCurrent(held.batch)
  /\ Release
  /\ committedOffset' = readOffset /\ committedGen' = generation
  /\ pc' = "save"
  /\ UNCHANGED <<fsVars, followerVars, framerVars, batchVars, site, framed, disk,
                 boots, history>>

\* The acknowledged batch moves the checkpoint, if it is of the file now open.
\* The flush before a reset never does.
Commit ==
  /\ pc = "acked" /\ site # "rotate" /\ IsCurrent(held.batch)
  /\ Release
  /\ committedOffset' = Larger(committedOffset, held.batch.end)
  /\ committedGen' = generation
  /\ pc' = "save"
  /\ UNCHANGED <<fsVars, followerVars, framerVars, batchVars, site, framed, disk,
                 boots, history>>

SkipCommit ==
  /\ pc = "acked" /\ (site = "rotate" \/ ~IsCurrent(held.batch))
  /\ Release
  /\ Resume(site)
  /\ UNCHANGED <<fsVars, followerVars, framerVars, batchVars, site, framed,
                 committedOffset, committedGen, disk, boots, history>>

\* Mutant of SendFailed: a batch whose retry failed is forgotten.
SendFailedOnce ==
  /\ pc = "failed"
  /\ IF site = "retry" THEN Release ELSE Enqueue
  /\ Resume(site)
  /\ UNCHANGED <<fsVars, followerVars, framerVars, batchVars, site, framed,
                 committedOffset, committedGen, disk, boots, history>>

SendFailed ==
  /\ pc = "failed"
  /\ IF site = "retry" THEN Requeue ELSE Enqueue
  /\ Resume(site)
  /\ UNCHANGED <<fsVars, followerVars, framerVars, batchVars, site, framed,
                 committedOffset, committedGen, disk, boots, history>>

\* save_checkpoint(): an exception of the store is logged and forgotten.
Save ==
  /\ pc = "save"
  /\ \/ disk' = [file |-> activeId, gen |-> committedGen, off |-> committedOffset]
     \/ "save" \in StoreFaults /\ UNCHANGED disk
  /\ Resume(site)
  /\ UNCHANGED <<fsVars, followerVars, framerVars, batchVars, retryVars, site,
                 framed, committedOffset, committedGen, boots, history>>

Sleep == \E d \in SleepTimes :
  /\ pc = "sleep"
  /\ Elapse(d)
  /\ Goto("top", "due")
  /\ UNCHANGED <<fsVars, fd, activeId, generation, readOffset, rotationPending,
                 wasEof, opening, statId, changed, framerVars, batch,
                 approxBytes, held, givenUp, framed, committedOffset,
                 committedGen, disk, boots, history>>

(* shutdown() *)
StopFlushes == pc = "top" /\ MayStop /\ HandOver("shutdown", TRUE)

StopIdle ==
  /\ pc = "top" /\ MayStop /\ ~FlushReady(TRUE)
  /\ Goto("exit", "shutdown")
  /\ UNCHANGED <<fsVars, followerVars, framerVars, batchVars, retryVars, framed,
                 committedOffset, committedGen, disk, boots, history>>

\* The process is gone, and with it all that it held in memory: the next one
\* starts from what the constructors set.
Gone ==
  /\ fd' = None /\ activeId' = None /\ generation' = 0 /\ readOffset' = 0
  /\ rotationPending' = FALSE /\ wasEof' = FALSE /\ eofAge' = 0
  /\ opening' = "no" /\ statId' = None /\ changed' = FALSE
  /\ FramerReset
  /\ ResetBatch(None, 0)
  /\ q' = <<>> /\ held' = None /\ givenUp' = {}
  /\ Goto("down", "boot")
  /\ framed' = <<>> /\ committedOffset' = 0 /\ committedGen' = 0
  /\ taken' = {}
  /\ UNCHANGED <<fsVars, disk, boots, received, acked>>

Exit  == pc = "exit" /\ Gone
Crash == pc # "down" /\ MayCrash /\ Gone
------------------------------------------------------------------------------
RunOnce == \/ TickRetry \/ TickFlush \/ TickPoll \/ Opening \/ FlushOld
           \/ ResetForNewFile \/ ReadChunk \/ ReadNoChunk \/ PushRecord
           \/ FlushFull \/ FlushLimits \/ KeepBatch \/ Send \/ Commit
           \/ SkipCommit \/ SendFailed \/ Save \/ Sleep \/ Exit

Loading == LoadResumes \/ LoadStartsOver \/ LoadWithoutFile
Stop    == StopFlushes \/ StopIdle

Environment ==
  /\ pc \in {"down", "open", "polled", "sleep"}
  /\ FsNext
  /\ pc = "open" /\ ~OpenRaces => path' = path
  /\ UNCHANGED <<followerVars, framerVars, batchVars, retryVars, agentVars, disk,
                 boots, history>>

Next == RunOnce \/ Loading \/ Boot \/ Stop \/ Crash \/ Environment

\* The thread keeps running once started.  Nothing is assumed of the other
\* programs, nor of who starts, stops and kills the agent.
Spec == Init /\ [][Next]_vars /\ WF_vars(RunOnce \/ Loading)
==============================================================================
