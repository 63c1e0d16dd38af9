---------------------------- MODULE CommitProofs ----------------------------
(***************************************************************************)
(* What the batches of the agent, and its checkpoint, may say: that a      *)
(* batch is of one file, that a record is what was read at its range, that *)
(* the checkpoint moves as the abstract CommitLedger allows, and when it   *)
(* is a safe position to restart from.  Several of these hold only under   *)
(* conditions on the host and the backend, each of which is an operator    *)
(* here, with the run that shows what happens without it.                  *)
(***************************************************************************)
EXTENDS AgentProofs

\* The path always names a file, and no call on it fails but by being
\* interrupted: then the descriptor is closed only for a switch.  (Where that
\* is not so, MCAgentReopen.cfg shows a batch of two files.)
AlwaysThere == Moves \subseteq Inodes \X Inodes /\ Faults \subseteq {"eintr"}

\* The agent has a file open, and no other open under way.
Working == pc \notin {"down", "open", "load"}

Booting   == pc = "open" /\ site = "boot"
Switching == pc = "open" /\ site = "due"

\* Where the descriptor is open, and where the last poll's switch or truncation
\* is still to be dealt with.
Shape ==
  /\ path \in Inodes
  /\ pc = "down" => fd = None /\ opening = "no" /\ statId = None /\ ~changed
  /\ pc = "open" => fd = None /\ site \in {"boot", "due"}
  /\ Booting   => opening = "reopen" /\ ~changed
  /\ Switching => opening = "switch" /\ activeId # None
  /\ pc = "load" => ~changed
  /\ pc \notin {"down", "open"} =>
       fd # None /\ activeId # None /\ opening = "no" /\ statId = None
  /\ Working /\ changed => pc = "polled" \/ (pc \in Sending /\ site = "rotate")

LEMMA InitShape == ASSUME AlwaysThere, Init PROVE Shape
<1>1. path \in Inodes
  BY DEF Init, FsInit, AlwaysThere
<1> QED BY <1>1 DEF Init, FollowerInit, Shape, Working, Booting, Switching

LEMMA PathStays ==
  ASSUME AlwaysThere, path \in Inodes, FsNext PROVE path' \in Inodes
<1>1. CASE Repoint
  BY <1>1 DEF Repoint, AlwaysThere
<1>2. CASE ~Repoint
  BY <1>2 DEF FsNext, AppendTo, Truncate
<1> QED BY <1>1, <1>2

\* A step that leaves the follower's descriptor alone.
LEMMA QuietShape ==
  ASSUME Shape, UNCHANGED <<path, fd, activeId, opening, statId>>,
         pc \notin {"down", "open"}, Working',
         changed' => pc' = "polled" \/ (pc' \in Sending /\ site' = "rotate")
  PROVE  Shape'
BY DEF Shape, Working, Booting, Switching

LEMMA BootShape == ASSUME Shape, Boot PROVE Shape'
<1>1. /\ pc = "down" /\ pc' = "open" /\ site' = "boot"
      /\ opening' = "reopen" /\ changed' = FALSE
      /\ UNCHANGED <<path, fd, activeId, statId>>
  BY DEF Boot, StartReopen, Goto, fsVars
<1> QED BY <1>1 DEF Shape, Working, Booting, Switching

LEMMA OpeningShape == ASSUME AlwaysThere, TInv, Shape, Opening PROVE Shape'
<1>1. /\ pc = "open" /\ site' = site /\ path' = path
      /\ pc' = IF opening' # "no" THEN "open"
               ELSE IF site = "boot" THEN "load" ELSE "polled"
  BY DEF Opening, fsVars
<1>2. path # None /\ site \in {"boot", "due"} /\ fd = None
  BY <1>1, NoneAssumption DEF Shape
<1>3. CASE StatPath
  <2>1. UNCHANGED <<fd, activeId, changed>> /\ statId' = path /\ opening' = opening
    BY <1>2, <1>3 DEF StatPath, AlwaysThere
  <2>2. opening' # "no"
    BY <1>3, <2>1 DEF StatPath
  <2>3. pc' = "open"
    BY <1>1, <2>2
  <2> QED BY <1>1, <2>1, <2>3 DEF Shape, Working, Booting, Switching
<1>4. CASE OpenPath
  <2>1. /\ fd' = path /\ activeId' = statId /\ statId # None
        /\ changed' = (changed \/ opening = "switch")
        /\ opening' = "no" /\ statId' = None
    BY <1>4 DEF OpenPath
  <2>2. pc' = IF site = "boot" THEN "load" ELSE "polled"
    BY <1>1, <2>1
  <2>3. CASE site = "boot"
    BY <1>1, <1>2, <2>1, <2>2, <2>3 DEF Shape, Working, Booting, Switching
  <2>4. CASE site = "due"
    BY <1>1, <1>2, <2>1, <2>2, <2>4 DEF Shape, Working, Booting, Switching
  <2> QED BY <1>2, <2>3, <2>4
<1>5. CASE OpenFails
  BY <1>2, <1>5 DEF OpenFails, AlwaysThere
<1> QED BY <1>3, <1>4, <1>5 DEF Opening

LEMMA TickPollShape == ASSUME AlwaysThere, Shape, TickPoll PROVE Shape'
<1>1. /\ pc = "top" /\ path' = path /\ site' = "due"
      /\ pc' = IF opening' = "no" THEN "polled" ELSE "open"
      /\ Poll(committedOffset)
  BY DEF TickPoll, Goto, fsVars
<1>2. /\ fd # None /\ path # None /\ activeId # None /\ statId = None
      /\ path \in Inodes
  BY <1>1, NoneAssumption DEF Shape
<1>3. PollPath(committedOffset)
  BY <1>1, <1>2 DEF Poll, StartReopen, PollPathMissing, PollFstatFails, AlwaysThere
<1>4. /\ \/ opening' = "no" /\ fd' = fd
         \/ opening' = "switch" /\ fd' = None
      /\ UNCHANGED <<activeId, statId>>
  BY <1>3 DEF PollPath
<1> QED BY <1>1, <1>2, <1>4 DEF Shape, Working, Booting, Switching

LEMMA LoadShape == ASSUME TInv, Shape, Loading PROVE Shape'
<1>1. pc = "load" /\ pc' = "top" /\ UNCHANGED <<path, fd, activeId, opening, statId, changed>>
  BY DEF Loading, LoadResumes, SetPosition, LoadStartsOver, LoadWithoutFile,
         Goto, fsVars, followerVars
<1>2. ~changed'
  BY <1>1 DEF Shape
<1> QED BY <1>1, <1>2, QuietShape DEF Working

LEMMA ResetShape == ASSUME Shape, ResetForNewFile PROVE Shape'
<1>1. /\ pc = "polled" /\ pc' = "save" /\ changed' = FALSE
      /\ UNCHANGED <<path, fd, activeId, opening, statId>>
  BY DEF ResetForNewFile, Goto, fsVars
<1> QED BY <1>1, QuietShape DEF Working

LEMMA GoneShape == ASSUME Shape, Gone PROVE Shape'
<1>1. /\ pc' = "down" /\ fd' = None /\ opening' = "no" /\ statId' = None
      /\ changed' = FALSE /\ path' = path
  BY DEF Gone, Goto, fsVars
<1> QED BY <1>1 DEF Shape, Working, Booting, Switching

LEMMA EnvironmentShape == ASSUME AlwaysThere, Shape, Environment PROVE Shape'
<1>1. path' \in Inodes
  BY PathStays DEF Environment, Shape
<1>2. UNCHANGED <<followerVars, pc, site>>
  BY DEF Environment, agentVars
<1> QED BY <1>1, <1>2 DEF Shape, followerVars, Working, Booting, Switching
------------------------------------------------------------------------------
(***************************************************************************)
(* The batches between the builder and their fate; and the steps that do   *)
(* nothing to the position of the agent: they move these batches, lose     *)
(* some of them, and may add to what is acknowledged.                      *)
(***************************************************************************)
InFlight == InHand \cup Waiting

Idle ==
  /\ Working /\ Working' /\ pc' # "save"
  /\ changed => pc' = "polled" \/ (pc' \in Sending /\ site' = "rotate")
  /\ pc' = "acked" => LabelOf(held'.batch) \in acked'
  /\ UNCHANGED <<path, fd, activeId, generation, readOffset, rotationPending,
                 opening, statId, changed, framerVars, batch, framed,
                 committedOffset, committedGen, disk>>
  /\ acked \subseteq acked'
  /\ InFlight' \subseteq InFlight

\* The flush before a reset goes back to where the reset is.
LEMMA Resumed ==
  ASSUME NEW s, Resume(s), s # "reset" PROVE s = "rotate" => pc' = "polled"
BY DEF Resume

LEMMA QuietIdle ==
  ASSUME TInv, IInv, AlwaysThere, Shape, ReadNoChunk \/ KeepBatch \/ StopIdle
  PROVE  Idle
<1>1. CASE ReadNoChunk
  <2>1. pc = "polled" /\ ~changed /\ pc' = "sleep" /\ ReadNoData
    BY <1>1 DEF ReadNoChunk, Goto
  <2>2. UNCHANGED <<fd, activeId, generation, readOffset, rotationPending,
                    opening, statId, changed>>
    BY <2>1 DEF ReadNoData, ReadEof, ReadNothing, ReadFails, followerVars,
                AlwaysThere
  <2>3. InFlight' = InFlight
    BY <1>1 DEF ReadNoChunk, retryVars, InFlight, InHand, Waiting
  <2> QED BY <1>1, <2>1, <2>2, <2>3 DEF ReadNoChunk, Idle, Working, fsVars,
             batchVars, history
<1>2. CASE KeepBatch \/ StopIdle
  <2>1. /\ pc \in {"push", "top"} /\ pc' \in {"sleep", "exit"}
        /\ UNCHANGED <<fsVars, followerVars, framerVars, batchVars, retryVars,
                       framed, committedOffset, committedGen, disk, history>>
    BY <1>2 DEF KeepBatch, StopIdle, Goto
  <2>2. InFlight' = InFlight
    BY <2>1 DEF retryVars, InFlight, InHand, Waiting
  <2>3. ~changed
    BY <2>1 DEF Shape, Working, Sending
  <2> QED BY <2>1, <2>2, <2>3 DEF Idle, Working, fsVars, followerVars,
             batchVars, history
<1> QED BY <1>1, <1>2

LEMMA TickRetryIdle ==
  ASSUME TInv, IInv, Shape, TickRetry PROVE Idle
<1>1. /\ pc = "top" /\ pc' = "send"
      /\ q # <<>> /\ held' = Head(q) /\ q' = Tail(q)
      /\ UNCHANGED <<fsVars, followerVars, framerVars, batchVars, framed,
                     committedOffset, committedGen, disk, history>>
  BY DEF TickRetry, Goto, PopReady, FrontReady
<1>2. q \in Seq(PendingBatch)
  BY DEF TInv, TypeOK, RetryTypeOK
<1>3. BatchesIn(q) = BatchesIn(q') \cup {held'.batch}
  BY <1>1, <1>2, BatchesInTail
<1>4. InFlight' \subseteq InFlight
  BY <1>3 DEF InFlight, InHand, Waiting
<1>5. ~changed
  BY <1>1 DEF Shape, Working, Sending
<1> QED BY <1>1, <1>4, <1>5 DEF Idle, Working, fsVars, followerVars,
           batchVars, history

LEMMA SendIdle ==
  ASSUME TInv, IInv, Shape, Send PROVE Idle
<1>1. PICK o \in SendOutcomes, d \in SendTimes :
        /\ pc = "send"
        /\ acked' = acked \cup (IF o = "acked" THEN {LabelOf(held.batch)} ELSE {})
        /\ pc' = IF o = "acked" THEN "acked" ELSE "failed"
        /\ q' = Waited(q, d)
        /\ UNCHANGED <<fsVars, fd, activeId, generation, readOffset,
                       rotationPending, opening, statId, changed, framerVars,
                       batch, held, site, framed, committedOffset,
                       committedGen, disk>>
  BY DEF Send, Elapse
<1>2. d \in Nat /\ q \in Seq(PendingBatch)
  BY AgentAssumption DEF TInv, TypeOK, RetryTypeOK
<1>3. InFlight' = InFlight
  BY <1>1, <1>2, BatchesInWaited DEF InFlight, InHand, Waiting
<1>4. changed => pc' \in Sending /\ site' = "rotate"
  BY <1>1 DEF Shape, Working, Sending
<1>5. pc' = "acked" => LabelOf(held'.batch) \in acked'
  BY <1>1
<1> QED BY <1>1, <1>3, <1>4, <1>5 DEF Idle, Working, fsVars

LEMMA SleepIdle ==
  ASSUME TInv, IInv, Shape, Sleep PROVE Idle
<1>1. PICK d \in SleepTimes :
        /\ pc = "sleep" /\ pc' = "top"
        /\ q' = Waited(q, d)
        /\ UNCHANGED <<fsVars, fd, activeId, generation, readOffset,
                       rotationPending, opening, statId, changed, framerVars,
                       batch, held, framed, committedOffset,
                       committedGen, disk, history>>
  BY DEF Sleep, Elapse, Goto
<1>2. d \in Nat /\ q \in Seq(PendingBatch)
  BY AgentAssumption DEF TInv, TypeOK, RetryTypeOK
<1>3. InFlight' = InFlight
  BY <1>1, <1>2, BatchesInWaited DEF InFlight, InHand, Waiting
<1>4. ~changed
  BY <1>1 DEF Shape, Working, Sending
<1> QED BY <1>1, <1>3, <1>4 DEF Idle, Working, fsVars, history

LEMMA DoneIdle ==
  ASSUME TInv, IInv, Shape, SkipCommit \/ SendFailed PROVE Idle
<1>1. /\ pc \in {"acked", "failed"} /\ Resume(site) /\ site' = site
      /\ UNCHANGED <<fsVars, followerVars, framerVars, batchVars, framed,
                     committedOffset, committedGen, disk, history>>
  BY DEF SkipCommit, SendFailed
<1>2. held # None
  BY <1>1 DEF TInv, HandFull, Sending
<1>3. InFlight' \subseteq InFlight
  <2>1. CASE SkipCommit
    BY <2>1 DEF SkipCommit, Release, InFlight, InHand, Waiting
  <2>2. CASE SendFailed
    <3>1. Requeue \/ Enqueue
      BY <2>2 DEF SendFailed
    <3>2. held' = None
      BY <3>1 DEF Requeue, Enqueue
    <3>3. BatchesIn(q') \subseteq BatchesIn(q) \cup {held.batch}
      BY <3>1, EnqueueKeeps, RequeueKeeps DEF TInv, TypeOK
    <3> QED BY <1>2, <3>2, <3>3 DEF InFlight, InHand, Waiting
  <2> QED BY <2>1, <2>2
<1>4. /\ pc' \in {"sleep", "polled", "push", "exit"}
      /\ changed => pc' = "polled"
  <2>1. pc' \in {"sleep", "polled", "push", "exit"}
    BY <1>1, ResumeType
  <2>2. changed => site = "rotate"
    BY <1>1 DEF Shape, Working
  <2>3. site = "rotate" => pc' = "polled"
    BY <1>1, Resumed
  <2> QED BY <2>1, <2>2, <2>3
<1> QED BY <1>1, <1>3, <1>4 DEF Idle, Working, fsVars, followerVars,
           batchVars, history

IdleStep == \/ TickRetry \/ ReadNoChunk \/ KeepBatch \/ Send \/ SkipCommit
            \/ SendFailed \/ Sleep \/ StopIdle

LEMMA IdleSteps ==
  ASSUME TInv, IInv, AlwaysThere, Shape, IdleStep PROVE Idle
BY QuietIdle, TickRetryIdle, SendIdle, SleepIdle, DoneIdle DEF IdleStep

\* The flushes: the batch under construction is taken in hand, and another of
\* the same file begun.
FlushStep == \/ TickFlush \/ FlushOld \/ FlushFull \/ FlushLimits \/ StopFlushes

Flushed ==
  /\ pc \in {"top", "polled", "push"} /\ pc' = "send"
  /\ held'.batch = batch
  /\ changed => pc = "polled" /\ site' = "rotate"
  /\ batch' = EmptyBatch(batch.file, batch.gen)
  /\ InFlight' \subseteq InFlight \cup {batch}
  /\ UNCHANGED <<path, fd, activeId, generation, readOffset, rotationPending,
                 opening, statId, changed, framerVars, framed,
                 committedOffset, committedGen, disk, acked>>

LEMMA FlushSteps ==
  ASSUME TInv, IInv, Shape, FlushStep PROVE Flushed
<1>1. \E s, force : /\ HandOver(s, force) /\ pc \in {"top", "polled", "push"}
                    /\ pc = "polled" => s = "rotate"
  BY DEF FlushStep, TickFlush, FlushOld, FlushFull, FlushLimits, StopFlushes
<1>2. PICK s, force : /\ HandOver(s, force) /\ pc \in {"top", "polled", "push"}
                      /\ pc = "polled" => s = "rotate"
  BY <1>1
<1>3. /\ Hold(batch) /\ Flush /\ pc' = "send" /\ site' = s /\ q' = q
      /\ UNCHANGED <<fsVars, followerVars, framerVars, framed, committedOffset,
                     committedGen, disk, history>>
  BY <1>2 DEF HandOver, Goto
<1>4. held'.batch = batch
  BY <1>3 DEF Hold
<1>5. InFlight' \subseteq InFlight \cup {batch}
  BY <1>3, <1>4 DEF InFlight, InHand, Waiting
<1>6. changed => pc = "polled"
  BY <1>2 DEF Shape, Working, Sending
<1> QED BY <1>2, <1>3, <1>4, <1>5, <1>6 DEF Flushed, Flush, ResetBatch, fsVars,
           followerVars, history
------------------------------------------------------------------------------
\* The other steps of a working agent, all of whose descriptors stay as they are.
LEMMA CommitShape == ASSUME Shape, Commit PROVE Shape'
<1>1. /\ pc = "acked" /\ site # "rotate" /\ pc' = "save"
      /\ UNCHANGED <<path, fd, activeId, opening, statId, changed>>
  BY DEF Commit, fsVars, followerVars
<1>2. ~changed
  BY <1>1 DEF Shape, Working
<1> QED BY <1>1, <1>2, QuietShape DEF Working

LEMMA SaveShape == ASSUME Shape, Save PROVE Shape'
<1>1. /\ pc = "save" /\ Resume(site)
      /\ UNCHANGED <<path, fd, activeId, opening, statId, changed>>
  BY DEF Save, fsVars, followerVars
<1>2. pc' \in {"sleep", "polled", "push", "exit"}
  BY <1>1, ResumeType
<1>3. ~changed
  BY <1>1 DEF Shape, Working, Sending
<1> QED BY <1>1, <1>2, <1>3, QuietShape DEF Working

LEMMA ReadChunkShape == ASSUME Shape, ReadChunk PROVE Shape'
<1>1. /\ pc = "polled" /\ ~changed /\ pc' \in {"sleep", "push"}
      /\ UNCHANGED <<path, fd, activeId, opening, statId, changed>>
  BY DEF ReadChunk, ReadData, Goto, fsVars
<1> QED BY <1>1, QuietShape DEF Working

LEMMA PushRecordShape == ASSUME Shape, PushRecord PROVE Shape'
<1>1. /\ pc = "push" /\ pc' = "push"
      /\ UNCHANGED <<path, fd, activeId, opening, statId, changed>>
  BY DEF PushRecord, fsVars, followerVars
<1>2. ~changed
  BY <1>1 DEF Shape, Working, Sending
<1> QED BY <1>1, <1>2, QuietShape DEF Working

\* Every step of the agent is one of these.
LEMMA StepCases ==
  ASSUME [Next]_vars
  PROVE  \/ IdleStep \/ FlushStep \/ Boot \/ Opening \/ Loading \/ TickPoll
         \/ ResetForNewFile \/ ReadChunk \/ PushRecord \/ Commit \/ Save
         \/ Gone \/ Environment \/ UNCHANGED vars
<1>1. RunOnce => \/ IdleStep \/ FlushStep \/ Opening \/ TickPoll
                 \/ ResetForNewFile \/ ReadChunk \/ PushRecord \/ Commit \/ Save
                 \/ Gone
  BY DEF RunOnce, IdleStep, FlushStep, Exit
<1>2. Stop \/ Crash => IdleStep \/ FlushStep \/ Gone
  BY DEF Stop, Crash, IdleStep, FlushStep
<1> QED BY <1>1, <1>2 DEF Next

LEMMA NextShape == AlwaysThere /\ TInv /\ IInv /\ Shape /\ [Next]_vars => Shape'
<1> SUFFICES ASSUME AlwaysThere, TInv, IInv, Shape, [Next]_vars PROVE Shape'
  OBVIOUS
<1>1. CASE IdleStep
  BY <1>1, IdleSteps, QuietShape DEF Idle, Working
<1>2. CASE FlushStep
  <2>1. Flushed
    BY <1>2, FlushSteps
  <2> QED BY <2>1, QuietShape DEF Flushed, Working, Sending
<1>3. CASE Boot \/ Opening \/ Loading \/ TickPoll
  BY <1>3, BootShape, OpeningShape, LoadShape, TickPollShape
<1>4. CASE ResetForNewFile \/ ReadChunk \/ PushRecord \/ Commit \/ Save
  BY <1>4, ResetShape, ReadChunkShape, PushRecordShape, CommitShape, SaveShape
<1>5. CASE Gone \/ Environment
  BY <1>5, GoneShape, EnvironmentShape
<1>6. CASE UNCHANGED vars
  BY <1>6 DEF vars, agentVars, fsVars, followerVars, Shape, Working, Booting,
              Switching
<1> QED BY <1>1, <1>2, <1>3, <1>4, <1>5, <1>6, StepCases
------------------------------------------------------------------------------
\* Until a checkpoint is loaded there is nothing in memory.
Fresh ==
  Starting => /\ q = <<>> /\ held = None /\ framed = <<>> /\ buffer = <<>>
              /\ batch = EmptyBatch(None, 0)
              /\ ~rotationPending /\ readOffset = 0 /\ generation = 0

LEMMA InitFresh == ASSUME Init PROVE Fresh
BY DEF Init, FollowerInit, FramerInit, BatchInit, RetryInit, Fresh

LEMMA NextFresh ==
  AlwaysThere /\ TInv /\ IInv /\ Shape /\ Fresh /\ [Next]_vars => Fresh'
<1> SUFFICES ASSUME AlwaysThere, TInv, IInv, Shape, Fresh, [Next]_vars
             PROVE  Fresh'
  OBVIOUS
<1>1. CASE IdleStep \/ FlushStep
  <2>1. Working'
    BY <1>1, IdleSteps, FlushSteps DEF Idle, Flushed, Working
  <2> QED BY <2>1 DEF Working, Starting, Fresh
<1>2. CASE Boot
  BY <1>2 DEF Boot, StartReopen, Starting, Fresh, framerVars, batchVars, retryVars
<1>3. CASE Opening
  <2>1. CASE Starting
    <3>1. /\ q = <<>> /\ held = None /\ framed = <<>> /\ buffer = <<>>
          /\ batch = EmptyBatch(None, 0)
          /\ ~rotationPending /\ readOffset = 0 /\ generation = 0
      BY <2>1 DEF Fresh
    <3>2. UNCHANGED <<q, held, framed, buffer, batch>>
      BY <1>3 DEF Opening, framerVars, batchVars, retryVars
    <3>3. ~rotationPending' /\ readOffset' = 0 /\ generation' = 0
      BY <1>3, <3>1 DEF Opening, StatPath, OpenPath, OpenFails
    <3> QED BY <3>1, <3>2, <3>3 DEF Fresh
  <2>2. CASE ~Starting
    <3>1. pc = "open" /\ site' = site /\ pc' \in {"open", "load", "polled"}
          /\ (pc' = "load" => site = "boot")
      BY <1>3 DEF Opening
    <3> QED BY <2>2, <3>1 DEF Fresh, Starting
  <2> QED BY <2>1, <2>2
<1>4. CASE Loading \/ TickPoll \/ ResetForNewFile
  BY <1>4 DEF Loading, LoadResumes, LoadStartsOver, LoadWithoutFile, TickPoll,
              ResetForNewFile, Goto, Starting, Fresh
<1>5. CASE ReadChunk \/ PushRecord \/ Commit
  BY <1>5 DEF ReadChunk, PushRecord, Commit, Goto, Starting, Fresh
<1>6. CASE Save
  BY <1>6, ResumeType DEF Save, Starting, Fresh
<1>7. CASE Gone
  BY <1>7 DEF Gone, FramerReset, ResetBatch, Fresh
<1>8. CASE Environment \/ UNCHANGED vars
  BY <1>8 DEF Environment, vars, followerVars, framerVars, batchVars, retryVars,
              agentVars, Starting, Fresh
<1> QED BY <1>1, <1>2, <1>3, <1>4, <1>5, <1>6, <1>7, <1>8, StepCases
------------------------------------------------------------------------------
\* Every batch is of one file: the one that is open, but while a change of it is
\* still to be dealt with; and so is what remains to be pushed.
Uniform ==
  /\ ~Starting /\ ~changed => batch.file = activeId /\ batch.gen = generation
  /\ \A r \in Range(framed) : r.file = batch.file /\ r.gen = batch.gen
  /\ \A b \in {batch} \cup InFlight : Homogeneous(b)

LEMMA EmptyHomogeneous ==
  ASSUME NEW file, NEW gen PROVE Homogeneous(EmptyBatch(file, gen))
BY NoElements DEF Homogeneous, EmptyBatch

LEMMA InitUniform == ASSUME Init PROVE Uniform
<1>1. InFlight = {}
  BY DEF Init, RetryInit, InFlight, InHand, Waiting, BatchesIn
<1> QED BY <1>1, EmptyHomogeneous, NoElements
        DEF Init, BatchInit, Starting, Uniform

\* A step that keeps the batch, or empties it, and does not change the file.
LEMMA QuietUniform ==
  ASSUME Uniform, UNCHANGED <<framed, activeId, generation>>,
         batch' = batch \/ batch' = EmptyBatch(batch.file, batch.gen),
         InFlight' \subseteq InFlight \cup {batch},
         ~Starting' /\ ~changed' => ~Starting /\ ~changed
  PROVE  Uniform'
<1>1. batch'.file = batch.file /\ batch'.gen = batch.gen
  BY DEF EmptyBatch
<1>2. Homogeneous(batch)'
  <2>1. CASE batch' = batch
    BY <2>1 DEF Uniform, Homogeneous
  <2>2. CASE batch' = EmptyBatch(batch.file, batch.gen)
    BY <2>2, NoElements DEF EmptyBatch, Homogeneous
  <2> QED BY <2>1, <2>2
<1>3. \A b \in InFlight' : Homogeneous(b)
  BY DEF Uniform
<1>4. \A r \in Range(framed') : r.file = batch'.file /\ r.gen = batch'.gen
  BY <1>1 DEF Uniform
<1>5. ~Starting' /\ ~changed' => batch'.file = activeId' /\ batch'.gen = generation'
  BY <1>1 DEF Uniform
<1> QED BY <1>2, <1>3, <1>4, <1>5 DEF Uniform, Homogeneous

\* An empty batch of the file that is open, with nothing framed.
LEMMA FreshUniform ==
  ASSUME Uniform, framed' = <<>>, batch' = EmptyBatch(activeId', generation'),
         InFlight' \subseteq InFlight
  PROVE  Uniform'
<1>1. Homogeneous(batch)'
  BY NoElements DEF EmptyBatch, Homogeneous
<1>2. \A b \in InFlight' : Homogeneous(b)
  BY DEF Uniform
<1>3. Range(framed') = {} /\ batch'.file = activeId' /\ batch'.gen = generation'
  BY NoElements DEF EmptyBatch
<1> QED BY <1>1, <1>2, <1>3 DEF Uniform, Homogeneous

LEMMA RangeHeadTail ==
  ASSUME NEW S, NEW s \in Seq(S), s # <<>>
  PROVE  Head(s) \in Range(s) /\ Range(Tail(s)) \subseteq Range(s)
<1>1. Len(s) \in Nat \ {0} /\ DOMAIN s = 1..Len(s) /\ Head(s) = s[1]
  BY LenProperties, EmptySeq
<1>2. /\ DOMAIN Tail(s) = 1..Len(s) - 1
      /\ \A i \in 1..Len(s) - 1 : Tail(s)[i] = s[i + 1]
  BY HeadTailProperties, LenProperties
<1>3. Head(s) \in Range(s)
  BY <1>1 DEF Range
<1>4. ASSUME NEW i \in 1..Len(s) - 1 PROVE Tail(s)[i] \in Range(s)
  <2>1. i + 1 \in DOMAIN s /\ Tail(s)[i] = s[i + 1]
    BY <1>1, <1>2
  <2> QED BY <2>1 DEF Range
<1> QED BY <1>2, <1>3, <1>4 DEF Range

LEMMA RangeAppended ==
  ASSUME NEW S, NEW s \in Seq(S), NEW x \in S
  PROVE  Range(Append(s, x)) = Range(s) \cup {x}
<1>1. /\ Len(s) \in Nat /\ DOMAIN s = 1..Len(s)
      /\ DOMAIN Append(s, x) = 1..Len(s) + 1
  BY AppendProperties, LenProperties
<1>2. /\ \A i \in 1..Len(s) : Append(s, x)[i] = s[i]
      /\ Append(s, x)[Len(s) + 1] = x
  BY AppendProperties
<1>3. Range(Append(s, x)) \subseteq Range(s) \cup {x}
  BY <1>1, <1>2 DEF Range
<1> QED BY <1>3, RangeAppend

\* What a push does to the batch and to what is left.
LEMMA Pushed ==
  ASSUME TInv, PushRecord
  PROVE  /\ pc = "push" /\ pc' = "push" /\ site' = site
         /\ framed # <<>> /\ framed' = Tail(framed)
         /\ framed \in Seq(Record) /\ Head(framed) \in Record
         /\ Head(framed) \in Range(framed)
         /\ Range(framed') \subseteq Range(framed)
         /\ batch'.records = Append(batch.records, Head(framed))
         /\ Range(batch'.records) = Range(batch.records) \cup {Head(framed)}
         /\ batch'.file = batch.file /\ batch'.gen = batch.gen
         /\ batch'.end = Larger(batch.end, Head(framed).end)
         /\ batch.end \in Nat /\ Head(framed).end \in Nat
         /\ InFlight' = InFlight
<1>1. /\ pc = "push" /\ pc' = "push" /\ site' = site
      /\ framed # <<>> /\ framed' = Tail(framed) /\ Push(Head(framed))
      /\ UNCHANGED retryVars
  BY DEF PushRecord
<1>2. framed \in Seq(Record) /\ Head(framed) \in Record
  BY <1>1, HeadTailProperties DEF TInv, TypeOK, AgentTypeOK
<1>3. batch \in Batch /\ batch.records \in Seq(Record) /\ batch.end \in Nat
  BY DEF TInv, TypeOK, BatchTypeOK, Batch
<1>4. /\ batch'.records = Append(batch.records, Head(framed))
      /\ batch'.file = batch.file /\ batch'.gen = batch.gen
      /\ batch'.end = Larger(batch.end, Head(framed).end)
  BY <1>1, <1>3 DEF Push, Batch
<1>5. Range(batch'.records) = Range(batch.records) \cup {Head(framed)}
  BY <1>2, <1>3, <1>4, RangeAppended
<1>6. Head(framed) \in Range(framed) /\ Range(framed') \subseteq Range(framed)
  BY <1>1, <1>2, RangeHeadTail
<1>7. InFlight' = InFlight
  BY <1>1 DEF retryVars, InFlight, InHand, Waiting
<1>8. Head(framed).end \in Nat
  BY <1>2 DEF Record
<1> QED BY <1>1, <1>2, <1>3, <1>4, <1>5, <1>6, <1>7, <1>8

LEMMA PushRecordUniform ==
  ASSUME TInv, Uniform, PushRecord PROVE Uniform'
<1>1. UNCHANGED <<pc, site, changed, activeId, generation>>
  BY DEF PushRecord, followerVars
<1>2. \A r \in Range(batch.records) :
        r.end \in Nat /\ r.file = batch.file /\ r.gen = batch.gen /\ r.end <= batch.end
  <2>1. batch.records \in Seq(Record)
    BY DEF TInv, TypeOK, BatchTypeOK, Batch
  <2>2. \A r \in Range(batch.records) : r \in Record
    BY <2>1, RangeType
  <2>3. \A r \in Range(batch.records) : r.end \in Nat
    BY <2>2 DEF Record
  <2> QED BY <2>3 DEF Uniform, Homogeneous
<1>3. Head(framed).file = batch.file /\ Head(framed).gen = batch.gen
  BY Pushed DEF Uniform
<1>4. ASSUME NEW r \in Range(batch'.records)
      PROVE  r.file = batch'.file /\ r.gen = batch'.gen /\ r.end <= batch'.end
  <2>1. r = Head(framed) \/ r \in Range(batch.records)
    BY Pushed
  <2>2. CASE r = Head(framed)
    <3>1. r.end <= batch'.end
      BY <2>2, Pushed DEF Larger
    <3> QED BY <2>2, <1>3, <3>1, Pushed
  <2>3. CASE r \in Range(batch.records)
    <3>1. r.end <= batch'.end
      BY <2>3, <1>2, Pushed DEF Larger
    <3> QED BY <2>3, <1>2, <3>1, Pushed
  <2> QED BY <2>1, <2>2, <2>3
<1>5. Homogeneous(batch)'
  BY <1>4 DEF Homogeneous
<1>6. \A b \in InFlight' : Homogeneous(b)
  BY Pushed DEF Uniform
<1>7. \A r \in Range(framed') : r.file = batch'.file /\ r.gen = batch'.gen
  BY Pushed DEF Uniform
<1>8. ~Starting' /\ ~changed' => batch'.file = activeId' /\ batch'.gen = generation'
  BY <1>1, Pushed DEF Uniform, Starting
<1> QED BY <1>5, <1>6, <1>7, <1>8 DEF Uniform, Homogeneous

\* What a chunk adds is labelled with the file that is open.
LEMMA ReadChunkUniform ==
  ASSUME TInv, Uniform, ReadChunk PROVE Uniform'
<1>1. /\ pc = "polled" /\ ~changed /\ pc' \in {"sleep", "push"}
      /\ UNCHANGED <<changed, activeId, generation, batch>>
      /\ InFlight' = InFlight
  BY DEF ReadChunk, ReadData, Goto, batchVars, retryVars, InFlight, InHand, Waiting
<1>2. \E lines : framed' = Labelled(lines)
  BY DEF ReadChunk
<1>3. batch.file = activeId /\ batch.gen = generation
  BY <1>1 DEF Starting, Uniform
<1>4. \A r \in Range(framed') : r.file = batch'.file /\ r.gen = batch'.gen
  <2>1. PICK lines : framed' = Labelled(lines)
    BY <1>2
  <2> QED BY <1>1, <1>3, <2>1 DEF Labelled, Range
<1>5. \A b \in {batch'} \cup InFlight' : Homogeneous(b)
  BY <1>1 DEF Uniform
<1> QED BY <1>1, <1>3, <1>4, <1>5 DEF Uniform, Homogeneous

\* The poll of an agent that has a file open.
LEMMA Polled ==
  ASSUME AlwaysThere, TInv, Shape, TickPoll
  PROVE  /\ pc = "top" /\ pc' \in {"polled", "open"} /\ site' = "due" /\ ~changed
         /\ PollPath(committedOffset)
         /\ UNCHANGED <<path, activeId, statId, batchVars, retryVars, framed, framerVars,
                        committedOffset, committedGen, disk, acked>>
         /\ InFlight' = InFlight
         /\ ~changed' => UNCHANGED <<generation, readOffset>>
<1>1. /\ pc = "top" /\ Poll(committedOffset) /\ pc' \in {"polled", "open"} /\ site' = "due"
      /\ UNCHANGED <<fsVars, batchVars, retryVars, framed, framerVars,
                     committedOffset, committedGen, disk, history>>
  BY DEF TickPoll, Goto
<1>2. fd # None /\ path # None /\ ~changed
  BY <1>1, NoneAssumption DEF Shape, Working, Sending
<1>3. PollPath(committedOffset)
  BY <1>1, <1>2 DEF Poll, StartReopen, PollPathMissing, PollFstatFails, AlwaysThere
<1>4. UNCHANGED <<activeId, statId>> /\ CheckSize(committedOffset)
  BY <1>3 DEF PollPath
<1>5. ~changed' => readOffset' = readOffset
  BY <1>4 DEF CheckSize
<1>6. ~changed' => generation' = generation
  BY <1>4 DEF CheckSize, TInv, TypeOK, FollowerTypeOK
<1>7. InFlight' = InFlight
  BY <1>1 DEF retryVars, InFlight, InHand, Waiting
<1> QED BY <1>1, <1>2, <1>3, <1>4, <1>5, <1>6, <1>7 DEF fsVars, history

\* The open under way goes on: the path is asked for, or opened.
Asked ==
  /\ pc' = "open" /\ statId = None /\ statId' = path
  /\ UNCHANGED <<fd, activeId, generation, readOffset, rotationPending, opening,
                 changed>>

Reached ==
  /\ pc' = IF Booting THEN "load" ELSE "polled"
  /\ statId # None /\ statId' = None
  /\ fd' = path /\ activeId' = statId
  /\ generation' = 0 /\ readOffset' = 0 /\ rotationPending' = FALSE
  /\ opening' = "no" /\ changed' = Switching

LEMMA Opened ==
  ASSUME AlwaysThere, TInv, Shape, Opening
  PROVE  /\ Booting \/ Switching
         /\ pc = "open" /\ site' = site
         /\ UNCHANGED <<path, batchVars, retryVars, framed, framerVars,
                        committedOffset, committedGen, disk, acked>>
         /\ InFlight' = InFlight
         /\ Asked \/ Reached
<1>1. /\ pc = "open" /\ site' = site
      /\ pc' = IF opening' # "no" THEN "open"
               ELSE IF site = "boot" THEN "load" ELSE "polled"
      /\ UNCHANGED <<path, batchVars, retryVars, framed, framerVars,
                     committedOffset, committedGen, disk, acked>>
  BY DEF Opening, fsVars, history
<1>2. path # None /\ (Booting \/ Switching)
  BY <1>1, NoneAssumption DEF Shape, Booting, Switching
<1>3. InFlight' = InFlight
  BY <1>1 DEF retryVars, InFlight, InHand, Waiting
<1>4. CASE StatPath
  <2>1. /\ opening # "no" /\ statId = None /\ statId' = path /\ opening' = opening
        /\ rotationPending' = (rotationPending /\ TRUE)
        /\ UNCHANGED <<fd, activeId, generation, readOffset, changed>>
    BY <1>2, <1>4 DEF StatPath, AlwaysThere
  <2>2. rotationPending' = rotationPending
    BY <2>1 DEF TInv, TypeOK, FollowerTypeOK
  <2>3. Asked
    BY <1>1, <2>1, <2>2 DEF Asked
  <2> QED BY <1>1, <1>2, <1>3, <2>3
<1>5. CASE OpenPath
  <2>1. /\ statId # None /\ statId' = None
        /\ fd' = path /\ activeId' = statId
        /\ generation' = 0 /\ readOffset' = 0 /\ rotationPending' = FALSE
        /\ opening' = "no" /\ changed' = (changed \/ opening = "switch")
    BY <1>5 DEF OpenPath
  <2>2. changed' = Switching
    BY <1>1, <1>2, <2>1 DEF Shape, Booting, Switching
  <2>3. pc' = IF Booting THEN "load" ELSE "polled"
    BY <1>1, <2>1 DEF Booting
  <2>4. Reached
    BY <2>1, <2>2, <2>3 DEF Reached
  <2> QED BY <1>1, <1>2, <1>3, <2>4
<1>6. CASE OpenFails
  BY <1>2, <1>6 DEF OpenFails, AlwaysThere
<1> QED BY <1>4, <1>5, <1>6 DEF Opening

\* The load that ends the start.
LEMMA Loaded ==
  ASSUME Shape, Fresh, Loading
  PROVE  /\ pc = "load" /\ pc' = "top" /\ ~changed'
         /\ UNCHANGED <<path, activeId, statId, framerVars, retryVars, disk, acked>>
         /\ rotationPending' = FALSE
         /\ framed' = <<>> /\ buffer' = <<>> /\ InFlight' = {} /\ InFlight = {}
         /\ batch' = EmptyBatch(activeId', generation')
         /\ committedGen' = generation' /\ readOffset' = committedOffset'
         /\ \/ /\ Resumable
               /\ generation' = disk.gen /\ committedOffset' = disk.off
            \/ /\ ~Resumable \/ "load" \in StoreFaults
               /\ committedOffset' = 0
<1>1. fd # None /\ ~changed /\ pc = "load"
  BY DEF Shape, Loading, LoadResumes, LoadStartsOver, LoadWithoutFile
<1>2. /\ q = <<>> /\ held = None /\ framed = <<>> /\ buffer = <<>>
      /\ ~rotationPending /\ readOffset = 0 /\ generation = 0
  BY <1>1 DEF Fresh, Starting
<1>3. /\ pc' = "top" /\ UNCHANGED <<path, activeId, statId, changed, framerVars,
                                   retryVars, disk, framed, acked>>
  BY DEF Loading, LoadResumes, SetPosition, LoadStartsOver, LoadWithoutFile, Goto,
         fsVars, followerVars, history
<1>4. InFlight = {} /\ InFlight' = {}
  BY <1>2, <1>3 DEF retryVars, InFlight, InHand, Waiting, BatchesIn
<1>5. CASE LoadResumes
  <2>1. /\ Resumable
        /\ generation' = disk.gen /\ readOffset' = disk.off /\ rotationPending' = FALSE
        /\ committedOffset' = disk.off /\ committedGen' = disk.gen
        /\ batch' = EmptyBatch(activeId, disk.gen)
    BY <1>5 DEF LoadResumes, SetPosition, ResetBatch
  <2> QED BY <1>1, <1>2, <1>3, <1>4, <2>1 DEF framerVars
<1>6. CASE LoadStartsOver
  <2>1. /\ ~Resumable \/ "load" \in StoreFaults
        /\ committedOffset' = 0 /\ committedGen' = generation
        /\ batch' = EmptyBatch(activeId, generation)
        /\ UNCHANGED <<generation, readOffset, rotationPending>>
    BY <1>6 DEF LoadStartsOver, ResetBatch, followerVars
  <2> QED BY <1>1, <1>2, <1>3, <1>4, <2>1 DEF framerVars
<1>7. CASE LoadWithoutFile
  BY <1>1, <1>7 DEF LoadWithoutFile
<1> QED BY <1>5, <1>6, <1>7 DEF Loading

\* The reset for another file, or for another generation of this one.
LEMMA WasReset ==
  ASSUME IInv, Shape, ResetForNewFile
  PROVE  /\ pc = "polled" /\ pc' = "save" /\ site' = "reset" /\ changed /\ ~changed'
         /\ UNCHANGED <<path, activeId, generation, readOffset, rotationPending,
                        statId, retryVars, disk, acked>>
         /\ framed' = <<>> /\ buffer' = <<>> /\ InFlight' = InFlight
         /\ batch' = EmptyBatch(activeId', generation')
         /\ committedGen' = generation' /\ committedOffset' = 0
<1>1. /\ pc = "polled" /\ pc' = "save" /\ site' = "reset" /\ changed /\ changed' = FALSE
      /\ UNCHANGED <<fsVars, activeId, generation, readOffset, rotationPending,
                     statId, retryVars, framed, disk, history>>
      /\ buffer' = <<>> /\ batch' = EmptyBatch(activeId, generation)
      /\ committedGen' = generation /\ committedOffset' = 0
  BY DEF ResetForNewFile, FramerReset, ResetBatch, Goto
<1>2. framed = <<>>
  BY <1>1 DEF IInv, AInv, Pushing
<1>3. InFlight' = InFlight
  BY <1>1 DEF retryVars, InFlight, InHand, Waiting
<1> QED BY <1>1, <1>2, <1>3 DEF fsVars, history

LEMMA NextUniform ==
  AlwaysThere /\ TInv /\ IInv /\ Shape /\ Fresh /\ Uniform /\ [Next]_vars => Uniform'
<1> SUFFICES ASSUME AlwaysThere, TInv, IInv, Shape, Fresh, Uniform, [Next]_vars
             PROVE  Uniform'
  OBVIOUS
<1>1. CASE IdleStep
  <2>1. Idle
    BY <1>1, IdleSteps
  <2>2. ~Starting
    BY <2>1 DEF Idle, Working, Starting
  <2> QED BY <2>1, <2>2, QuietUniform DEF Idle
<1>2. CASE FlushStep
  <2>1. Flushed
    BY <1>2, FlushSteps
  <2>2. ~Starting
    BY <2>1 DEF Flushed, Starting
  <2> QED BY <2>1, <2>2, QuietUniform DEF Flushed
<1>3. CASE Boot
  BY <1>3, QuietUniform DEF Boot, Goto, StartReopen, Starting, batchVars,
     retryVars, InFlight, InHand, Waiting
<1>4. CASE Opening
  <2>1. CASE Asked
    BY <1>4, <2>1, Opened, QuietUniform
       DEF Asked, Booting, Switching, Starting, batchVars
  <2>2. CASE Reached
    <3>1. Starting' \/ changed'
      BY <1>4, <2>2, Opened DEF Reached, Booting, Switching, Starting
    <3>2. UNCHANGED <<framed, batch>> /\ InFlight' = InFlight
      BY <1>4, Opened DEF batchVars
    <3> QED BY <3>1, <3>2 DEF Uniform, Homogeneous
  <2> QED BY <1>4, <2>1, <2>2, Opened
<1>5. CASE Loading
  BY <1>5, Loaded, FreshUniform
<1>6. CASE TickPoll
  <2>1. CASE changed'
    BY <1>6, <2>1, Polled DEF Uniform, Homogeneous, batchVars
  <2>2. CASE ~changed'
    BY <1>6, <2>2, Polled, QuietUniform DEF batchVars, Starting
  <2> QED BY <2>1, <2>2
<1>7. CASE ResetForNewFile
  BY <1>7, WasReset, FreshUniform
<1>8. CASE ReadChunk \/ PushRecord
  BY <1>8, ReadChunkUniform, PushRecordUniform
<1>9. CASE Commit \/ Save
  <2>1. /\ pc \in {"acked", "save"} /\ InFlight' \subseteq InFlight
        /\ UNCHANGED <<followerVars, batchVars, framed>>
    BY <1>9 DEF Commit, Save, Release, retryVars, InFlight, InHand, Waiting
  <2> QED BY <2>1, QuietUniform DEF followerVars, batchVars, Starting
<1>10. CASE Gone
  <2>1. /\ framed' = <<>> /\ batch' = EmptyBatch(activeId', generation')
        /\ InFlight' = {}
    BY <1>10 DEF Gone, ResetBatch, InFlight, InHand, Waiting, BatchesIn
  <2> QED BY <2>1, FreshUniform
<1>11. CASE Environment \/ UNCHANGED vars
  <2>1. UNCHANGED <<followerVars, batchVars, retryVars, agentVars>>
    BY <1>11 DEF Environment, vars
  <2> QED BY <2>1, QuietUniform DEF followerVars, batchVars, retryVars, agentVars,
             Starting, InFlight, InHand, Waiting
<1> QED BY <1>1, <1>2, <1>3, <1>4, <1>5, <1>6, <1>7, <1>8, <1>9, <1>10, <1>11,
           StepCases

Base == TInv /\ IInv /\ Shape /\ Fresh /\ Uniform

LEMMA InitBase == ASSUME AlwaysThere, Init PROVE Base
BY InitTInv, InitIInv, InitShape, InitFresh, InitUniform DEF Base

LEMMA NextBase == ASSUME AlwaysThere, Base, [Next]_vars PROVE Base'
BY NextTInv, NextIInv, NextShape, NextFresh, NextUniform DEF Base

\* Sink.hpp:40, Agent.cpp:84-108, 200-335.  Where the file is always there, no
\* batch, wherever it is, ever holds a record of another file or generation than
\* its label names, nor one past the offset its acknowledgement commits: every
\* switch and truncation flushes the batch and resets it before it reads on.
THEOREM OneFilePerBatch == ASSUME AlwaysThere PROVE Spec => []BatchesHomogeneous
<1>1. Init => Base
  BY InitBase
<1>2. Base /\ [Next]_vars => Base'
  BY NextBase
<1>3. Base => BatchesHomogeneous
  BY DEF Base, Uniform, InFlight, BatchesHomogeneous
<1> QED BY <1>1, <1>2, <1>3, PTL DEF Spec
------------------------------------------------------------------------------
\* The offset to be committed has been acknowledged; so has the batch that is
\* about to move it.
CurrentLabel == [file |-> activeId, gen |-> generation, off |-> committedOffset]

Committed ==
  /\ NoBlindCommit
  /\ ~Starting /\ ~changed =>
       /\ committedGen = generation
       /\ committedOffset = 0 \/ CurrentLabel \in acked
  /\ pc = "acked" => LabelOf(held.batch) \in acked

LEMMA InitCommitted == ASSUME Init PROVE Committed
BY DEF Init, Starting, Committed, NoBlindCommit

\* A step that leaves the position where it is.
LEMMA QuietCommitted ==
  ASSUME Committed, UNCHANGED disk, acked \subseteq acked',
         ~Starting' /\ ~changed' =>
           /\ ~Starting /\ ~changed
           /\ UNCHANGED <<activeId, generation, committedOffset, committedGen>>,
         pc' = "acked" => LabelOf(held'.batch) \in acked'
  PROVE  Committed'
BY DEF Committed, NoBlindCommit, CurrentLabel

\* A step after which the position is 0 of the file that is open.
LEMMA ZeroCommitted ==
  ASSUME Committed, UNCHANGED <<disk, acked>>, pc' # "acked",
         committedGen' = generation', committedOffset' = 0
  PROVE  Committed'
BY DEF Committed, NoBlindCommit

\* An acknowledged batch of the file that is open moves the position.
LEMMA CommitMoves ==
  ASSUME Base, Committed, Commit
  PROVE  /\ pc = "acked" /\ site # "rotate" /\ pc' = "save" /\ site' = site /\ ~changed
         /\ UNCHANGED <<path, followerVars, framerVars, batchVars, framed, disk, acked>>
         /\ held.batch \in InFlight /\ held.batch \in Batch
         /\ held.batch.file = activeId /\ held.batch.gen = generation
         /\ InFlight' \subseteq InFlight
         /\ committedOffset' = Larger(committedOffset, held.batch.end)
         /\ committedOffset \in Nat /\ held.batch.end \in Nat
         /\ committedGen' = generation
         /\ CurrentLabel' \in acked
<1>1. /\ pc = "acked" /\ site # "rotate" /\ pc' = "save" /\ site' = site
      /\ held.batch.file = activeId /\ held.batch.gen = generation
      /\ committedOffset' = Larger(committedOffset, held.batch.end)
      /\ committedGen' = generation /\ Release
      /\ UNCHANGED <<path, followerVars, framerVars, batchVars, framed, disk, acked>>
  BY DEF Commit, IsCurrent, fsVars, history
<1>2. held # None /\ held \in PendingBatch /\ committedOffset \in Nat
  BY <1>1 DEF Base, TInv, HandFull, Sending, TypeOK, RetryTypeOK, AgentTypeOK
<1>3. held.batch \in Batch
  BY <1>2 DEF PendingBatch
<1>4. held.batch.end \in Nat
  BY <1>3 DEF Batch
<1>5. ~changed
  BY <1>1 DEF Base, Shape, Working
<1>6. committedOffset = 0 \/ CurrentLabel \in acked
  BY <1>1, <1>5 DEF Committed, Starting
<1>7. LabelOf(held.batch) \in acked
  BY <1>1 DEF Committed
<1>8. CurrentLabel' \in acked
  <2>1. CASE committedOffset >= held.batch.end /\ committedOffset # 0
    <3>1. committedOffset' = committedOffset /\ CurrentLabel' = CurrentLabel
      BY <1>1, <2>1 DEF Larger, CurrentLabel, followerVars
    <3> QED BY <1>6, <2>1, <3>1
  <2>2. CASE ~(committedOffset >= held.batch.end /\ committedOffset # 0)
    <3>1. committedOffset' = held.batch.end
      BY <1>1, <1>2, <1>4, <2>2 DEF Larger
    <3>2. CurrentLabel' = LabelOf(held.batch)
      BY <1>1, <3>1 DEF CurrentLabel, LabelOf, followerVars
    <3> QED BY <1>7, <3>2
  <2> QED BY <2>1, <2>2
<1>9. held.batch \in InFlight /\ InFlight' \subseteq InFlight
  BY <1>1, <1>2 DEF Release, InFlight, InHand, Waiting
<1> QED BY <1>1, <1>2, <1>3, <1>4, <1>5, <1>8, <1>9

\* What a save writes, if it writes.
LEMMA Saved ==
  ASSUME Base, Committed, Save
  PROVE  /\ pc = "save" /\ ~changed /\ pc' \in {"sleep", "polled", "push", "exit"}
         /\ UNCHANGED <<path, followerVars, framerVars, batchVars, framed,
                        committedOffset, committedGen, acked, site>>
         /\ InFlight' = InFlight
         /\ committedGen = generation
         /\ disk' = CurrentLabel \/ disk' = disk
<1>1. /\ pc = "save" /\ Resume(site)
      /\ UNCHANGED <<path, followerVars, framerVars, batchVars, framed,
                     committedOffset, committedGen, acked, site>>
      /\ UNCHANGED retryVars
      /\ \/ disk' = [file |-> activeId, gen |-> committedGen, off |-> committedOffset]
         \/ disk' = disk
  BY DEF Save, fsVars, history
<1>2. pc' \in {"sleep", "polled", "push", "exit"}
  BY <1>1, ResumeType
<1>3. ~changed
  BY <1>1 DEF Base, Shape, Working, Sending
<1>4. committedGen = generation
  BY <1>1, <1>3 DEF Committed, Starting
<1>5. InFlight' = InFlight
  BY <1>1 DEF retryVars, InFlight, InHand, Waiting
<1> QED BY <1>1, <1>2, <1>3, <1>4, <1>5 DEF CurrentLabel

LEMMA NextCommitted ==
  ASSUME AlwaysThere, Base, Committed, [Next]_vars PROVE Committed'
<1> USE DEF Base
<1>1. CASE IdleStep
  <2>1. Idle
    BY <1>1, IdleSteps
  <2>2. ~Starting
    BY <2>1 DEF Idle, Working, Starting
  <2> QED BY <2>1, <2>2, QuietCommitted DEF Idle
<1>2. CASE FlushStep
  <2>1. Flushed
    BY <1>2, FlushSteps
  <2>2. ~Starting
    BY <2>1 DEF Flushed, Starting
  <2> QED BY <2>1, <2>2, QuietCommitted DEF Flushed
<1>3. CASE Boot
  BY <1>3, QuietCommitted DEF Boot, Goto, StartReopen, Starting, history
<1>4. CASE Opening
  <2>1. CASE Asked
    BY <1>4, <2>1, Opened, QuietCommitted DEF Asked, Booting, Switching, Starting
  <2>2. CASE Reached
    <3>1. (Starting' \/ changed') /\ pc' # "acked"
      BY <1>4, <2>2, Opened DEF Reached, Booting, Switching, Starting
    <3> QED BY <1>4, <3>1, Opened, QuietCommitted
  <2> QED BY <1>4, <2>1, <2>2, Opened
<1>5. CASE Loading
  <2>1. CASE committedOffset' = 0
    BY <1>5, <2>1, Loaded, ZeroCommitted
  <2>2. CASE Resumable /\ generation' = disk.gen /\ committedOffset' = disk.off
    <3>1. disk # None /\ disk \in Label /\ disk.file = activeId
      BY <2>2 DEF Resumable, TInv, TypeOK, AgentTypeOK
    <3>2. CurrentLabel' = disk
      BY <1>5, <2>2, <3>1, Loaded DEF CurrentLabel, Label
    <3>3. disk.off = 0 \/ disk \in acked
      BY <3>1 DEF Committed, NoBlindCommit
    <3>4. committedGen' = generation' /\ UNCHANGED <<disk, acked>> /\ pc' = "top"
      BY <1>5, Loaded
    <3>5. NoBlindCommit'
      BY <3>3, <3>4 DEF NoBlindCommit
    <3>6. committedOffset' = 0 \/ CurrentLabel' \in acked'
      BY <2>2, <3>2, <3>3, <3>4
    <3> QED BY <3>4, <3>5, <3>6 DEF Committed
  <2> QED BY <1>5, <2>1, <2>2, Loaded
<1>6. CASE TickPoll
  BY <1>6, Polled, QuietCommitted DEF Starting
<1>7. CASE ResetForNewFile
  BY <1>7, WasReset, ZeroCommitted
<1>8. CASE ReadChunk \/ PushRecord
  <2>1. /\ pc \in {"polled", "push"} /\ pc' \in {"sleep", "push"}
        /\ UNCHANGED <<disk, acked, activeId, generation, changed, committedOffset,
                       committedGen>>
    BY <1>8 DEF ReadChunk, ReadData, PushRecord, Goto, followerVars, history
  <2> QED BY <2>1, QuietCommitted DEF Starting
<1>9. CASE Commit
  <2>1. UNCHANGED <<activeId, generation, changed, disk, acked>> /\ pc' = "save"
    BY <1>9, CommitMoves DEF followerVars
  <2>2. NoBlindCommit'
    BY <2>1 DEF Committed, NoBlindCommit
  <2> QED BY <1>9, <2>1, <2>2, CommitMoves DEF Committed
<1>10. CASE Save
  <2>1. /\ UNCHANGED <<activeId, generation, changed, committedOffset, committedGen, acked>>
        /\ pc = "save" /\ ~changed /\ pc' # "acked"
    BY <1>10, Saved DEF followerVars
  <2>2. CurrentLabel.off = 0 \/ CurrentLabel \in acked
    BY <2>1 DEF Committed, Starting, CurrentLabel
  <2>3. NoBlindCommit'
    BY <1>10, <2>1, <2>2, Saved DEF Committed, NoBlindCommit
  <2>4. committedGen' = generation' /\ (committedOffset' = 0 \/ CurrentLabel' \in acked')
    BY <2>1 DEF Committed, Starting, CurrentLabel
  <2> QED BY <2>1, <2>3, <2>4 DEF Committed
<1>11. CASE Gone
  BY <1>11, QuietCommitted DEF Gone, Goto, Starting
<1>12. CASE Environment \/ UNCHANGED vars
  <2>1. UNCHANGED <<followerVars, retryVars, agentVars, disk, history>>
    BY <1>12 DEF Environment, vars
  <2>2. UNCHANGED <<changed, activeId, generation, held, pc, site, committedOffset,
                    committedGen, disk, acked>>
    BY <2>1 DEF followerVars, retryVars, agentVars, history
  <2> QED BY <2>2, QuietCommitted DEF Starting, Committed
<1> QED BY <1>1, <1>2, <1>3, <1>4, <1>5, <1>6, <1>7, <1>8, <1>9, <1>10, <1>11,
           <1>12, StepCases

\* Agent.cpp:84-108, 150-335, README:46.  Where the file is always there, the
\* store never holds an offset that the backend did not acknowledge for that file
\* and generation: not after a switch, a truncation, a restart, a failed load or
\* save, nor by an acknowledgement that comes when the file has changed.
THEOREM OnlyAcknowledged == ASSUME AlwaysThere PROVE Spec => []NoBlindCommit
<1>1. Init => Base /\ Committed
  BY InitBase, InitCommitted
<1>2. Base /\ Committed /\ [Next]_vars => (Base /\ Committed)'
  BY NextBase, NextCommitted
<1>3. Committed => NoBlindCommit
  BY DEF Committed
<1> QED BY <1>1, <1>2, <1>3, PTL DEF Spec
------------------------------------------------------------------------------
(***************************************************************************)
(* A file that was left is never followed again: the path moves only up    *)
(* some order of the files.  (Otherwise the agent, which counts the        *)
(* generations of a file from 0 each time it opens it, may give two of     *)
(* them the same number.)                                                  *)
(***************************************************************************)
CONSTANT Rank

NeverBack ==
  /\ Rank \in [Inodes -> Int]
  /\ \A m \in Moves : Rank[m[1]] < Rank[m[2]]

Before(i, j) == Rank[i] < Rank[j]
UpTo(i, j) == i = j \/ Before(i, j)

LEMMA BeforeFacts ==
  ASSUME NeverBack
  PROVE  /\ \A i \in Inodes : ~Before(i, i)
         /\ \A i, j, k \in Inodes :
              /\ UpTo(i, j) /\ UpTo(j, k) => UpTo(i, k)
              /\ UpTo(i, j) /\ Before(j, k) => Before(i, k)
              /\ Before(i, j) /\ UpTo(j, k) => Before(i, k)
<1>1. \A i \in Inodes : Rank[i] \in Int
  BY DEF NeverBack
<1> QED BY <1>1 DEF Before, UpTo

LEMMA PathGoesOn ==
  ASSUME AlwaysThere, NeverBack, path \in Inodes, FsNext PROVE UpTo(path, path')
<1>1. CASE Repoint
  BY <1>1 DEF Repoint, NeverBack, Before, UpTo
<1>2. CASE ~Repoint
  BY <1>2 DEF FsNext, AppendTo, Truncate, UpTo
<1> QED BY <1>1, <1>2

\* The path has not moved back since it was looked at, and has moved on where a
\* rotation is pending.
Ahead ==
  /\ Working \/ Switching \/ pc = "load" => UpTo(activeId, path)
  /\ Working /\ rotationPending => Before(activeId, path)
  /\ Switching => Before(activeId, path)
  /\ statId # None => UpTo(statId, path)
  /\ statId # None /\ Switching => Before(activeId, statId)

LEMMA InitAhead == ASSUME Init PROVE Ahead
BY DEF Init, FollowerInit, Ahead, Working, Switching

LEMMA QuietAhead ==
  ASSUME Ahead, UNCHANGED <<path, activeId, rotationPending, statId>>,
         Working, Working'
  PROVE  Ahead'
BY DEF Ahead, Working, Switching, UpTo, Before

LEMMA NextAhead ==
  ASSUME AlwaysThere, NeverBack, Base, Ahead, [Next]_vars PROVE Ahead'
<1> USE DEF Base
<1>1. path \in Inodes /\ activeId \in FileIds /\ statId \in FileIds
  BY DEF Shape, TInv, TypeOK, FollowerTypeOK
<1>2. CASE IdleStep
  BY <1>2, IdleSteps, QuietAhead DEF Idle
<1>3. CASE FlushStep
  <2>1. Flushed
    BY <1>3, FlushSteps
  <2> QED BY <2>1, QuietAhead DEF Flushed, Working
<1>4. CASE Boot
  <2>1. statId' = None /\ pc' = "open" /\ site' = "boot"
    BY <1>4 DEF Boot, StartReopen, Goto, Shape
  <2> QED BY <2>1 DEF Ahead, Working, Switching
<1>5. CASE Opening
  <2>1. site' = site /\ path' = path /\ pc = "open" /\ (Booting \/ Switching)
    BY <1>5, Opened
  <2>2. CASE Asked
    BY <2>1, <2>2 DEF Asked, Ahead, Booting, Switching, Working, UpTo, Before
  <2>3. CASE Reached
    <3>1. UpTo(activeId, path)'
      BY <2>1, <2>3 DEF Reached, Ahead, UpTo, Before
    <3> QED BY <2>1, <2>3, <3>1 DEF Reached, Ahead, Booting, Switching, Working
  <2> QED BY <1>5, <2>2, <2>3, Opened
<1>6. CASE Loading
  <2>1. /\ pc = "load" /\ pc' = "top" /\ UNCHANGED <<path, activeId, statId>>
        /\ rotationPending' = FALSE
    BY <1>6, Loaded
  <2> QED BY <2>1 DEF Ahead, Working, Switching, UpTo, Before
<1>7. CASE TickPoll
  <2>1. /\ pc = "top" /\ pc' \in {"polled", "open"} /\ site' = "due"
        /\ UNCHANGED <<path, activeId, statId>> /\ PollPath(committedOffset)
    BY <1>7, Polled
  <2>2. statId' = None
    BY <2>1 DEF Shape
  <2>3. rotationPending' = (rotationPending \/ path # activeId)
        /\ (opening' # "no" => rotationPending')
    BY <2>1 DEF PollPath
  <2>4. pc' = "open" => rotationPending'
    BY <1>7, <2>3 DEF TickPoll, Goto
  <2>5. UpTo(activeId, path) /\ (rotationPending => Before(activeId, path))
    BY <2>1 DEF Ahead, Working
  <2>6. rotationPending' => Before(activeId, path)
    BY <2>3, <2>5 DEF UpTo
  <2> QED BY <2>1, <2>2, <2>4, <2>5, <2>6 DEF Ahead, Working, Switching, UpTo, Before
<1>8. CASE ResetForNewFile
  BY <1>8, WasReset, QuietAhead DEF Working
<1>9. CASE ReadChunk \/ PushRecord
  BY <1>9, QuietAhead DEF ReadChunk, ReadData, PushRecord, Goto, fsVars,
     followerVars, Working
<1>10. CASE Commit \/ Save
  <2>1. /\ pc \in {"acked", "save"}
        /\ pc' \in {"save", "sleep", "polled", "push", "exit"}
        /\ UNCHANGED <<fsVars, followerVars>>
    BY <1>10, ResumeType DEF Commit, Save
  <2> QED BY <2>1, QuietAhead DEF Working, fsVars, followerVars
<1>11. CASE Gone
  BY <1>11 DEF Gone, Goto, Ahead, Working, Switching
<1>12. CASE Environment
  <2>1. UpTo(path, path') /\ path' \in Inodes
    BY <1>1, <1>12, PathGoesOn, PathStays DEF Environment
  <2>2. UNCHANGED <<activeId, rotationPending, statId, pc, site>>
    BY <1>12 DEF Environment, followerVars, agentVars
  <2>3. Working \/ Switching \/ pc = "load" => activeId \in Inodes
    BY <1>1 DEF Shape, Working, FileIds
  <2>4. statId # None => statId \in Inodes
    BY <1>1 DEF FileIds
  <2>5. statId' # None => UpTo(statId, path')
    BY <1>1, <2>1, <2>2, <2>4, BeforeFacts DEF Ahead
  <2>6. Working \/ Switching \/ pc = "load" => UpTo(activeId, path')
    BY <1>1, <2>1, <2>3, BeforeFacts DEF Ahead
  <2>7. Switching \/ (Working /\ rotationPending) => Before(activeId, path')
    BY <1>1, <2>1, <2>3, BeforeFacts DEF Ahead
  <2> QED BY <2>2, <2>5, <2>6, <2>7 DEF Ahead, Working, Switching, UpTo, Before
<1>13. CASE UNCHANGED vars
  BY <1>13 DEF vars, fsVars, followerVars, agentVars, Ahead, Working, Switching,
               UpTo, Before
<1> QED BY <1>2, <1>3, <1>4, <1>5, <1>6, <1>7, <1>8, <1>9, <1>10, <1>11, <1>12,
           <1>13, StepCases
------------------------------------------------------------------------------
(***************************************************************************)
(* No label the agent still holds, on disk, in flight or for the batch     *)
(* under construction, is of a file or generation newer than the one it    *)
(* reads; and none is of the one it is about to reset for.                 *)
(***************************************************************************)
Stored == IF disk = None THEN {} ELSE {disk}
Held   == Stored \cup {LabelOf(b) : b \in InFlight}

NotNewer(l) ==
  /\ l.file \in Inodes
  /\ UpTo(l.file, activeId)
  /\ l.file = activeId => l.gen <= generation /\ (changed => l.gen < generation)

Ordered ==
  /\ ~Starting => \A l \in Held \cup {LabelOf(batch)} : NotNewer(l)
  /\ Starting /\ disk # None =>
       /\ disk.file \in Inodes /\ UpTo(disk.file, path)
       /\ statId # None => UpTo(disk.file, statId)
       /\ pc = "load" => UpTo(disk.file, activeId)

LEMMA InitOrdered == ASSUME Init PROVE Ordered
BY DEF Init, Starting, Ordered

LEMMA HeldTypes ==
  ASSUME TInv
  PROVE  Held \cup {LabelOf(batch)} \subseteq Label
<1>1. \A b \in Batch : LabelOf(b) \in Label
  BY DEF LabelOf, Label, Batch
<1>2. InHand \subseteq Batch
  BY DEF InHand, TInv, TypeOK, RetryTypeOK, PendingBatch
<1>3. Waiting \subseteq Batch
  <2>1. \A i \in DOMAIN q : q[i] \in PendingBatch
    BY ElementOfSeq, LenProperties DEF TInv, TypeOK, RetryTypeOK
  <2> QED BY <2>1 DEF Waiting, BatchesIn, PendingBatch
<1>4. Stored \subseteq Label
  BY DEF Stored, TInv, TypeOK, AgentTypeOK
<1>5. batch \in Batch
  BY DEF TInv, TypeOK, BatchTypeOK
<1> QED BY <1>1, <1>2, <1>3, <1>4, <1>5 DEF Held, InFlight

\* A step of an agent that has its file, and that adds no label but one of the
\* file and generation it reads or of the batch it has.
Known(l) == \/ \E k \in Held \cup {LabelOf(batch)} : l.file = k.file /\ l.gen = k.gen
            \/ l.file = activeId /\ l.gen = generation

LEMMA QuietOrdered ==
  ASSUME AlwaysThere, Base, Ordered, ~Starting, ~Starting',
         UNCHANGED <<activeId, generation>>,
         changed' => changed /\ \A l \in (Held \cup {LabelOf(batch)})' :
                       \E k \in Held \cup {LabelOf(batch)} :
                         l.file = k.file /\ l.gen = k.gen,
         \A l \in (Held \cup {LabelOf(batch)})' : Known(l)
  PROVE  Ordered'
<1>1. activeId \in Inodes /\ generation \in Nat
  BY DEF Base, TInv, TypeOK, FollowerTypeOK, Shape, Starting, Working, Booting,
         Switching, FileIds
<1>2. \A k \in Held \cup {LabelOf(batch)} : NotNewer(k)
  BY DEF Ordered
<1>3. ASSUME NEW l \in (Held \cup {LabelOf(batch)})' PROVE NotNewer(l)'
  <2>1. CASE \E k \in Held \cup {LabelOf(batch)} : l.file = k.file /\ l.gen = k.gen
    <3>1. PICK k \in Held \cup {LabelOf(batch)} : l.file = k.file /\ l.gen = k.gen
      BY <2>1
    <3>2. NotNewer(k)
      BY <1>2
    <3> QED BY <3>1, <3>2 DEF NotNewer, UpTo, Before
  <2>2. CASE ~changed' /\ l.file = activeId /\ l.gen = generation
    BY <1>1, <2>2 DEF NotNewer, UpTo
  <2> QED BY <2>1, <2>2 DEF Known
<1> QED BY <1>3 DEF Ordered

LEMMA FlightLabels ==
  ASSUME NEW x, InFlight' \subseteq InFlight \cup {x}, UNCHANGED disk
  PROVE  Held' \subseteq Held \cup {LabelOf(x)}
BY DEF Held, Stored, LabelOf

LEMMA FlightKept ==
  ASSUME InFlight' \subseteq InFlight, UNCHANGED disk
  PROVE  Held' \subseteq Held
BY DEF Held, Stored, LabelOf

LEMMA OpeningOrdered ==
  ASSUME AlwaysThere, NeverBack, Base, Ahead, Ordered, Opening PROVE Ordered'
<1> USE DEF Base
<1>1. /\ Booting \/ Switching
      /\ pc = "open" /\ site' = site /\ UNCHANGED <<path, batch, disk>>
      /\ InFlight' = InFlight
      /\ Asked \/ Reached
  BY Opened DEF batchVars
<1>2. path \in Inodes /\ activeId \in FileIds /\ statId \in FileIds
  BY DEF Shape, TInv, TypeOK, FollowerTypeOK
<1>3. Held' = Held
  BY <1>1 DEF Held, Stored, LabelOf
<1>4. CASE Booting
  <2>1. Starting /\ (pc' = "open" => Starting')
    BY <1>1, <1>4 DEF Booting, Starting
  <2>2. CASE Asked
    BY <1>1, <2>1, <2>2, <1>4 DEF Asked, Ordered, Booting, UpTo, Before
  <2>3. CASE Reached
    <3>1. pc' = "load" /\ statId' = None /\ activeId' = statId /\ statId # None
      BY <1>4, <2>3 DEF Reached
    <3>2. disk # None => /\ disk.file \in Inodes
                         /\ UpTo(disk.file, path) /\ UpTo(disk.file, statId)
      BY <2>1, <3>1 DEF Ordered
    <3> QED BY <1>1, <3>1, <3>2 DEF Ordered, Starting, UpTo, Before
  <2> QED BY <1>1, <2>2, <2>3
<1>5. CASE Switching
  <2>1. ~Starting /\ activeId \in Inodes
    BY <1>2, <1>5 DEF Switching, Starting, Shape, FileIds
  <2>2. CASE Asked
    <3>1. ~Starting' /\ UNCHANGED <<activeId, generation, changed>>
      BY <1>1, <1>5, <2>2 DEF Asked, Switching, Starting
    <3>2. (Held \cup {LabelOf(batch)})' = Held \cup {LabelOf(batch)}
      BY <1>1, <1>3
    <3> QED BY <2>1, <3>1, <3>2, QuietOrdered DEF Known
  <2>3. CASE Reached
    <3>1. /\ pc' = "polled" /\ changed' /\ activeId' = statId /\ statId # None
      BY <1>5, <2>3 DEF Reached, Booting, Switching
    <3>2. statId \in Inodes /\ Before(activeId, statId)
      BY <1>2, <1>5, <3>1 DEF Ahead, FileIds
    <3>3. ASSUME NEW l \in Held \cup {LabelOf(batch)} PROVE NotNewer(l)'
      <4>1. l.file \in Inodes /\ UpTo(l.file, activeId)
        BY <2>1 DEF Ordered, NotNewer
      <4>2. Before(l.file, statId)
        BY <2>1, <3>2, <4>1, BeforeFacts
      <4>3. l.file # statId
        BY <3>2, <4>2, BeforeFacts
      <4> QED BY <3>1, <4>1, <4>2, <4>3 DEF NotNewer, UpTo, Before
    <3> QED BY <1>1, <1>3, <3>1, <3>3 DEF Ordered, Starting
  <2> QED BY <1>1, <2>2, <2>3
<1> QED BY <1>1, <1>4, <1>5

LEMMA LoadingOrdered ==
  ASSUME NeverBack, "load" \notin StoreFaults, Base, Ahead, Ordered, Loading
  PROVE  Ordered'
<1> USE DEF Base
<1>1. /\ pc = "load" /\ pc' = "top" /\ ~changed'
      /\ UNCHANGED <<activeId, disk>> /\ InFlight' = {}
      /\ batch' = EmptyBatch(activeId', generation')
      /\ (Resumable /\ generation' = disk.gen) \/ ~Resumable
  BY Loaded
<1>2. activeId \in Inodes /\ activeId # None
  BY <1>1 DEF Shape, TInv, TypeOK, FollowerTypeOK, FileIds
<1>3. generation' \in Nat
  BY LoadResumesTInv, LoadStartsOverTInv, LoadWithoutFileTInv
     DEF Loading, TInv, TypeOK, FollowerTypeOK
<1>4. disk # None => disk.file \in Inodes /\ UpTo(disk.file, activeId)
  BY <1>1 DEF Ordered, Starting
<1>5. disk # None /\ disk.file = activeId => generation' = disk.gen
  <2>1. disk # None /\ disk.file = activeId => Resumable
    BY <1>1 DEF Resumable, Shape
  <2> QED BY <1>1, <2>1
<1>6. ASSUME NEW l \in (Held \cup {LabelOf(batch)})' PROVE NotNewer(l)'
  <2>1. CASE l \in Stored
    <3>1. l = disk /\ disk # None
      BY <2>1 DEF Stored
    <3> QED BY <1>1, <1>3, <1>4, <1>5, <3>1 DEF NotNewer, UpTo, Before
  <2>2. CASE l = LabelOf(batch')
    <3>1. l.file = activeId' /\ l.gen = generation'
      BY <1>1, <2>2 DEF LabelOf, EmptyBatch
    <3> QED BY <1>1, <1>2, <1>3, <3>1 DEF NotNewer, UpTo
  <2> QED BY <1>1, <2>1, <2>2 DEF Held, Stored
<1> QED BY <1>1, <1>6 DEF Ordered, Starting

LEMMA TickPollOrdered ==
  ASSUME AlwaysThere, NeverBack, Base, Ahead, Ordered, TickPoll PROVE Ordered'
<1> USE DEF Base
<1>1. /\ pc = "top" /\ pc' \in {"polled", "open"} /\ site' = "due" /\ ~changed
      /\ PollPath(committedOffset)
      /\ UNCHANGED <<activeId, batch, disk>> /\ InFlight' = InFlight
      /\ ~changed' => UNCHANGED generation
  BY Polled DEF batchVars
<1>2. ~Starting /\ ~Starting'
  BY <1>1 DEF Starting
<1>3. (Held \cup {LabelOf(batch)})' = Held \cup {LabelOf(batch)}
  BY <1>1 DEF Held, Stored, LabelOf
<1>4. generation \in Nat
  BY DEF TInv, TypeOK, FollowerTypeOK
<1>5. changed' => generation' = generation + 1
  BY <1>1 DEF PollPath, CheckSize
<1>6. ASSUME NEW l \in Held \cup {LabelOf(batch)} PROVE NotNewer(l)'
  <2>1. NotNewer(l)
    BY <1>2 DEF Ordered
  <2>2. l.gen \in Nat
    BY HeldTypes DEF Label
  <2>3. l.file = activeId => l.gen <= generation' /\ (changed' => l.gen < generation')
    BY <1>1, <1>4, <1>5, <2>1, <2>2 DEF NotNewer
  <2> QED BY <1>1, <2>1, <2>3 DEF NotNewer, UpTo, Before
<1> QED BY <1>2, <1>3, <1>6 DEF Ordered

LEMMA GoneOrdered ==
  ASSUME AlwaysThere, NeverBack, Base, Ahead, Ordered, Gone PROVE Ordered'
<1> USE DEF Base
<1>1. pc' = "down" /\ statId' = None /\ UNCHANGED <<path, disk>>
  BY DEF Gone, Goto, fsVars
<1>2. path \in Inodes /\ activeId \in FileIds
  BY DEF Shape, TInv, TypeOK, FollowerTypeOK
<1>3. disk # None => disk.file \in Inodes /\ UpTo(disk.file, path)
  <2>1. CASE Starting
    BY <2>1 DEF Ordered
  <2>2. CASE ~Starting
    <3>1. activeId \in Inodes /\ UpTo(activeId, path)
      BY <1>2, <2>2 DEF Starting, Working, Switching, Shape, Ahead, FileIds
    <3>2. disk # None => disk.file \in Inodes /\ UpTo(disk.file, activeId)
      BY <2>2 DEF Ordered, Held, Stored, NotNewer
    <3> QED BY <1>2, <3>1, <3>2, BeforeFacts
  <2> QED BY <2>1, <2>2
<1> QED BY <1>1, <1>3 DEF Ordered, Starting, UpTo, Before

LEMMA EnvironmentOrdered ==
  ASSUME AlwaysThere, NeverBack, Base, Ahead, Ordered, Environment PROVE Ordered'
<1> USE DEF Base
<1>1. UNCHANGED <<activeId, generation, statId, changed, batch, pc, site, disk, q, held>>
  BY DEF Environment, followerVars, batchVars, retryVars, agentVars
<1>2. path \in Inodes /\ path' \in Inodes /\ UpTo(path, path')
  BY PathGoesOn, PathStays DEF Environment, Shape
<1>3. CASE Starting
  <2>1. disk # None => UpTo(disk.file, path')
    BY <1>2, <1>3, BeforeFacts DEF Ordered
  <2> QED BY <1>1, <1>3, <2>1 DEF Ordered, Starting, UpTo, Before
<1>4. CASE ~Starting
  <2>1. Held' = Held
    BY <1>1 DEF Held, Stored, InFlight, InHand, Waiting, LabelOf
  <2> QED BY <1>1, <1>4, <2>1 DEF Ordered, Starting, NotNewer, UpTo, Before
<1> QED BY <1>3, <1>4

LEMMA NextOrdered ==
  ASSUME AlwaysThere, NeverBack, "load" \notin StoreFaults,
         Base, Committed, Ahead, Ordered, [Next]_vars
  PROVE  Ordered'
<1> USE DEF Base
<1>1. CASE IdleStep
  <2>1. Idle /\ ~Starting /\ ~Starting'
    BY <1>1, IdleSteps DEF Idle, Working, Starting
  <2>2. Held' \subseteq Held /\ batch' = batch
    BY <2>1, FlightKept DEF Idle
  <2> QED BY <2>1, <2>2, QuietOrdered DEF Idle, Known
<1>2. CASE FlushStep
  <2>1. Flushed
    BY <1>2, FlushSteps
  <2>2. ~Starting /\ ~Starting'
    BY <2>1 DEF Flushed, Starting
  <2>3. Held' \subseteq Held \cup {LabelOf(batch)}
    BY <2>1, FlightLabels DEF Flushed
  <2>4. LabelOf(batch').file = LabelOf(batch).file /\ LabelOf(batch').gen = LabelOf(batch).gen
    BY <2>1 DEF Flushed, LabelOf, EmptyBatch
  <2> QED BY <2>1, <2>2, <2>3, <2>4, QuietOrdered DEF Flushed, Known
<1>3. CASE Boot
  <2>1. /\ Starting /\ statId' = None /\ pc' = "open" /\ UNCHANGED <<path, disk>>
        /\ Starting'
    BY <1>3 DEF Boot, StartReopen, Goto, Shape, Starting, fsVars
  <2> QED BY <2>1 DEF Ordered, UpTo, Before
<1>4. CASE Opening \/ Loading \/ TickPoll
  BY <1>4, OpeningOrdered, LoadingOrdered, TickPollOrdered
<1>5. CASE ResetForNewFile
  <2>1. /\ ~Starting /\ ~Starting' /\ ~changed'
        /\ UNCHANGED <<activeId, generation, disk>> /\ InFlight' = InFlight
        /\ batch' = EmptyBatch(activeId', generation')
    BY <1>5, WasReset DEF Starting
  <2>2. Held' \subseteq Held
    BY <2>1, FlightKept
  <2>3. LabelOf(batch').file = activeId /\ LabelOf(batch').gen = generation
    BY <2>1 DEF LabelOf, EmptyBatch
  <2> QED BY <2>1, <2>2, <2>3, QuietOrdered DEF Known
<1>6. CASE ReadChunk \/ PushRecord
  <2>1. /\ ~Starting /\ ~Starting'
        /\ UNCHANGED <<activeId, generation, changed, disk>> /\ InFlight' = InFlight
    BY <1>6 DEF ReadChunk, ReadData, PushRecord, Goto, Starting, followerVars,
                retryVars, InFlight, InHand, Waiting
  <2>2. Held' \subseteq Held
    BY <2>1, FlightKept
  <2>3. batch'.file = batch.file /\ batch'.gen = batch.gen
    BY <1>6, Pushed DEF ReadChunk, batchVars
  <2>4. LabelOf(batch').file = LabelOf(batch).file /\ LabelOf(batch').gen = LabelOf(batch).gen
    BY <2>3 DEF LabelOf
  <2> QED BY <2>1, <2>2, <2>4, QuietOrdered DEF Known
<1>7. CASE Commit
  <2>1. /\ ~Starting /\ ~Starting'
        /\ UNCHANGED <<activeId, generation, changed, batch, disk>>
        /\ InFlight' \subseteq InFlight
    BY <1>7, CommitMoves DEF Starting, followerVars, batchVars
  <2>2. Held' \subseteq Held
    BY <2>1, FlightKept
  <2> QED BY <2>1, <2>2, QuietOrdered DEF Known
<1>8. CASE Save
  <2>1. /\ ~Starting /\ ~Starting' /\ ~changed'
        /\ UNCHANGED <<activeId, generation, changed, batch>>
        /\ InFlight' = InFlight
        /\ disk' = CurrentLabel \/ disk' = disk
    BY <1>8, Saved DEF Starting, followerVars, batchVars
  <2>2. Held' \subseteq Held \cup {CurrentLabel}
    BY <2>1 DEF Held, Stored, LabelOf
  <2>3. CurrentLabel.file = activeId /\ CurrentLabel.gen = generation
    BY DEF CurrentLabel
  <2> QED BY <2>1, <2>2, <2>3, QuietOrdered DEF Known
<1>9. CASE Gone \/ Environment
  BY <1>9, GoneOrdered, EnvironmentOrdered
<1>10. CASE UNCHANGED vars
  <2>1. UNCHANGED <<path, activeId, generation, statId, changed, batch, pc, site, disk, q, held>>
    BY <1>10 DEF vars, fsVars, followerVars, batchVars, retryVars, agentVars
  <2>2. Held' = Held
    BY <2>1 DEF Held, Stored, InFlight, InHand, Waiting, LabelOf
  <2> QED BY <2>1, <2>2 DEF Ordered, Starting, NotNewer, UpTo, Before
<1> QED BY <1>1, <1>2, <1>3, <1>4, <1>5, <1>6, <1>7, <1>8, <1>9, <1>10, StepCases
------------------------------------------------------------------------------
(***************************************************************************)
(* The checkpoint file refines the ledger.                                 *)
(***************************************************************************)
OfThisLog(l) == l.file = activeId /\ l.gen = generation

\* The store is never ahead of the position it is going to be given, and the
\* label about to be saved is one the ledger allows.
Ready ==
  /\ ~Starting /\ ~changed =>
       \A l \in Stored : OfThisLog(l) => l.off <= committedOffset
  /\ pc = "save" => \/ CurrentLabel \in acked
                    \/ committedOffset = 0 /\ \A l \in Stored : ~OfThisLog(l)

LEMMA InitReady == ASSUME Init PROVE Ready
BY DEF Init, Starting, Ready

LEMMA QuietReady ==
  ASSUME Ready, UNCHANGED disk, pc' # "save",
         ~Starting' /\ ~changed' =>
           /\ ~Starting /\ ~changed
           /\ UNCHANGED <<activeId, generation, committedOffset>>
  PROVE  Ready'
BY DEF Ready, Stored, OfThisLog

LEMMA NextReady ==
  ASSUME AlwaysThere, NeverBack, "load" \notin StoreFaults,
         Base, Committed, Ahead, Ordered, Ready, [Next]_vars
  PROVE  Ready'
<1> USE DEF Base
<1>0. Stored \subseteq Label
  BY HeldTypes DEF Held
<1>1. CASE IdleStep
  <2>1. Idle /\ ~Starting
    BY <1>1, IdleSteps DEF Idle, Working, Starting
  <2> QED BY <2>1, QuietReady DEF Idle
<1>2. CASE FlushStep
  <2>1. Flushed
    BY <1>2, FlushSteps
  <2>2. ~Starting
    BY <2>1 DEF Flushed, Starting
  <2> QED BY <2>1, <2>2, QuietReady DEF Flushed
<1>3. CASE Boot
  BY <1>3, QuietReady DEF Boot, Goto, Starting
<1>4. CASE Opening
  <2>1. CASE Asked
    BY <1>4, <2>1, Opened, QuietReady DEF Asked, Booting, Switching, Starting
  <2>2. CASE Reached
    <3>1. (Starting' \/ changed') /\ pc' # "save"
      BY <1>4, <2>2, Opened DEF Reached, Booting, Switching, Starting
    <3> QED BY <1>4, <3>1, Opened, QuietReady
  <2> QED BY <1>4, <2>1, <2>2, Opened
<1>5. CASE Loading
  <2>1. /\ pc' = "top" /\ UNCHANGED <<activeId, disk>>
        /\ \/ Resumable /\ generation' = disk.gen /\ committedOffset' = disk.off
           \/ ~Resumable
    BY <1>5, Loaded
  <2>2. fd # None
    BY <1>5 DEF Loading, LoadResumes, LoadStartsOver, LoadWithoutFile, Shape
  <2>3. ~Resumable => \A l \in Stored : l.file # activeId
    BY <2>2 DEF Resumable, Stored
  <2>4. Resumable => Stored = {disk} /\ disk.off \in Nat
    BY <1>0 DEF Resumable, Stored, Label
  <2> QED BY <2>1, <2>3, <2>4 DEF Ready, Stored, OfThisLog
<1>6. CASE TickPoll
  BY <1>6, Polled, QuietReady DEF Starting
<1>7. CASE ResetForNewFile
  <2>1. /\ pc = "polled" /\ pc' = "save" /\ site' = "reset" /\ changed
        /\ UNCHANGED <<activeId, generation, disk>> /\ committedOffset' = 0
    BY <1>7, WasReset
  <2>2. \A l \in Stored : l.file = activeId => l.gen < generation
    BY <2>1 DEF Ordered, Starting, Held, NotNewer
  <2>3. generation \in Nat /\ \A l \in Stored : l.gen \in Nat
    BY <1>0 DEF Label, TInv, TypeOK, FollowerTypeOK
  <2>4. \A l \in Stored : ~OfThisLog(l)
    BY <2>2, <2>3 DEF OfThisLog
  <2> QED BY <2>1, <2>4 DEF Ready, Stored, OfThisLog
<1>8. CASE ReadChunk \/ PushRecord
  <2>1. /\ pc \in {"polled", "push"} /\ pc' \in {"sleep", "push"}
        /\ UNCHANGED <<disk, activeId, generation, changed, committedOffset>>
    BY <1>8 DEF ReadChunk, ReadData, PushRecord, Goto, followerVars
  <2> QED BY <2>1, QuietReady DEF Starting
<1>9. CASE Commit
  <2>1. /\ pc = "acked" /\ ~changed
        /\ UNCHANGED <<activeId, generation, changed, disk>>
        /\ CurrentLabel' \in acked'
        /\ committedOffset' = Larger(committedOffset, held.batch.end)
        /\ committedOffset \in Nat /\ held.batch.end \in Nat
    BY <1>9, CommitMoves DEF followerVars
  <2>2. committedOffset <= committedOffset' /\ committedOffset' \in Nat
    BY <2>1 DEF Larger
  <2>3. \A l \in Stored : l.off \in Nat
    BY <1>0 DEF Label
  <2>4. \A l \in Stored : OfThisLog(l) => l.off <= committedOffset'
    BY <2>1, <2>2, <2>3 DEF Ready, Starting
  <2> QED BY <2>1, <2>4 DEF Ready, Stored, OfThisLog
<1>10. CASE Save
  <2>1. /\ pc = "save" /\ ~changed /\ pc' # "save"
        /\ UNCHANGED <<activeId, generation, changed, committedOffset>>
        /\ disk' = CurrentLabel \/ disk' = disk
    BY <1>10, Saved DEF followerVars
  <2>2. committedOffset <= committedOffset
    BY DEF TInv, TypeOK, AgentTypeOK
  <2> QED BY <2>1, <2>2 DEF Ready, Starting, Stored, OfThisLog, CurrentLabel
<1>11. CASE Gone
  BY <1>11, QuietReady DEF Gone, Goto, Starting
<1>12. CASE Environment
  BY <1>12, QuietReady DEF Environment, followerVars, agentVars, Starting
<1>13. CASE UNCHANGED vars
  BY <1>13 DEF vars, followerVars, agentVars, history, Ready, Starting, Stored, OfThisLog,
               CurrentLabel
<1> QED BY <1>1, <1>2, <1>3, <1>4, <1>5, <1>6, <1>7, <1>8, <1>9, <1>10, <1>11,
           <1>12, <1>13, StepCases

\* Every step of the agent is one of the ledger, or none.
LEMMA LedgerStep ==
  ASSUME Base, Committed, Ready, [Next]_vars
  PROVE  [Ledger!Next]_<<disk, acked>>
<1> USE DEF Base
<1>1. CASE Save
  <2>1. /\ pc = "save" /\ ~changed /\ UNCHANGED acked
        /\ disk' = CurrentLabel \/ disk' = disk
    BY <1>1, Saved
  <2>2. CASE disk' = disk
    BY <2>1, <2>2
  <2>3. CASE disk' = CurrentLabel /\ CurrentLabel \in acked
    <3>1. disk # None /\ Ledger!SameLog(disk, disk') => disk'.off >= disk.off
      <4>1. disk # None => disk \in Label
        BY DEF TInv, TypeOK, AgentTypeOK
      <4>2. committedOffset \in Nat
        BY DEF TInv, TypeOK, AgentTypeOK
      <4>3. disk # None /\ OfThisLog(disk) => disk.off <= committedOffset
        BY <2>1 DEF Ready, Starting, Stored
      <4> QED BY <2>3, <4>1, <4>2, <4>3
              DEF Ledger!SameLog, OfThisLog, CurrentLabel, Label
    <3> QED BY <2>1, <2>3, <3>1 DEF Ledger!Next, Ledger!Advance
  <2>4. CASE /\ disk' = CurrentLabel /\ committedOffset = 0
             /\ \A l \in Stored : ~OfThisLog(l)
    <3>1. disk' # None /\ disk'.off = 0
      <4>1. CurrentLabel \in Label
        BY DEF CurrentLabel, Label, TInv, TypeOK, AgentTypeOK, FollowerTypeOK
      <4>2. disk' \in Label /\ disk'.off = 0
        BY <2>4, <4>1 DEF CurrentLabel
      <4> QED BY <4>2, NoneNotLabel
    <3>2. disk # None => ~Ledger!SameLog(disk, disk')
      BY <2>4 DEF Stored, OfThisLog, CurrentLabel, Ledger!SameLog
    <3> QED BY <2>1, <3>1, <3>2 DEF Ledger!Next, Ledger!StartOver
  <2> QED BY <2>1, <2>2, <2>3, <2>4 DEF Ready
<1>2. CASE Send
  BY <1>2 DEF Send, Ledger!Next, Ledger!Ack
<1>3. CASE ~Save /\ ~Send
  <2>1. UNCHANGED <<disk, acked>>
    <3>1. CASE IdleStep
      BY <1>3, <3>1 DEF IdleStep, TickRetry, ReadNoChunk, KeepBatch, SkipCommit,
                        SendFailed, Sleep, StopIdle, history
    <3>2. CASE FlushStep
      BY <3>2 DEF FlushStep, TickFlush, FlushOld, FlushFull, FlushLimits,
                  StopFlushes, HandOver, history
    <3>3. CASE Boot \/ Opening \/ Loading \/ TickPoll
      BY <3>3 DEF Boot, Opening, Loading, LoadResumes, LoadStartsOver,
                  LoadWithoutFile, TickPoll, history
    <3>4. CASE ResetForNewFile \/ ReadChunk \/ PushRecord \/ Commit
      BY <3>4 DEF ResetForNewFile, ReadChunk, PushRecord, Commit, history
    <3>5. CASE Gone \/ Environment \/ UNCHANGED vars
      BY <3>5 DEF Gone, Environment, vars, history
    <3> QED BY <1>3, <3>1, <3>2, <3>3, <3>4, <3>5, StepCases
  <2> QED BY <2>1
<1> QED BY <1>1, <1>2, <1>3

\* README:39-52, CheckpointStore.hpp:18, Agent.cpp:84-108, 150-335.  Where the
\* file is always there, is never followed again once left, and its checkpoint
\* can be read, the checkpoint file behaves as the ledger: it moves only to what
\* the backend acknowledged, never back within a generation of a file, and starts
\* over only for another, whatever restarts, late acknowledgements or failed
\* saves come between.
THEOREM CheckpointIsLedger ==
  ASSUME AlwaysThere, NeverBack, "load" \notin StoreFaults
  PROVE  Spec => CommitsAsPromised
<1> DEFINE Inv == Base /\ Committed /\ Ahead /\ Ordered /\ Ready
<1>1. Init => Inv
  BY InitBase, InitCommitted, InitAhead, InitOrdered, InitReady
<1>2. Inv /\ [Next]_vars => Inv'
  BY NextBase, NextCommitted, NextAhead, NextOrdered, NextReady
<1>3. Init => Ledger!Init
  BY DEF Init, Ledger!Init
<1>4. Inv /\ [Next]_vars => [Ledger!Next]_<<disk, acked>>
  BY LedgerStep
<1> HIDE DEF Inv
<1> QED BY <1>1, <1>2, <1>3, <1>4, PTL DEF Spec, CommitsAsPromised, Ledger!Spec
------------------------------------------------------------------------------
(***************************************************************************)
(* The agent reads on from where it stands, and what it frames lies beyond *)
(* all that it has sent.  The frontier is the offset of the first byte not *)
(* framed yet.                                                             *)
(***************************************************************************)
Frontier == BufferBase(readOffset)
Ours(l)  == l.file = batch.file /\ l.gen = batch.gen
Pending  == Range(framed) \cup Range(batch.records)

Contiguous == buffer # <<>> => bufferStart + Len(buffer) = readOffset

Increasing(s) == \A j, k \in DOMAIN s : j < k => s[j].end < s[k].end

\* A chunk of n bytes is read, and what is then in the buffer cut at these places.
NewBuffer(n) == Buffered(Chunk(n))

LastCut(cuts) == IF cuts = <<>> THEN 0 ELSE cuts[Len(cuts)]

ReadAs(n, cuts) ==
  /\ ReadData(n)
  /\ cuts \in Cuts(NewBuffer(n))
  /\ framed' = Labelled(Lines(NewBuffer(n), Frontier, cuts))
  /\ IngestAndDrain(Chunk(n), readOffset, cuts)

LEMMA ChunkRead ==
  ASSUME ReadChunk PROVE \E n \in 1..MaxRead : \E cuts : ReadAs(n, cuts)
BY DEF ReadChunk, ReadAs, NewBuffer, Frontier

\* The new buffer goes on where the old one ended, and the cuts lie in it in
\* increasing order.
LEMMA ChunkBuffer ==
  ASSUME TInv, Contiguous, NEW n \in 1..MaxRead, NEW cuts, ReadAs(n, cuts)
  PROVE  /\ n \in Nat /\ fd # None /\ readOffset \in Nat /\ readOffset' = readOffset + n
         /\ Chunk(n) \in Seq(Byte) /\ Len(Chunk(n)) = n
         /\ buffer \in Seq(Byte) /\ Len(buffer) \in Nat
         /\ NewBuffer(n) \in Seq(Byte) /\ Len(NewBuffer(n)) \in Nat
         /\ Len(NewBuffer(n)) = Len(buffer) + n
         /\ Frontier \in Nat /\ Frontier + Len(buffer) = readOffset
         /\ cuts \in Seq(1..Len(NewBuffer(n)))
         /\ DOMAIN cuts = 1..Len(cuts) /\ Len(cuts) \in Nat
         /\ \A k \in DOMAIN cuts : cuts[k] \in 1..Len(NewBuffer(n))
         /\ \A j, k \in DOMAIN cuts : j < k => cuts[j] < cuts[k]
<1>1. n \in Nat /\ fd # None /\ readOffset \in Nat /\ readOffset' = readOffset + n
  BY FollowerAssumption DEF ReadAs, ReadData, TInv, TypeOK, FollowerTypeOK
<1>2. Chunk(n) \in Seq(Byte) /\ Len(Chunk(n)) = n
  BY <1>1, ChunkType DEF TInv, TypeOK, Chunk, BytesOf
<1>3. buffer \in Seq(Byte) /\ Len(buffer) \in Nat /\ bufferStart \in Nat
  BY LenProperties DEF TInv, TypeOK, FramerTypeOK
<1>4. NewBuffer(n) \in Seq(Byte) /\ Len(NewBuffer(n)) = Len(buffer) + n
  BY <1>2, <1>3, ConcatProperties DEF Buffered, NewBuffer
<1>5. Frontier \in Nat /\ Frontier + Len(buffer) = readOffset
  <2>1. CASE buffer = <<>>
    <3>1. Frontier = readOffset /\ Len(buffer) = 0
      BY <2>1 DEF Frontier, BufferBase
    <3> QED BY <1>1, <3>1
  <2>2. CASE buffer # <<>>
    <3>1. Frontier = bufferStart /\ bufferStart + Len(buffer) = readOffset
      BY <2>2 DEF Frontier, BufferBase, Contiguous
    <3> QED BY <1>3, <3>1
  <2> QED BY <2>1, <2>2
<1>6. cuts \in Seq(1..Len(NewBuffer(n)))
  BY <1>4, CutsType DEF ReadAs
<1>7. \A j, k \in DOMAIN cuts : j < k => cuts[j] < cuts[k]
  BY DEF ReadAs, Cuts
<1>8. DOMAIN cuts = 1..Len(cuts) /\ Len(cuts) \in Nat
  BY <1>6, LenProperties
<1>9. \A k \in DOMAIN cuts : cuts[k] \in 1..Len(NewBuffer(n))
  BY <1>6, <1>8, ElementOfSeq
<1>10. Len(NewBuffer(n)) \in Nat
  BY <1>1, <1>3, <1>4
<1> QED BY <1>1, <1>2, <1>3, <1>4, <1>5, <1>6, <1>7, <1>8, <1>9, <1>10

\* What is left in the buffer starts at the last cut, the next frontier.
LEMMA ChunkDrained ==
  ASSUME TInv, Contiguous, NEW n \in 1..MaxRead, NEW cuts, ReadAs(n, cuts)
  PROVE  /\ LastCut(cuts) \in 0..Len(NewBuffer(n))
         /\ \A k \in DOMAIN cuts : cuts[k] <= LastCut(cuts)
         /\ buffer' = SubSeq(NewBuffer(n), LastCut(cuts) + 1, Len(NewBuffer(n)))
         /\ bufferStart' = Frontier + LastCut(cuts)
         /\ Contiguous' /\ Frontier' = Frontier + LastCut(cuts)
<1> DEFINE buf == NewBuffer(n)
           pos == LastCut(cuts)
<1>1. Len(buf) \in Nat /\ Frontier \in Nat
  BY ChunkBuffer
<1>2. pos \in 0..Len(buf) /\ \A k \in DOMAIN cuts : cuts[k] <= pos
  <2>1. CASE cuts = <<>>
    <3>1. DOMAIN cuts = {} /\ pos = 0
      BY <2>1 DEF LastCut
    <3> HIDE DEF pos, buf
    <3> QED BY <1>1, <3>1
  <2>2. CASE cuts # <<>>
    <3>1. Len(cuts) \in DOMAIN cuts /\ pos = cuts[Len(cuts)]
      BY <2>2, ChunkBuffer, EmptySeq DEF LastCut
    <3>2. ASSUME NEW k \in DOMAIN cuts PROVE cuts[k] <= pos
      <4>1. k = Len(cuts) \/ k < Len(cuts)
        BY ChunkBuffer
      <4>2. cuts[k] \in Int /\ pos \in Int
        BY <3>1, ChunkBuffer
      <4>3. k < Len(cuts) => cuts[k] < cuts[Len(cuts)]
        BY <3>1, ChunkBuffer
      <4> QED BY <3>1, <4>1, <4>2, <4>3
    <3>3. pos \in 1..Len(buf)
      BY <3>1, ChunkBuffer
    <3> HIDE DEF pos, buf
    <3> QED BY <1>1, <3>2, <3>3
  <2> QED BY <2>1, <2>2
<1>3. buffer' = SubSeq(buf, pos + 1, Len(buf)) /\ bufferStart' = Frontier + pos
  BY DEF ReadAs, IngestAndDrain, NewBuffer, LastCut, Frontier
<1>4. buf \in Seq(Byte) /\ Frontier + Len(buf) = readOffset'
  <2>1. Frontier \in Int /\ Len(buffer) \in Int /\ n \in Int
    BY ChunkBuffer
  <2>2. Frontier + (Len(buffer) + n) = (Frontier + Len(buffer)) + n
    BY <2>1
  <2> QED BY <2>2, ChunkBuffer
<1> HIDE DEF buf, pos
<1>5. Len(buffer') = Len(buf) - pos
  BY <1>1, <1>2, <1>3, <1>4, SubSeqProperties
<1>6. bufferStart' + Len(buffer') = readOffset'
  <2>1. (Frontier + pos) + (Len(buf) - pos) = Frontier + Len(buf)
    BY <1>1, <1>2
  <2> QED BY <1>3, <1>4, <1>5, <2>1
<1>7. Frontier' = Frontier + pos
  <2>1. CASE buffer' = <<>>
    <3>1. Len(buffer') = 0
      BY <2>1
    <3>2. bufferStart' = Frontier + pos /\ Frontier + pos \in Int
      BY <1>1, <1>2, <1>3
    <3>3. readOffset' = Frontier + pos
      BY <1>6, <3>1, <3>2
    <3> QED BY <2>1, <3>3 DEF Frontier, BufferBase
  <2>2. CASE buffer' # <<>>
    BY <1>3, <2>2 DEF Frontier, BufferBase
  <2> QED BY <2>1, <2>2
<1> QED BY <1>2, <1>3, <1>6, <1>7 DEF Contiguous, buf, pos

\* The ends of the lines of a chunk rise from the frontier to the next one.
LEMMA ChunkAdvances ==
  ASSUME TInv, Contiguous, ReadChunk
  PROVE  /\ Contiguous'
         /\ Frontier \in Nat /\ Frontier' \in Nat /\ Frontier <= Frontier'
         /\ Increasing(framed')
         /\ \A r \in Range(framed') : Frontier < r.end /\ r.end <= Frontier'
<1>1. PICK n \in 1..MaxRead : \E cuts : ReadAs(n, cuts)
  BY ChunkRead
<1>2. PICK cuts : ReadAs(n, cuts)
  BY <1>1
<1>3. /\ Frontier \in Nat /\ Frontier' = Frontier + LastCut(cuts) /\ Contiguous'
      /\ LastCut(cuts) \in Nat
      /\ \A k \in DOMAIN cuts : /\ cuts[k] \in Int /\ 1 <= cuts[k]
                                /\ cuts[k] <= LastCut(cuts)
      /\ \A j, k \in DOMAIN cuts : j < k => cuts[j] < cuts[k]
  BY <1>2, ChunkBuffer, ChunkDrained
<1>4. /\ DOMAIN framed' = DOMAIN cuts
      /\ \A k \in DOMAIN cuts : framed'[k].end = Frontier + cuts[k]
  BY <1>2 DEF ReadAs, Labelled, Lines
<1>5. Increasing(framed')
  <2> SUFFICES ASSUME NEW j \in DOMAIN cuts, NEW k \in DOMAIN cuts, j < k
               PROVE  Frontier + cuts[j] < Frontier + cuts[k]
    BY <1>4 DEF Increasing
  <2> QED BY <1>3
<1>6. \A r \in Range(framed') : Frontier < r.end /\ r.end <= Frontier'
  <2> SUFFICES ASSUME NEW k \in DOMAIN cuts
               PROVE  /\ Frontier < Frontier + cuts[k]
                      /\ Frontier + cuts[k] <= Frontier + LastCut(cuts)
    BY <1>3, <1>4 DEF Range
  <2> QED BY <1>3
<1>7. Frontier' \in Nat /\ Frontier <= Frontier'
  BY <1>3
<1> QED BY <1>3, <1>5, <1>6, <1>7

\* What the agent has committed, or has in flight or stored of the file it
\* reads, ends before all that is pending, and no later than the frontier.
Onward ==
  /\ ~Starting /\ ~changed =>
       /\ Contiguous
       /\ committedOffset <= Frontier /\ batch.end <= Frontier
       /\ \A l \in Held : Ours(l) => l.off <= Frontier
       /\ \A r \in Range(framed) : r.end <= Frontier
       /\ \A r \in Pending : committedOffset < r.end
  /\ \A l \in Held : Ours(l) => \A r \in Pending : l.off < r.end
  /\ \A r \in Range(framed) : batch.end < r.end
  /\ Increasing(framed)

LEMMA PendingTypes ==
  ASSUME TInv
  PROVE  /\ Pending \subseteq Record /\ \A r \in Pending : r.end \in Nat
         /\ committedOffset \in Nat /\ batch.end \in Nat /\ Frontier \in Nat
         /\ \A l \in Held : l.off \in Nat
<1>1. framed \in Seq(Record) /\ batch.records \in Seq(Record) /\ batch.end \in Nat
  BY DEF TInv, TypeOK, AgentTypeOK, BatchTypeOK, Batch
<1>2. Pending \subseteq Record
  BY <1>1, RangeType DEF Pending
<1>3. committedOffset \in Nat /\ Frontier \in Nat
  BY DEF TInv, TypeOK, AgentTypeOK, FollowerTypeOK, FramerTypeOK, Frontier, BufferBase
<1>4. \A l \in Held : l.off \in Nat
  BY HeldTypes DEF Label
<1> QED BY <1>1, <1>2, <1>3, <1>4 DEF Record

\* Nothing is pending.
LEMMA EmptyOnward ==
  ASSUME framed' = <<>>, batch'.records = <<>>,
         ~Starting' /\ ~changed' =>
           /\ Contiguous' /\ committedOffset' <= Frontier' /\ batch'.end <= Frontier'
           /\ \A l \in Held' : Ours(l)' => l.off <= Frontier'
  PROVE  Onward'
<1>1. Range(framed') = {} /\ Pending' = {} /\ DOMAIN framed' = {}
  BY NoElements DEF Pending
<1> QED BY <1>1 DEF Onward, Increasing

LEMMA InitOnward == ASSUME Init PROVE Onward
<1>1. framed = <<>> /\ batch.records = <<>> /\ Starting
  BY DEF Init, BatchInit, EmptyBatch, Starting
<1>2. Range(framed) = {} /\ Pending = {} /\ DOMAIN framed = {}
  BY <1>1, NoElements DEF Pending
<1> QED BY <1>1, <1>2 DEF Onward, Increasing

\* A step that reads nothing, moves no offset, and adds to the labels none but
\* that of the position.
LEMMA QuietOnward ==
  ASSUME TInv, Onward, UNCHANGED <<framed, batch>>,
         Held' \subseteq Held \cup {CurrentLabel},
         ~Starting' /\ ~changed' => /\ ~Starting /\ ~changed
                                    /\ UNCHANGED <<framerVars, readOffset, committedOffset>>,
         ~(Held' \subseteq Held) => ~Starting /\ ~changed
  PROVE  Onward'
<1>1. Pending' = Pending /\ \A l : Ours(l)' <=> Ours(l)
  BY DEF Pending, Ours
<1>2. \A l \in Held' : Ours(l) => \A r \in Pending : l.off < r.end
  BY DEF Onward, CurrentLabel
<1>3. CASE ~Starting' /\ ~changed'
  <2>1. ~Starting /\ ~changed /\ Frontier' = Frontier /\ (Contiguous' <=> Contiguous)
    BY <1>3 DEF framerVars, Frontier, BufferBase, Contiguous
  <2>2. \A l \in Held' : Ours(l) => l.off <= Frontier
    BY <2>1 DEF Onward, CurrentLabel
  <2> QED BY <1>1, <1>2, <1>3, <2>1, <2>2 DEF Onward
<1>4. CASE ~(~Starting' /\ ~changed')
  BY <1>1, <1>2, <1>4 DEF Onward
<1> QED BY <1>3, <1>4

LEMMA FlushOnward ==
  ASSUME TInv, Onward, Flushed PROVE Onward'
<1>1. /\ UNCHANGED <<framed, framerVars, readOffset, committedOffset, changed, disk>>
      /\ batch' = EmptyBatch(batch.file, batch.gen)
      /\ InFlight' \subseteq InFlight \cup {batch} /\ ~Starting
  BY DEF Flushed, Starting
<1>2. batch'.records = <<>> /\ batch'.end = 0 /\ \A l : Ours(l)' <=> Ours(l)
  BY <1>1 DEF EmptyBatch, Ours
<1>3. Pending' = Range(framed) /\ Range(framed) \subseteq Pending
  BY <1>1, <1>2, NoElements DEF Pending
<1>4. Held' \subseteq Held \cup {LabelOf(batch)} /\ LabelOf(batch).off = batch.end
  BY <1>1, FlightLabels DEF LabelOf
<1>5. \A l \in Held' : Ours(l) => \A r \in Range(framed) : l.off < r.end
  BY <1>3, <1>4 DEF Onward
<1>6. \A r \in Range(framed) : 0 < r.end
  BY <1>3, PendingTypes DEF Onward
<1>7. CASE ~changed'
  <2>1. Frontier' = Frontier /\ (Contiguous' <=> Contiguous)
    BY <1>1 DEF framerVars, Frontier, BufferBase, Contiguous
  <2>2. \A l \in Held' : Ours(l) => l.off <= Frontier
    BY <1>1, <1>4, <1>7 DEF Onward
  <2>3. 0 <= Frontier
    BY PendingTypes
  <2> QED BY <1>1, <1>2, <1>3, <1>5, <1>6, <1>7, <2>1, <2>2, <2>3 DEF Onward
<1>8. CASE changed'
  BY <1>1, <1>2, <1>3, <1>5, <1>6, <1>8 DEF Onward
<1> QED BY <1>7, <1>8

LEMMA ReadChunkOnward ==
  ASSUME TInv, IInv, Onward, ReadChunk PROVE Onward'
<1>1. /\ pc = "polled" /\ ~changed
      /\ UNCHANGED <<batch, committedOffset, disk, q, held>>
  BY DEF ReadChunk, batchVars, retryVars
<1>2. framed = <<>> /\ ~Starting
  BY <1>1 DEF IInv, AInv, Pushing, Starting
<1>3. /\ Contiguous /\ committedOffset <= Frontier /\ batch.end <= Frontier
      /\ \A l \in Held : Ours(l) => l.off <= Frontier
  BY <1>1, <1>2 DEF Onward
<1>4. /\ Contiguous' /\ Frontier \in Nat /\ Frontier' \in Nat /\ Frontier <= Frontier'
      /\ Increasing(framed')
      /\ \A r \in Range(framed') : Frontier < r.end /\ r.end <= Frontier'
  BY <1>3, ChunkAdvances
<1>5. Held' = Held /\ \A l : Ours(l)' <=> Ours(l)
  BY <1>1 DEF Held, Stored, InFlight, InHand, Waiting, LabelOf, Ours
<1>6. Pending' = Range(framed') \cup Pending
  BY <1>1, <1>2, NoElements DEF Pending
<1>7. \A r \in Range(framed') : r.end \in Nat
  <2>1. TInv'
    BY ReadChunkTInv
  <2>2. framed' \in Seq(Record)
    BY <2>1 DEF TInv, TypeOK, AgentTypeOK
  <2>3. \A r \in Range(framed') : r \in Record
    BY <2>2, RangeType
  <2> QED BY <2>3 DEF Record
<1>8. /\ committedOffset <= Frontier' /\ batch.end <= Frontier'
      /\ \A l \in Held : Ours(l) => l.off <= Frontier'
  BY <1>3, <1>4, PendingTypes
<1>9. \A r \in Range(framed') : /\ committedOffset < r.end /\ batch.end < r.end
                                /\ \A l \in Held : Ours(l) => l.off < r.end
  BY <1>3, <1>4, <1>7, PendingTypes
<1>10. \A r \in Pending : /\ committedOffset < r.end
                          /\ \A l \in Held : Ours(l) => l.off < r.end
  BY <1>1, <1>2 DEF Onward
<1> QED BY <1>1, <1>4, <1>5, <1>6, <1>8, <1>9, <1>10 DEF Onward

LEMMA PushRecordOnward ==
  ASSUME TInv, Onward, PushRecord PROVE Onward'
<1>1. UNCHANGED <<readOffset, framerVars, changed, committedOffset, disk>>
  BY DEF PushRecord, followerVars
<1>2. Held' = Held /\ \A l : Ours(l)' <=> Ours(l)
  BY <1>1, Pushed DEF Held, Stored, LabelOf, Ours
<1>3. Pending' \subseteq Pending
  BY Pushed DEF Pending
<1>4. Frontier' = Frontier /\ (Contiguous' <=> Contiguous) /\ (Starting' <=> Starting)
  BY <1>1, Pushed DEF framerVars, Frontier, BufferBase, Contiguous, Starting
<1>5. Len(framed) \in Nat \ {0} /\ DOMAIN framed = 1..Len(framed) /\ Head(framed) = framed[1]
  BY Pushed, LenProperties, EmptySeq
<1>6. /\ DOMAIN framed' = 1..Len(framed) - 1
      /\ \A i \in 1..Len(framed) - 1 : framed'[i] = framed[i + 1]
  BY Pushed, HeadTailProperties, LenProperties
<1>7. \A i \in 1..Len(framed) - 1 : i + 1 \in DOMAIN framed
  BY <1>5
<1>8. Increasing(framed')
  <2> SUFFICES ASSUME NEW j \in 1..Len(framed) - 1, NEW k \in 1..Len(framed) - 1, j < k
               PROVE  framed[j + 1].end < framed[k + 1].end
    BY <1>6 DEF Increasing
  <2> QED BY <1>7 DEF Onward, Increasing
<1>9. \A r \in Range(framed') : Head(framed).end < r.end
  <2> SUFFICES ASSUME NEW i \in 1..Len(framed) - 1
               PROVE  framed[1].end < framed[i + 1].end
    BY <1>5, <1>6 DEF Range
  <2>1. 1 < i + 1 /\ 1 \in DOMAIN framed
    BY <1>5
  <2> QED BY <1>7, <2>1 DEF Onward, Increasing
<1>10. \A r \in Range(framed') : batch'.end < r.end
  BY <1>9, Pushed DEF Onward, Larger
<1>11. ~Starting /\ ~changed => batch'.end <= Frontier
  BY Pushed DEF Onward, Larger
<1> QED BY <1>1, <1>2, <1>3, <1>4, <1>8, <1>10, <1>11, Pushed DEF Onward

LEMMA NextOnward ==
  ASSUME AlwaysThere, NeverBack, "load" \notin StoreFaults,
         Base, Committed, Ahead, Ordered, Ready, Onward, [Next]_vars
  PROVE  Onward'
<1> USE DEF Base
<1>1. CASE IdleStep
  <2>1. Idle /\ ~Starting
    BY <1>1, IdleSteps DEF Idle, Working, Starting
  <2>2. Held' \subseteq Held
    BY <2>1, FlightKept DEF Idle
  <2> QED BY <2>1, <2>2, QuietOnward DEF Idle
<1>2. CASE FlushStep
  BY <1>2, FlushSteps, FlushOnward
<1>3. CASE Boot \/ Gone
  <2>1. Starting' /\ framed' = <<>> /\ batch'.records = <<>>
    BY <1>3 DEF Boot, Gone, Goto, Starting, Fresh, ResetBatch, EmptyBatch, batchVars
  <2> QED BY <2>1, EmptyOnward
<1>4. CASE Opening
  <2>1. /\ UNCHANGED <<framed, batch, framerVars, committedOffset, disk>>
        /\ InFlight' = InFlight
    BY <1>4, Opened DEF batchVars
  <2>2. Held' \subseteq Held
    BY <2>1, FlightKept
  <2>3. ~Starting' /\ ~changed' =>
           ~Starting /\ ~changed /\ UNCHANGED readOffset
    BY <1>4, Opened DEF Asked, Reached, Booting, Switching, Starting
  <2> QED BY <2>1, <2>2, <2>3, QuietOnward
<1>5. CASE Loading
  <2>1. /\ pc = "load" /\ ~changed' /\ UNCHANGED <<activeId, disk>>
        /\ framed' = <<>> /\ buffer' = <<>> /\ InFlight' = {}
        /\ batch' = EmptyBatch(activeId', generation')
        /\ readOffset' = committedOffset'
        /\ \/ Resumable /\ generation' = disk.gen /\ committedOffset' = disk.off
           \/ ~Resumable
    BY <1>5, Loaded
  <2>2. Frontier' = readOffset' /\ Contiguous'
    BY <2>1 DEF Frontier, BufferBase, Contiguous
  <2>3. readOffset' \in Nat
    BY <1>5, NextTInv DEF Next, TInv, TypeOK, FollowerTypeOK
  <2>4. Held' = Stored
    BY <2>1 DEF Held, Stored
  <2>5. ASSUME NEW l \in Stored, Ours(l)' PROVE l.off <= readOffset'
    <3>1. l = disk /\ disk # None
      BY DEF Stored
    <3>2. disk.file = activeId
      BY <2>1, <2>5, <3>1 DEF Ours, EmptyBatch
    <3>3. Resumable
      BY <2>1, <3>1, <3>2 DEF Shape, Resumable
    <3> QED BY <2>1, <2>3, <3>1, <3>3
  <2>6. batch'.records = <<>> /\ batch'.end = 0
    BY <2>1 DEF EmptyBatch
  <2> QED BY <2>1, <2>2, <2>3, <2>4, <2>5, <2>6, EmptyOnward
<1>6. CASE TickPoll
  <2>1. /\ pc = "top" /\ ~changed
        /\ UNCHANGED <<framed, batch, framerVars, committedOffset, disk>>
        /\ InFlight' = InFlight /\ (~changed' => UNCHANGED readOffset)
    BY <1>6, Polled DEF batchVars
  <2>2. Held' \subseteq Held
    BY <2>1, FlightKept
  <2> QED BY <2>1, <2>2, QuietOnward DEF Starting
<1>7. CASE ResetForNewFile
  <2>1. /\ pc = "polled" /\ changed
        /\ UNCHANGED <<activeId, generation, readOffset, disk>>
        /\ framed' = <<>> /\ buffer' = <<>> /\ InFlight' = InFlight
        /\ batch' = EmptyBatch(activeId', generation')
        /\ committedOffset' = 0
    BY <1>7, WasReset
  <2>2. Frontier' = readOffset /\ Contiguous' /\ readOffset \in Nat
    BY <2>1 DEF Frontier, BufferBase, Contiguous, TInv, TypeOK, FollowerTypeOK
  <2>3. batch'.records = <<>> /\ batch'.end = 0
    BY <2>1 DEF EmptyBatch
  <2>4. Held' \subseteq Held
    BY <2>1, FlightKept
  <2>5. ASSUME NEW l \in Held PROVE ~Ours(l)'
    <3>1. l.file = activeId => l.gen < generation
      BY <2>1 DEF Ordered, Starting, NotNewer
    <3>2. l.gen \in Nat /\ generation \in Nat
      BY HeldTypes DEF Label, TInv, TypeOK, FollowerTypeOK
    <3> QED BY <2>1, <3>1, <3>2 DEF Ours, EmptyBatch
  <2> QED BY <2>1, <2>2, <2>3, <2>4, <2>5, EmptyOnward
<1>8. CASE ReadChunk \/ PushRecord
  BY <1>8, ReadChunkOnward, PushRecordOnward
<1>9. CASE Commit
  <2>1. /\ pc = "acked" /\ pc' = "save" /\ ~changed
        /\ UNCHANGED <<framed, batch, framerVars, readOffset, changed, disk>>
        /\ held.batch \in InFlight
        /\ held.batch.file = activeId /\ held.batch.gen = generation
        /\ InFlight' \subseteq InFlight
        /\ committedOffset' = Larger(committedOffset, held.batch.end)
    BY <1>9, CommitMoves DEF followerVars, batchVars
  <2>2. Held' \subseteq Held
    BY <2>1, FlightKept
  <2>3. LabelOf(held.batch) \in Held /\ LabelOf(held.batch).off = held.batch.end
    BY <2>1 DEF Held, LabelOf
  <2>4. Ours(LabelOf(held.batch))
    BY <2>1 DEF Uniform, Starting, Ours, LabelOf
  <2>5. held.batch.end <= Frontier /\ \A r \in Pending : held.batch.end < r.end
    BY <2>1, <2>3, <2>4 DEF Onward, Starting
  <2>6. /\ committedOffset' <= Frontier
        /\ \A r \in Pending : committedOffset' < r.end
    BY <2>1, <2>5 DEF Onward, Starting, Larger
  <2>7. /\ Frontier' = Frontier /\ (Contiguous' <=> Contiguous) /\ Pending' = Pending
        /\ \A l : Ours(l)' <=> Ours(l)
    BY <2>1 DEF framerVars, Frontier, BufferBase, Contiguous, Pending, Ours
  <2> QED BY <2>1, <2>2, <2>6, <2>7 DEF Onward, Starting
<1>10. CASE Save
  <2>1. /\ pc = "save" /\ ~changed
        /\ UNCHANGED <<framed, batch, framerVars, readOffset, committedOffset>>
        /\ InFlight' = InFlight
        /\ disk' = CurrentLabel \/ disk' = disk
    BY <1>10, Saved DEF followerVars, batchVars
  <2>2. Held' \subseteq Held \cup {CurrentLabel}
    BY <2>1 DEF Held, Stored, LabelOf
  <2> QED BY <2>1, <2>2, QuietOnward DEF Starting
<1>11. CASE Environment \/ UNCHANGED vars
  <2>1. UNCHANGED <<pc, site, framed, batch, framerVars, readOffset, changed,
                    committedOffset, disk, q, held>>
    BY <1>11 DEF Environment, vars, followerVars, batchVars, retryVars, agentVars
  <2>2. Held' = Held
    BY <2>1 DEF Held, Stored, InFlight, InHand, Waiting, LabelOf
  <2> QED BY <2>1, <2>2, QuietOnward DEF Starting
<1> QED BY <1>1, <1>2, <1>3, <1>4, <1>5, <1>6, <1>7, <1>8, <1>9, <1>10, <1>11,
           StepCases

LEMMA OnwardNotReread == ASSUME Base, Onward PROVE NothingReread
<1> SUFFICES ASSUME NEW r \in Pending, Covered(r) PROVE FALSE
  BY DEF NothingReread, Pending
<1>1. r.file = batch.file /\ r.gen = batch.gen
  BY DEF Base, Uniform, Homogeneous, Pending
<1>2. disk \in Held /\ Ours(disk) /\ r.end <= disk.off
  BY <1>1 DEF Covered, Held, Stored, Ours
<1>3. disk.off < r.end
  BY <1>2 DEF Onward
<1> QED BY <1>2, <1>3, PendingTypes DEF Base

\* README:52, Agent.cpp:84-108, 150-335, LineFramer.cpp:7-45.  Under the same
\* conditions nothing the agent frames lies behind its stored checkpoint: a
\* restart, a truncation, a switch or an acknowledgement that comes late never
\* makes it read, or keep, a record that the store says is with the backend.
THEOREM OnwardOnly ==
  ASSUME AlwaysThere, NeverBack, "load" \notin StoreFaults
  PROVE  Spec => []NothingReread
<1> DEFINE Inv == Base /\ Committed /\ Ahead /\ Ordered /\ Ready /\ Onward
<1>1. Init => Inv
  BY InitBase, InitCommitted, InitAhead, InitOrdered, InitReady, InitOnward
<1>2. Inv /\ [Next]_vars => Inv'
  BY NextBase, NextCommitted, NextAhead, NextOrdered, NextReady, NextOnward
<1>3. Inv => NothingReread
  BY OnwardNotReread
<1> HIDE DEF Inv
<1> QED BY <1>1, <1>2, <1>3, PTL DEF Spec
------------------------------------------------------------------------------
(***************************************************************************)
(* Records, where no file is truncated and the path is never repointed     *)
(* between a stat() and its open(): then the descriptor is of the file it  *)
(* is taken for, and every byte read is of the one incarnation it has.     *)
(***************************************************************************)
Untouched == MaxEpoch = 0 /\ ~OpenRaces

TheByte(i, o) == [ino |-> i, epoch |-> 0, off |-> o]

\* The sequence is the bytes of file i from this offset on.
Spans(s, i, from) == \A k \in DOMAIN s : s[k] = TheByte(i, from + k - 1)

LEMMA OnlyEpoch ==
  ASSUME Untouched, FsTypeOK, NEW i \in Inodes PROVE epoch[i] = 0
<1>1. epoch[i] \in 0..0
  BY DEF Untouched, FsTypeOK
<1> QED BY <1>1

\* The buffer holds the bytes from its start to the read offset, of the file
\* that is recorded, which is the one that is open; and all records so far are
\* exact.
Tracked ==
  /\ pc = "open" /\ statId # None => statId = path
  /\ pc \notin {"down", "open"} => fd = activeId
  /\ changed => readOffset = 0
  /\ Working /\ ~changed => Contiguous /\ Spans(buffer, activeId, bufferStart)
  /\ RecordsExact

LEMMA InitTracked == ASSUME Init PROVE Tracked
BY DEF Init, FollowerInit, Working, Tracked, RecordsExact

\* Only reading frames records, and only the end of the process forgets them.
LEMMA TakenStays ==
  ASSUME [Next]_vars, ~ReadChunk, ~Gone PROVE taken' = taken
<1>1. CASE RunOnce
  BY <1>1 DEF RunOnce, TickRetry, TickFlush, TickPoll, Opening, FlushOld, HandOver,
     ResetForNewFile, ReadNoChunk, PushRecord, FlushFull, FlushLimits, KeepBatch,
     Send, Commit, SkipCommit, SendFailed, Save, Sleep, Exit, history
<1>2. CASE Loading \/ Boot \/ Stop \/ Crash \/ Environment \/ UNCHANGED vars
  BY <1>2 DEF Loading, LoadResumes, LoadStartsOver, LoadWithoutFile, Boot, Stop,
     StopFlushes, StopIdle, HandOver, Crash, Environment, vars, history
<1> QED BY <1>1, <1>2 DEF Next

\* A step of a working agent that leaves its position alone.
LEMMA QuietTracked ==
  ASSUME Tracked, Working, Working', taken' = taken,
         UNCHANGED <<path, fd, activeId, statId, readOffset, changed, framerVars>>
  PROVE  Tracked'
<1>1. /\ Contiguous' <=> Contiguous
      /\ RecordsExact' <=> RecordsExact
  BY DEF framerVars, Contiguous, RecordsExact, RecordExact
<1> QED BY <1>1 DEF Tracked, Working, framerVars, Spans

\* A step after which nothing is buffered.
LEMMA EmptyTracked ==
  ASSUME Tracked, taken' \subseteq taken,
         pc' = "open" /\ statId' # None => statId' = path',
         pc' \notin {"down", "open"} => fd' = activeId',
         changed' => readOffset' = 0,
         Working' /\ ~changed' => buffer' = <<>>
  PROVE  Tracked'
<1>1. RecordsExact'
  BY DEF Tracked, RecordsExact, RecordExact
<1>2. Working' /\ ~changed' => Contiguous' /\ DOMAIN buffer' = {}
  BY DEF Contiguous
<1> QED BY <1>1, <1>2 DEF Tracked, Spans

\* The bytes of the new buffer are those of the file from the frontier on.
LEMMA BufferBytes ==
  ASSUME Untouched, TInv, Contiguous, NEW n \in 1..MaxRead, NEW cuts, ReadAs(n, cuts),
         fd = activeId, Spans(buffer, activeId, bufferStart)
  PROVE  Spans(NewBuffer(n), activeId, Frontier)
<1>1. fd \in Inodes /\ epoch[fd] = 0
  <2>1. fd \in Inodes
    BY ChunkBuffer DEF TInv, TypeOK, FollowerTypeOK, FileIds
  <2> QED BY <2>1, OnlyEpoch DEF TInv, TypeOK
<1>2. \A k \in 1..n : Chunk(n)[k] = TheByte(activeId, readOffset + k - 1)
  BY <1>1 DEF Chunk, BytesOf, TheByte
<1>3. \A p \in 1..Len(NewBuffer(n)) :
         NewBuffer(n)[p] = IF p <= Len(buffer) THEN buffer[p]
                                               ELSE Chunk(n)[p - Len(buffer)]
  <2>1. /\ buffer \in Seq(Byte) /\ Chunk(n) \in Seq(Byte) /\ Len(Chunk(n)) = n
        /\ Len(NewBuffer(n)) = Len(buffer) + n
    BY ChunkBuffer
  <2> QED BY <2>1, ConcatProperties DEF NewBuffer, Buffered
<1>4. /\ Len(buffer) \in Nat /\ n \in Nat /\ Frontier \in Nat
      /\ Frontier + Len(buffer) = readOffset /\ Len(NewBuffer(n)) = Len(buffer) + n
  BY ChunkBuffer
<1> SUFFICES ASSUME NEW p \in 1..Len(NewBuffer(n))
             PROVE  NewBuffer(n)[p] = TheByte(activeId, Frontier + p - 1)
  <2>1. DOMAIN NewBuffer(n) = 1..Len(NewBuffer(n))
    BY ChunkBuffer, LenProperties
  <2> QED BY <2>1 DEF Spans
<1>5. CASE p <= Len(buffer)
  <2>1. p \in DOMAIN buffer /\ buffer # <<>>
    BY <1>4, <1>5, ChunkBuffer, LenProperties
  <2>2. Frontier = bufferStart
    BY <2>1 DEF Frontier, BufferBase
  <2> QED BY <1>3, <1>5, <2>1, <2>2 DEF Spans
<1>6. CASE ~(p <= Len(buffer))
  <2>1. p - Len(buffer) \in 1..n
    BY <1>4, <1>6
  <2>2. readOffset + (p - Len(buffer)) - 1 = Frontier + p - 1
    BY <1>4
  <2> QED BY <1>2, <1>3, <1>6, <2>1, <2>2
<1> QED BY <1>5, <1>6

\* Every byte a record claims is in its payload, or ends its line.
Complete(r) ==
  \A o \in r.start..r.end - 1 : TheByte(r.file, o) \in Newlines \cup Range(r.payload)

\* Its payload is the bytes of file i in its range, but for the last.
Exact(r, i) == r.payload = [j \in 1..(r.end - r.start - 1) |-> TheByte(i, r.start + j - 1)]

\* The k-th line of s starts where the one before it ends, the first at this offset.
Follows(s, k, from) ==
  IF k = 1 THEN s[1].start = from
           ELSE k - 1 \in DOMAIN s /\ s[k].start = s[k - 1].end

LEMMA IntervalLength ==
  ASSUME NEW m \in Nat, NEW n \in Nat, 1..m = 1..n PROVE m = n
<1>1. \A k \in 1..m : k <= n
  OBVIOUS
<1>2. \A k \in 1..n : k <= m
  OBVIOUS
<1>3. m = 0 \/ m \in 1..m
  OBVIOUS
<1>4. n = 0 \/ n \in 1..n
  OBVIOUS
<1> QED BY <1>1, <1>2, <1>3, <1>4

LEMMA SeqIsFunction ==
  ASSUME NEW S, NEW s \in Seq(S) PROVE s = [j \in 1..Len(s) |-> s[j]]
<1>1. s \in [1..Len(s) -> S]
  BY LenProperties
<1> QED BY <1>1

\* A line of a buffer that holds the bytes of a file from base on is the bytes
\* of its range, but for the newline at its end, and starts where the one
\* before it ends.
LEMMA LinesExact ==
  ASSUME NEW buf \in Seq(Byte), NEW base \in Nat, NEW cuts \in Cuts(buf), NEW i,
         Spans(buf, i, base), NEW k \in DOMAIN cuts, NEW line, line = Lines(buf, base, cuts)[k]
  PROVE  /\ line.start \in Nat /\ line.end \in Nat /\ line.start < line.end
         /\ Exact(line, i) /\ TheByte(i, line.end - 1) \in Newlines
         /\ Follows(Lines(buf, base, cuts), k, base)
<1> DEFINE found == {p \in DOMAIN buf : buf[p] \in Newlines}
           from  == IF k = 1 THEN 1 ELSE cuts[k - 1] + 1
<1>1. /\ cuts \in Seq(1..Len(buf)) /\ DOMAIN cuts = 1..Len(cuts) /\ Len(cuts) \in Nat
      /\ Len(buf) \in Nat
  BY CutsType, LenProperties
<1>2. /\ \A j \in DOMAIN cuts : cuts[j] \in 1..Len(buf) /\ buf[cuts[j]] \in Newlines
      /\ \A j, l \in DOMAIN cuts : j < l => cuts[j] < cuts[l]
  <2>1. \A j \in DOMAIN cuts : cuts[j] \in found
    BY DEF Cuts
  <2>2. \A j \in DOMAIN cuts : cuts[j] \in 1..Len(buf)
    BY <1>1, ElementOfSeq
  <2> QED BY <2>1, <2>2 DEF Cuts
<1>3. k # 1 => k - 1 \in DOMAIN cuts /\ k - 1 < k
  BY <1>1
<1>4. from \in 1..cuts[k]
  <2>1. CASE k = 1
    BY <1>2, <2>1
  <2>2. CASE k # 1
    <3>1. cuts[k - 1] < cuts[k] /\ cuts[k - 1] \in 1..Len(buf) /\ cuts[k] \in 1..Len(buf)
      BY <1>2, <1>3, <2>2
    <3> QED BY <2>2, <3>1
  <2> QED BY <2>1, <2>2
<1>5. /\ line.payload = SubSeq(buf, from, cuts[k] - 1)
      /\ line.start = base + from - 1 /\ line.end = base + cuts[k]
  BY DEF Lines
<1>6. cuts[k] \in 1..Len(buf)
  BY <1>2
<1> HIDE DEF from
<1>7. line.start \in Nat /\ line.end \in Nat /\ line.start < line.end
  BY <1>4, <1>5, <1>6
<1>8. /\ SubSeq(buf, from, cuts[k] - 1) \in Seq(Byte)
      /\ Len(SubSeq(buf, from, cuts[k] - 1)) = cuts[k] - from
      /\ \A j \in 1..cuts[k] - from : SubSeq(buf, from, cuts[k] - 1)[j] = buf[from + j - 1]
  <2>1. from \in Int /\ cuts[k] - 1 \in Int
    BY <1>4, <1>6
  <2>2. \A p \in from..cuts[k] - 1 : buf[p] \in Byte
    <3>1. \A p \in from..cuts[k] - 1 : p \in 1..Len(buf)
      BY <1>1, <1>4, <1>6
    <3> QED BY <3>1, ElementOfSeq
  <2>3. /\ SubSeq(buf, from, cuts[k] - 1) \in Seq(Byte)
        /\ Len(SubSeq(buf, from, cuts[k] - 1))
             = IF from <= cuts[k] - 1 THEN cuts[k] - 1 - from + 1 ELSE 0
        /\ \A j \in 1..cuts[k] - 1 - from + 1 :
              SubSeq(buf, from, cuts[k] - 1)[j] = buf[from + j - 1]
    BY <2>1, <2>2, SubSeqProperties
  <2>4. cuts[k] - 1 - from + 1 = cuts[k] - from /\ (from > cuts[k] - 1 => cuts[k] - from = 0)
    BY <1>4, <1>6
  <2> QED BY <1>4, <1>6, <2>3, <2>4
<1>9. line.end - line.start - 1 = cuts[k] - from
  BY <1>4, <1>5, <1>6
<1>10. \A j \in 1..cuts[k] - from : line.payload[j] = TheByte(i, line.start + j - 1)
  <2> SUFFICES ASSUME NEW j \in 1..cuts[k] - from
               PROVE  buf[from + j - 1] = TheByte(i, line.start + j - 1)
    BY <1>5, <1>8
  <2>1. from + j - 1 \in 1..Len(buf)
    BY <1>1, <1>4, <1>6
  <2>2. base + (from + j - 1) - 1 = line.start + j - 1
    BY <1>4, <1>5
  <2> QED BY <2>1, <2>2, LenProperties DEF Spans
<1>11. Exact(line, i)
  <2>1. line.payload \in Seq(Byte) /\ Len(line.payload) = cuts[k] - from
    BY <1>5, <1>8
  <2>2. line.payload = [j \in 1..cuts[k] - from |-> line.payload[j]]
    BY <2>1, SeqIsFunction
  <2>3. line.payload = [j \in 1..cuts[k] - from |-> TheByte(i, line.start + j - 1)]
    BY <1>10, <2>2
  <2> QED BY <1>9, <2>3 DEF Exact
<1>12. TheByte(i, line.end - 1) \in Newlines
  <2>1. base + cuts[k] - 1 = line.end - 1
    BY <1>5, <1>6
  <2>2. buf[cuts[k]] = TheByte(i, base + cuts[k] - 1)
    BY <1>6, LenProperties DEF Spans
  <2> QED BY <1>2, <2>1, <2>2
<1>13. Follows(Lines(buf, base, cuts), k, base)
  <2>1. CASE k = 1
    <3>1. line.start = base
      BY <1>5, <2>1 DEF from
    <3> QED BY <2>1, <3>1 DEF Follows
  <2>2. CASE k # 1
    <3>1. cuts[k - 1] \in Int
      BY <1>2, <1>3, <2>2
    <3>2. line.start = base + (cuts[k - 1] + 1) - 1
      BY <1>5, <2>2 DEF from
    <3>3. line.start = base + cuts[k - 1]
      BY <3>1, <3>2
    <3>4. k - 1 \in DOMAIN cuts /\ line = Lines(buf, base, cuts)[k]
      BY <1>3, <2>2
    <3>5. /\ DOMAIN Lines(buf, base, cuts) = DOMAIN cuts
          /\ Lines(buf, base, cuts)[k - 1].end = base + cuts[k - 1]
      BY <3>4 DEF Lines
    <3> QED BY <2>2, <3>3, <3>4, <3>5 DEF Follows
  <2> QED BY <2>1, <2>2
<1> QED BY <1>7, <1>11, <1>12, <1>13

\* What a chunk leaves in the buffer, and the records it gives: each exact, each
\* starting where the one before it ends, from the old frontier to the new one.
LEMMA ChunkExact ==
  ASSUME Untouched, TInv, Tracked, ReadChunk
  PROVE  /\ Contiguous' /\ Spans(buffer', activeId, bufferStart')
         /\ DOMAIN framed' = 1..Len(framed') /\ Len(framed') \in Nat
         /\ \A k \in DOMAIN framed' :
              /\ RecordExact(framed'[k]) /\ Complete(framed'[k])
              /\ Follows(framed', k, Frontier)
         /\ framed' = <<>> => Frontier' = Frontier
         /\ framed' # <<>> => framed'[Len(framed')].end = Frontier'
<1>1. Contiguous /\ fd = activeId /\ Spans(buffer, activeId, bufferStart)
  BY DEF ReadChunk, Tracked, Working
<1>2. PICK n \in 1..MaxRead : \E cuts : ReadAs(n, cuts)
  BY ChunkRead
<1>3. PICK cuts : ReadAs(n, cuts)
  BY <1>2
<1> DEFINE buf == NewBuffer(n)
           pos == LastCut(cuts)
           lines == Lines(buf, Frontier, cuts)
<1>4. Spans(buf, activeId, Frontier)
  BY <1>1, <1>3, BufferBytes
<1>5. /\ buf \in Seq(Byte) /\ Len(buf) \in Nat /\ Frontier \in Nat
      /\ DOMAIN cuts = 1..Len(cuts) /\ Len(cuts) \in Nat /\ cuts \in Cuts(buf)
      /\ cuts \in Seq(1..Len(buf))
  BY <1>1, <1>3, ChunkBuffer DEF ReadAs
<1>6. /\ pos \in 0..Len(buf)
      /\ buffer' = SubSeq(buf, pos + 1, Len(buf)) /\ bufferStart' = Frontier + pos
      /\ Contiguous' /\ Frontier' = Frontier + pos
  BY <1>1, <1>3, ChunkDrained
<1>7. /\ DOMAIN framed' = DOMAIN cuts
      /\ \A k \in DOMAIN cuts :
            framed'[k] = [payload |-> lines[k].payload, start |-> lines[k].start,
                          end |-> lines[k].end, file |-> activeId, gen |-> generation]
  BY <1>3 DEF ReadAs, Labelled, Lines
<1>8. framed' \in Seq(Record)
  <2>1. TInv'
    BY ReadChunkTInv
  <2> QED BY <2>1 DEF TInv, TypeOK, AgentTypeOK
<1>9. DOMAIN framed' = 1..Len(framed') /\ Len(framed') \in Nat /\ Len(framed') = Len(cuts)
  <2>1. DOMAIN framed' = 1..Len(framed') /\ Len(framed') \in Nat
    BY <1>8, LenProperties
  <2>2. 1..Len(framed') = 1..Len(cuts)
    BY <1>5, <1>7, <2>1
  <2>4. Len(framed') = Len(cuts)
    BY <1>5, <2>1, <2>2, IntervalLength
  <2> QED BY <2>1, <2>4
<1>10. Spans(buffer', activeId, bufferStart')
  <2> HIDE DEF buf, pos
  <2>1. /\ SubSeq(buf, pos + 1, Len(buf)) \in Seq(Byte)
        /\ Len(SubSeq(buf, pos + 1, Len(buf))) = Len(buf) - pos
        /\ \A k \in 1..Len(buf) - pos : SubSeq(buf, pos + 1, Len(buf))[k] = buf[pos + k]
    <3>1. \A p \in pos + 1..Len(buf) : buf[p] \in Byte
      <4>1. \A p \in pos + 1..Len(buf) : p \in 1..Len(buf)
        BY <1>5, <1>6
      <4> QED BY <1>5, <4>1, ElementOfSeq
    <3>2. pos + 1 \in Int /\ Len(buf) \in Int /\ pos \in Int
      BY <1>5, <1>6
    <3>3. Len(buf) - (pos + 1) + 1 = Len(buf) - pos
      BY <3>2
    <3>4. /\ SubSeq(buf, pos + 1, Len(buf)) \in Seq(Byte)
          /\ Len(SubSeq(buf, pos + 1, Len(buf)))
               = IF pos + 1 <= Len(buf) THEN Len(buf) - (pos + 1) + 1 ELSE 0
          /\ \A k \in 1..Len(buf) - (pos + 1) + 1 :
                SubSeq(buf, pos + 1, Len(buf))[k] = buf[pos + 1 + k - 1]
      BY <3>1, <3>2, SubSeqProperties
    <3>5. pos + 1 > Len(buf) => Len(buf) - pos = 0
      BY <1>6, <3>2
    <3>6. ASSUME NEW k \in 1..Len(buf) - pos
          PROVE  SubSeq(buf, pos + 1, Len(buf))[k] = buf[pos + k]
      <4>1. k \in 1..Len(buf) - (pos + 1) + 1 /\ pos + 1 + k - 1 = pos + k
        BY <3>2, <3>3
      <4> QED BY <3>4, <4>1
    <3>7. Len(SubSeq(buf, pos + 1, Len(buf))) = Len(buf) - pos
      <4>1. CASE pos + 1 <= Len(buf)
        BY <3>3, <3>4, <4>1
      <4>2. CASE ~(pos + 1 <= Len(buf))
        <5>1. Len(SubSeq(buf, pos + 1, Len(buf))) = 0
          BY <3>4, <4>2
        <5>2. Len(buf) - pos = 0
          BY <3>2, <3>5, <4>2
        <5> QED BY <5>1, <5>2
      <4> QED BY <4>1, <4>2
    <3> QED BY <3>4, <3>6, <3>7
  <2> SUFFICES ASSUME NEW k \in DOMAIN buffer'
               PROVE  buffer'[k] = TheByte(activeId, bufferStart' + k - 1)
    BY DEF Spans
  <2>2. k \in 1..Len(buf) - pos
    BY <1>6, <2>1, LenProperties
  <2>3. pos + k \in 1..Len(buf) /\ Frontier + (pos + k) - 1 = bufferStart' + k - 1
    BY <1>5, <1>6, <2>2
  <2>4. buf[pos + k] = TheByte(activeId, Frontier + (pos + k) - 1)
    BY <1>4, <1>5, <2>3, LenProperties DEF Spans
  <2> QED BY <1>6, <2>1, <2>2, <2>3, <2>4
<1>11. ASSUME NEW k \in DOMAIN framed'
       PROVE  /\ RecordExact(framed'[k]) /\ Complete(framed'[k])
              /\ Follows(framed', k, Frontier)
  <2> DEFINE r == framed'[k]
  <2>1. k \in DOMAIN cuts
    BY <1>7
  <2>2. /\ lines[k].start \in Nat /\ lines[k].end \in Nat /\ lines[k].start < lines[k].end
        /\ Exact(lines[k], activeId) /\ TheByte(activeId, lines[k].end - 1) \in Newlines
        /\ Follows(lines, k, Frontier)
    <3> DEFINE line == lines[k]
    <3>1. line = Lines(buf, Frontier, cuts)[k]
      OBVIOUS
    <3> HIDE DEF line, buf, lines
    <3>2. /\ line.start \in Nat /\ line.end \in Nat /\ line.start < line.end
          /\ Exact(line, activeId) /\ TheByte(activeId, line.end - 1) \in Newlines
          /\ Follows(Lines(buf, Frontier, cuts), k, Frontier)
      BY <1>4, <1>5, <2>1, <3>1, LinesExact
    <3> QED BY <3>2 DEF line, lines
  <2>3. /\ r.payload = lines[k].payload /\ r.start = lines[k].start
        /\ r.end = lines[k].end /\ r.file = activeId
    BY <1>7, <2>1
  <2>9. DOMAIN lines = DOMAIN cuts
    BY DEF Lines
  <2> HIDE DEF lines
  <2>4. /\ r.payload = [j \in 1..(r.end - r.start - 1) |-> TheByte(r.file, r.start + j - 1)]
        /\ r.start \in Nat /\ r.end \in Nat /\ r.start < r.end
        /\ TheByte(r.file, r.end - 1) \in Newlines
    BY <2>2, <2>3 DEF Exact
  <2>5. Follows(framed', k, Frontier)
    BY <1>7, <2>2, <2>3, <2>9 DEF Follows
  <2> HIDE DEF r
  <2>7. RecordExact(r)
    <3>1. 0 \in 0..MaxEpoch
      BY DEF Untouched
    <3> QED BY <2>4, <3>1 DEF RecordExact, TheByte
  <2>8. Complete(r)
    <3> SUFFICES ASSUME NEW o \in r.start..r.end - 1, o # r.end - 1
                 PROVE  TheByte(r.file, o) \in Range(r.payload)
      BY <2>4 DEF Complete
    <3> DEFINE j == o - r.start + 1
    <3>0. r.start \in Nat /\ r.end \in Nat
      BY <2>4
    <3>1. j \in 1..(r.end - r.start - 1) /\ r.start + j - 1 = o
      BY <3>0
    <3>2. j \in DOMAIN r.payload /\ r.payload[j] = TheByte(r.file, o)
      BY <2>4, <3>1
    <3> QED BY <3>2 DEF Range
  <2> QED BY <2>5, <2>7, <2>8 DEF r
<1>12. framed' = <<>> => Frontier' = Frontier
  <2> SUFFICES ASSUME framed' = <<>> PROVE pos = 0
    BY <1>5, <1>6
  <2>1. Len(cuts) = 0
    BY <1>9
  <2> QED BY <1>5, <2>1, EmptySeq DEF LastCut
<1>13. framed' # <<>> => framed'[Len(framed')].end = Frontier'
  <2> SUFFICES ASSUME framed' # <<>> PROVE framed'[Len(framed')].end = Frontier'
    OBVIOUS
  <2>1. Len(framed') \in DOMAIN cuts
    BY <1>7, <1>8, <1>9, EmptySeq
  <2>2. framed'[Len(framed')].end = lines[Len(cuts)].end
    BY <1>7, <1>9, <2>1
  <2>4. lines[Len(cuts)].end = Frontier + cuts[Len(cuts)]
    BY <1>9, <2>1 DEF Lines
  <2>3. cuts # <<>>
    BY <1>9, <2>1
  <2> QED BY <1>6, <2>2, <2>3, <2>4 DEF LastCut
<1> QED BY <1>6, <1>9, <1>10, <1>11, <1>12, <1>13

LEMMA ReadChunkTracked ==
  ASSUME Untouched, TInv, Tracked, ReadChunk PROVE Tracked'
<1>1. /\ pc = "polled" /\ ~changed /\ pc' \in {"sleep", "push"}
      /\ UNCHANGED <<fd, activeId, statId, changed>>
      /\ taken' = taken \cup Range(framed')
  BY DEF ReadChunk, ReadData, Goto
<1>2. \A r \in Range(framed') : RecordExact(r)
  BY ChunkExact DEF Range
<1>3. RecordsExact'
  <2> SUFFICES ASSUME NEW r \in taken' PROVE RecordExact(r)
    BY DEF RecordsExact, RecordExact
  <2> QED BY <1>1, <1>2 DEF Tracked, RecordsExact
<1>4. Contiguous' /\ Spans(buffer, activeId, bufferStart)'
  BY <1>1, ChunkExact DEF Spans
<1> QED BY <1>1, <1>3, <1>4 DEF Tracked

LEMMA NextTracked ==
  ASSUME AlwaysThere, Untouched, Base, Tracked, [Next]_vars PROVE Tracked'
<1> USE DEF Base
<1>1. CASE ReadChunk
  BY <1>1, ReadChunkTracked
<1>2. CASE Gone
  BY <1>2, EmptyTracked DEF Gone, Goto, Working
<1> SUFFICES ASSUME taken' = taken PROVE Tracked'
  BY <1>1, <1>2, TakenStays
<1>3. CASE IdleStep
  BY <1>3, IdleSteps, QuietTracked DEF Idle
<1>4. CASE FlushStep
  <2>1. Flushed
    BY <1>4, FlushSteps
  <2> QED BY <2>1, QuietTracked DEF Flushed, Working
<1>5. CASE Boot
  <2>1. pc = "down" /\ pc' = "open" /\ changed' = FALSE /\ statId' = statId
    BY <1>5 DEF Boot, StartReopen, Goto
  <2> QED BY <2>1, EmptyTracked DEF Shape, Working
<1>6. CASE Opening
  <2>1. CASE Asked
    <3>1. pc = "open" /\ path' = path
      BY <1>6, Opened
    <3> QED BY <2>1, <3>1, EmptyTracked DEF Asked, Tracked, Working
  <2>2. CASE Reached
    <3>1. /\ pc = "open" /\ path' = path /\ (Booting \/ Switching)
      BY <1>6, Opened
    <3>2. statId = path
      BY <2>2, <3>1 DEF Reached, Tracked
    <3>3. Working' => changed'
      BY <2>2, <3>1 DEF Reached, Working, Booting, Switching
    <3>4. fd' = activeId' /\ readOffset' = 0 /\ statId' = None
      BY <2>2, <3>2 DEF Reached
    <3> QED BY <3>3, <3>4, EmptyTracked
  <2> QED BY <1>6, <2>1, <2>2, Opened
<1>7. CASE Loading
  <2>1. pc = "load" /\ pc' = "top" /\ ~changed' /\ activeId' = activeId /\ buffer' = <<>>
    BY <1>7, Loaded
  <2>2. fd' = fd
    BY <1>7 DEF Loading, LoadResumes, SetPosition, LoadStartsOver, LoadWithoutFile,
                followerVars
  <2>3. fd = activeId
    BY <2>1 DEF Tracked
  <2> QED BY <2>1, <2>2, <2>3, EmptyTracked
<1>8. CASE TickPoll
  <2>1. /\ pc = "top" /\ ~changed /\ UNCHANGED <<path, activeId, statId, framerVars>>
        /\ ~changed' => readOffset' = readOffset
        /\ PollPath(committedOffset)
    BY <1>8, Polled
  <2>2. pc' = IF opening' = "no" THEN "polled" ELSE "open"
    BY <1>8 DEF TickPoll, Goto
  <2>3. /\ changed' => readOffset' = 0
        /\ opening' = "no" => fd' = fd
    BY <2>1 DEF PollPath, CheckSize
  <2>4. fd = activeId /\ statId = None /\ Contiguous /\ Spans(buffer, activeId, bufferStart)
    BY <2>1 DEF Tracked, Shape, Working
  <2>5. CASE changed'
    BY <2>1, <2>2, <2>3, <2>4, <2>5, EmptyTracked
  <2>6. CASE ~changed'
    <3>1. Contiguous' /\ Spans(buffer, activeId, bufferStart)'
      BY <2>1, <2>4, <2>6 DEF Contiguous, Spans, framerVars
    <3>2. RecordsExact'
      BY DEF Tracked, RecordsExact, RecordExact
    <3> QED BY <2>1, <2>2, <2>3, <2>4, <2>6, <3>1, <3>2 DEF Tracked
  <2> QED BY <2>5, <2>6
<1>9. CASE ResetForNewFile
  <2>1. /\ pc = "polled" /\ pc' = "save" /\ ~changed' /\ activeId' = activeId
        /\ buffer' = <<>>
    BY <1>9, WasReset
  <2>2. fd' = fd /\ fd = activeId
    BY <1>9, <2>1 DEF ResetForNewFile, Tracked
  <2> QED BY <2>1, <2>2, EmptyTracked
<1>10. CASE PushRecord
  BY <1>10, QuietTracked DEF PushRecord, fsVars, followerVars, Working
<1>11. CASE Commit \/ Save
  <2>1. /\ pc \in {"acked", "save"}
        /\ UNCHANGED <<path, fd, activeId, statId, readOffset, changed, framerVars>>
    BY <1>11 DEF Commit, Save, fsVars, followerVars
  <2>2. Working'
    BY <1>11, ResumeType DEF Commit, Save, Working
  <2> QED BY <2>1, <2>2, QuietTracked DEF Working
<1>12. CASE Environment \/ UNCHANGED vars
  <2>1. UNCHANGED <<fd, activeId, statId, readOffset, changed, buffer, bufferStart, pc>>
    BY <1>12 DEF Environment, vars, followerVars, framerVars, agentVars
  <2>2. pc = "open" => path' = path
    BY <1>12 DEF Environment, Untouched, vars, fsVars
  <2>3. (Contiguous' <=> Contiguous) /\ (RecordsExact' <=> RecordsExact)
    BY <2>1 DEF Contiguous, RecordsExact, RecordExact
  <2> QED BY <2>1, <2>2, <2>3 DEF Tracked, Working, Spans
<1> QED BY <1>1, <1>2, <1>3, <1>4, <1>5, <1>6, <1>7, <1>8, <1>9, <1>10, <1>11,
           <1>12, StepCases

\* README:21, LineFramer.cpp:7-45, Agent.cpp:200-235.  Where files are rotated but
\* never truncated, every record is the bytes of its file at the range it states:
\* no chunk, full batch, switch of files or restart skips, doubles or mixes any.
THEOREM RecordsAsRead == ASSUME AlwaysThere, Untouched PROVE Spec => []RecordsExact
<1>1. Init => Base /\ Tracked
  BY InitBase, InitTracked
<1>2. Base /\ Tracked /\ [Next]_vars => (Base /\ Tracked)'
  BY NextBase, NextTracked
<1>3. Tracked => RecordsExact
  BY DEF Tracked
<1> QED BY <1>1, <1>2, <1>3, PTL DEF Spec
------------------------------------------------------------------------------
(***************************************************************************)
(* Restarts, where moreover the backend takes what it is sent, though its  *)
(* answers may be lost: then whatever precedes an offset that was sent has *)
(* been sent before it.                                                    *)
(***************************************************************************)
Taking == SendOutcomes \subseteq {"acked", "lost"}

\* The bytes of file i before offset n are in these records, or end lines.
Has(records, i, n) ==
  \A o \in 0..n - 1 :
    TheByte(i, o) \in Newlines \cup UNION {Range(r.payload) : r \in records}

\* What the backend has, or is about to be sent; and with it what is batched.
Given == received \cup (IF pc = "send" THEN Range(held.batch.records) ELSE {})
Built == Given \cup Range(batch.records)

\* The first offset that no record given to the builder covers.
Level == IF framed = <<>> THEN Frontier ELSE framed[1].start

\* The records left to push lie one after the other up to the frontier.
Chained ==
  /\ \A k \in DOMAIN framed : Complete(framed[k]) /\ Follows(framed, k, Level)
  /\ framed # <<>> => framed[Len(framed)].end = Frontier

Sound ==
  /\ \A l \in acked \cup Stored : Has(received, l.file, l.off)
  /\ disk # None => disk.file \in Inodes
  /\ \A b \in InFlight : Has(Given, b.file, b.end)
  /\ Has(Built, batch.file, batch.end)
  /\ ~Starting /\ ~changed => Chained /\ Has(Built, batch.file, Level)

LEMMA HasMore ==
  ASSUME NEW R, NEW S, R \subseteq S, NEW i, NEW n, Has(R, i, n) PROVE Has(S, i, n)
BY DEF Has

LEMMA HasNone == ASSUME NEW R, NEW i PROVE Has(R, i, 0)
BY DEF Has

\* A complete record carries on where the others end.
LEMMA HasNext ==
  ASSUME NEW R, NEW r, r.start \in Nat, r.end \in Nat,
         Has(R, r.file, r.start), Complete(r)
  PROVE  Has(R \cup {r}, r.file, r.end)
<1> SUFFICES ASSUME NEW o \in 0..r.end - 1
             PROVE  \/ TheByte(r.file, o) \in Newlines
                    \/ \E s \in R \cup {r} : TheByte(r.file, o) \in Range(s.payload)
  BY DEF Has
<1>1. CASE o < r.start
  <2>1. o \in 0..r.start - 1
    BY <1>1
  <2> QED BY <2>1 DEF Has
<1>2. CASE ~(o < r.start)
  <2>1. o \in r.start..r.end - 1
    BY <1>2
  <2> QED BY <2>1 DEF Complete
<1> QED BY <1>1, <1>2

LEMMA InitSound == ASSUME Init PROVE Sound
<1>1. acked \cup Stored = {} /\ InFlight = {} /\ batch.end = 0 /\ Starting /\ disk = None
  BY DEF Init, BatchInit, EmptyBatch, RetryInit, Stored, Starting, InFlight, InHand,
         Waiting, BatchesIn
<1> QED BY <1>1, HasNone DEF Sound

\* Only a send changes what the backend has, and only a save what is stored.
LEMMA Recorded ==
  ASSUME [Next]_vars
  PROVE  /\ ~Send => UNCHANGED <<received, acked>>
         /\ ~Save => UNCHANGED disk
<1>1. CASE RunOnce
  BY <1>1 DEF RunOnce, TickRetry, TickFlush, TickPoll, Opening, FlushOld, HandOver,
     ResetForNewFile, ReadChunk, ReadNoChunk, PushRecord, FlushFull, FlushLimits,
     KeepBatch, Send, Commit, SkipCommit, SendFailed, Save, Sleep, Exit, Gone, history
<1>2. CASE Loading \/ Boot \/ Stop \/ Crash \/ Environment \/ UNCHANGED vars
  BY <1>2 DEF Loading, LoadResumes, LoadStartsOver, LoadWithoutFile, Boot, Stop,
     StopFlushes, StopIdle, HandOver, Crash, Gone, Environment, vars, history
<1> QED BY <1>1, <1>2 DEF Next

\* While a batch is to be sent, nothing happens but the send, or the end.
LEMMA SendNext ==
  ASSUME [Next]_vars, pc = "send", ~Send, ~Gone PROVE UNCHANGED <<pc, held>>
<1>1. CASE RunOnce
  BY <1>1 DEF RunOnce, TickRetry, TickFlush, TickPoll, Opening, FlushOld,
     ResetForNewFile, ReadChunk, ReadNoChunk, PushRecord, FlushFull, FlushLimits,
     KeepBatch, Commit, SkipCommit, SendFailed, Save, Sleep, Exit
<1>2. CASE Loading \/ Boot \/ Stop \/ Crash \/ Environment \/ UNCHANGED vars
  BY <1>2 DEF Loading, LoadResumes, LoadStartsOver, LoadWithoutFile, Boot, Stop,
     StopFlushes, StopIdle, Crash, Environment, vars, agentVars, retryVars
<1> QED BY <1>1, <1>2 DEF Next

\* What was sent stays so.
LEMMA GivenGrows ==
  ASSUME Taking, [Next]_vars
  PROVE  received \subseteq received' /\ (~Gone => Given \subseteq Given')
<1>1. CASE Send
  <2>1. PICK o \in SendOutcomes :
          /\ pc = "send" /\ pc' \in {"acked", "failed"}
          /\ received' = received \cup (IF o = "refused" THEN {}
                                        ELSE Range(held.batch.records))
    BY <1>1 DEF Send
  <2>2. received' = received \cup Range(held.batch.records)
    BY <2>1 DEF Taking
  <2> QED BY <2>1, <2>2 DEF Given
<1>2. CASE ~Send
  <2>1. received' = received
    BY <1>2, Recorded
  <2>2. ~Gone /\ pc = "send" => Given' = Given
    BY <1>2, <2>1, SendNext DEF Given
  <2>3. pc # "send" => Given = received
    BY DEF Given
  <2> QED BY <2>1, <2>2, <2>3 DEF Given
<1> QED BY <1>1, <1>2

\* An acknowledged batch has been taken, with all that precedes its end; and
\* what is saved has been acknowledged.
LEMMA LabelsHad ==
  ASSUME Taking, Base, Committed, Sound, [Next]_vars
  PROVE  /\ \A l \in acked' \cup Stored' : Has(received', l.file, l.off)
         /\ disk' # None => disk'.file \in Inodes
<1> USE DEF Base
<1>1. received \subseteq received'
  BY GivenGrows
<1>2. CASE Send
  <2>1. PICK o \in SendOutcomes :
          /\ pc = "send"
          /\ received' = received \cup (IF o = "refused" THEN {}
                                        ELSE Range(held.batch.records))
          /\ acked' \subseteq acked \cup {LabelOf(held.batch)}
          /\ disk' = disk
    BY <1>2 DEF Send
  <2>2. received' = Given
    BY <2>1 DEF Taking, Given
  <2>3. held # None
    BY <2>1 DEF TInv, HandFull, Sending
  <2>4. Has(Given, held.batch.file, held.batch.end)
    BY <2>3 DEF Sound, InFlight, InHand
  <2>5. LabelOf(held.batch).file = held.batch.file /\ LabelOf(held.batch).off = held.batch.end
    BY DEF LabelOf
  <2>6. Stored' = Stored
    BY <2>1 DEF Stored
  <2> QED BY <1>1, <2>1, <2>2, <2>4, <2>5, <2>6, HasMore DEF Sound
<1>3. CASE Save
  <2>1. /\ pc = "save" /\ ~changed /\ acked' = acked
        /\ disk' = CurrentLabel \/ disk' = disk
    BY <1>3, Saved
  <2>2. CASE disk' = disk
    BY <1>1, <2>1, <2>2, HasMore DEF Sound, Stored
  <2>3. CASE disk' = CurrentLabel
    <3>1. committedOffset = 0 \/ CurrentLabel \in acked
      BY <2>1 DEF Committed, Starting
    <3>2. Has(received', CurrentLabel.file, CurrentLabel.off)
      <4>1. CASE committedOffset = 0
        BY <4>1, HasNone DEF CurrentLabel
      <4>2. CASE CurrentLabel \in acked
        BY <1>1, <4>2, HasMore DEF Sound
      <4> QED BY <3>1, <4>1, <4>2
    <3>3. Stored' \subseteq {CurrentLabel}
      BY <2>3 DEF Stored
    <3>4. activeId \in Inodes
      BY <2>1 DEF Shape, TInv, TypeOK, FollowerTypeOK, FileIds
    <3>5. disk'.file \in Inodes
      BY <2>3, <3>4 DEF CurrentLabel
    <3>6. \A l \in acked : Has(received', l.file, l.off)
      BY <1>1, HasMore DEF Sound
    <3> QED BY <2>1, <3>2, <3>3, <3>5, <3>6
  <2> QED BY <2>1, <2>2, <2>3
<1>4. CASE ~Send /\ ~Save
  <2>1. UNCHANGED <<received, acked, disk>>
    BY <1>4, Recorded
  <2> QED BY <2>1 DEF Sound, Stored
<1> QED BY <1>2, <1>3, <1>4

\* A step that reads and pushes nothing.
LEMMA QuietSound ==
  ASSUME Sound, Given \subseteq Given', InFlight' \subseteq InFlight,
         UNCHANGED <<framed, batch, framerVars>>,
         \A l \in acked' \cup Stored' : Has(received', l.file, l.off),
         disk' # None => disk'.file \in Inodes,
         ~Starting' /\ ~changed' => ~Starting /\ ~changed /\ readOffset' = readOffset
  PROVE  Sound'
<1>1. Built \subseteq Built'
  BY DEF Built
<1>2. \A b \in InFlight' : Has(Given', b.file, b.end)
  BY HasMore DEF Sound
<1>3. Has(Built', batch.file, batch.end)
  BY <1>1, HasMore DEF Sound
<1>4. ASSUME ~Starting', ~changed'
      PROVE  Chained' /\ Has(Built', batch.file, Level')
  <2>1. Chained /\ Has(Built, batch.file, Level)
    BY <1>4 DEF Sound
  <2>2. Level' = Level /\ Frontier' = Frontier
    BY <1>4 DEF Level, Frontier, BufferBase, framerVars
  <2>3. Chained' <=> Chained
    BY <2>2 DEF Chained, Complete, Follows
  <2>4. Has(Built', batch.file, Level)
    BY <1>1, <2>1, HasMore
  <2> QED BY <2>1, <2>2, <2>3, <2>4
<1> QED BY <1>2, <1>3, <1>4 DEF Sound, Has

\* A step after which nothing is framed or batched.
LEMMA EmptySound ==
  ASSUME Sound, framed' = <<>>, batch'.end = 0,
         \A l \in acked' \cup Stored' : Has(received', l.file, l.off),
         disk' # None => disk'.file \in Inodes,
         InFlight' = {} \/ (InFlight' \subseteq InFlight /\ Given \subseteq Given'),
         ~Starting' /\ ~changed' => Has(received', batch'.file, Frontier')
  PROVE  Sound'
<1>1. \A b \in InFlight' : Has(Given', b.file, b.end)
  BY HasMore DEF Sound
<1>2. Has(Built', batch'.file, batch'.end)
  BY HasNone
<1>3. ~Starting' /\ ~changed' => Has(Built', batch'.file, Level')
  <2>1. received' \subseteq Built'
    BY DEF Built, Given
  <2>2. Level' = Frontier'
    BY DEF Level
  <2> QED BY <2>1, <2>2, HasMore
<1>4. Chained'
  BY DEF Chained
<1> QED BY <1>1, <1>2, <1>3, <1>4 DEF Sound, Has

LEMMA FlushSound ==
  ASSUME Sound, Flushed, Given \subseteq Given',
         \A l \in acked' \cup Stored' : Has(received', l.file, l.off)
  PROVE  Sound'
<1>1. /\ UNCHANGED <<framed, framerVars, readOffset, changed, disk>>
      /\ batch'.end = 0 /\ batch'.file = batch.file
      /\ InFlight' \subseteq InFlight \cup {batch} /\ ~Starting
      /\ pc' = "send" /\ held'.batch = batch
  BY DEF Flushed, EmptyBatch, Starting
<1>2. Built \subseteq Given' /\ Given' \subseteq Built'
  BY <1>1 DEF Built, Given
<1>3. \A b \in InFlight' : Has(Given', b.file, b.end)
  BY <1>1, <1>2, HasMore DEF Sound
<1>4. Has(Built', batch'.file, batch'.end)
  BY <1>1, HasNone
<1>5. ~changed' => Chained' /\ Has(Built', batch'.file, Level')
  <2> SUFFICES ASSUME ~changed' PROVE Chained' /\ Has(Built', batch'.file, Level')
    OBVIOUS
  <2>1. Chained /\ Has(Built, batch.file, Level)
    BY <1>1 DEF Sound
  <2>2. Level' = Level /\ Frontier' = Frontier
    BY <1>1 DEF Level, Frontier, BufferBase, framerVars
  <2>3. Chained' <=> Chained
    BY <1>1, <2>2 DEF Chained, Complete, Follows
  <2>4. Has(Built', batch.file, Level)
    BY <1>2, <2>1, HasMore
  <2> QED BY <1>1, <2>1, <2>2, <2>3, <2>4
<1>6. disk' # None => disk'.file \in Inodes
  BY <1>1 DEF Sound
<1> QED BY <1>3, <1>4, <1>5, <1>6 DEF Sound, Has

\* What is read lies beyond what is batched.
LEMMA ReadChunkSound ==
  ASSUME Untouched, Base, Tracked, Sound, ReadChunk, Given \subseteq Given',
         \A l \in acked' \cup Stored' : Has(received', l.file, l.off)
  PROVE  Sound'
<1> USE DEF Base
<1>1. /\ pc = "polled" /\ ~changed
      /\ UNCHANGED <<batch, disk, q, held>>
  BY DEF ReadChunk, batchVars, retryVars
<1>2. framed = <<>> /\ ~Starting
  BY <1>1 DEF IInv, AInv, Pushing, Starting
<1>3. Has(Built, batch.file, Frontier)
  BY <1>1, <1>2 DEF Sound, Level
<1>4. Built \subseteq Built' /\ InFlight' = InFlight
  BY <1>1 DEF Built, InFlight, InHand, Waiting
<1>5. Level' = Frontier
  <2>1. CASE framed' = <<>>
    BY <2>1, ChunkExact DEF Level
  <2>2. CASE framed' # <<>>
    <3>1. 1 \in DOMAIN framed'
      <4>1. TInv'
        BY ReadChunkTInv
      <4>2. framed' \in Seq(Record)
        BY <4>1 DEF TInv, TypeOK, AgentTypeOK
      <4> QED BY <2>2, <4>2, EmptySeq, LenProperties
    <3>2. Follows(framed', 1, Frontier)
      BY <3>1, ChunkExact
    <3> QED BY <2>2, <3>2 DEF Follows, Level
  <2> QED BY <2>1, <2>2
<1>6. Chained'
  <2>1. \A k \in DOMAIN framed' : Complete(framed'[k]) /\ Follows(framed', k, Level')
    BY <1>5, ChunkExact
  <2>2. framed' # <<>> => framed'[Len(framed')].end = Frontier'
    BY ChunkExact
  <2> QED BY <2>1, <2>2 DEF Chained, Complete, Follows
<1>7. Has(Built', batch.file, Level') /\ Has(Built', batch.file, batch.end)
  BY <1>3, <1>4, <1>5, HasMore DEF Sound
<1>8. \A b \in InFlight' : Has(Given', b.file, b.end)
  BY <1>4, HasMore DEF Sound
<1>9. disk' # None => disk'.file \in Inodes
  BY <1>1 DEF Sound
<1> QED BY <1>1, <1>6, <1>7, <1>8, <1>9 DEF Sound, Has

\* A record pushed carries on where those before it ended.
LEMMA PushRecordSound ==
  ASSUME Base, Sound, PushRecord, Given \subseteq Given',
         \A l \in acked' \cup Stored' : Has(received', l.file, l.off)
  PROVE  Sound'
<1> USE DEF Base
<1> DEFINE r == framed[1]
<1>1. UNCHANGED <<readOffset, framerVars, changed, disk>>
  BY DEF PushRecord, followerVars
<1>2. ~Starting /\ ~changed
  BY Pushed DEF Starting, Shape, Working, Sending
<1>3. /\ Len(framed) \in Nat \ {0} /\ DOMAIN framed = 1..Len(framed) /\ Head(framed) = r
      /\ framed' = Tail(framed) /\ Len(framed') = Len(framed) - 1
      /\ DOMAIN framed' = 1..Len(framed) - 1
      /\ \A k \in 1..Len(framed) - 1 : framed'[k] = framed[k + 1]
  <2>1. framed \in Seq(Record) /\ framed # <<>> /\ framed' = Tail(framed)
    BY Pushed
  <2>2. Len(framed) \in Nat \ {0} /\ DOMAIN framed = 1..Len(framed) /\ Head(framed) = r
    BY <2>1, LenProperties, EmptySeq
  <2> HIDE DEF r
  <2>3. /\ Tail(framed) \in Seq(Record) /\ Len(Tail(framed)) = Len(framed) - 1
        /\ \A k \in 1..Len(framed) - 1 : Tail(framed)[k] = framed[k + 1]
    BY <2>1, HeadTailProperties
  <2>4. DOMAIN Tail(framed) = 1..Len(framed) - 1
    BY <2>3, LenProperties
  <2> QED BY <2>1, <2>2, <2>3, <2>4
<1>4. /\ Chained /\ Has(Built, batch.file, r.start)
      /\ Has(Built, batch.file, batch.end)
  BY <1>2, Pushed DEF Sound, Level
<1>5. /\ r.start \in Nat /\ r.end \in Nat /\ r.file = batch.file /\ Complete(r)
  <2>1. r \in Record /\ r \in Range(framed)
    BY <1>3, Pushed
  <2>2. r.start \in Nat /\ r.end \in Nat
    BY <2>1 DEF Record
  <2>3. Complete(r)
    BY <1>3, <1>4 DEF Chained
  <2> QED BY <2>1, <2>2, <2>3 DEF Uniform
<1>6. Built \cup {r} \subseteq Built'
  BY <1>3, Pushed DEF Built
<1>7. Has(Built', batch.file, r.end)
  <2>1. Has(Built \cup {r}, r.file, r.end)
    <3> HIDE DEF r
    <3> QED BY <1>4, <1>5, HasNext
  <2> QED BY <1>5, <1>6, <2>1, HasMore
<1>8. Has(Built', batch.file, batch'.end)
  <2>1. Has(Built', batch.file, batch.end)
    BY <1>4, <1>6, HasMore
  <2> QED BY <1>3, <1>7, <2>1, Pushed DEF Larger
<1>9. \A k \in 1..Len(framed) - 1 :
        /\ k + 1 \in DOMAIN framed /\ k \in DOMAIN framed
        /\ framed[k + 1].start = framed[k].end
  <2> SUFFICES ASSUME NEW k \in 1..Len(framed) - 1
               PROVE  /\ k + 1 \in DOMAIN framed /\ k \in DOMAIN framed
                      /\ framed[k + 1].start = framed[k].end
    OBVIOUS
  <2>1. k + 1 \in DOMAIN framed /\ k \in DOMAIN framed /\ k + 1 # 1 /\ (k + 1) - 1 = k
    BY <1>3
  <2>2. Follows(framed, k + 1, Level)
    BY <1>4, <2>1 DEF Chained
  <2> QED BY <2>1, <2>2 DEF Follows
<1>10. Frontier' = Frontier
  BY <1>1 DEF Frontier, BufferBase, framerVars
<1>11. Level' = r.end
  <2>1. CASE framed' = <<>>
    <3>1. Len(framed) = 1
      BY <1>3, <2>1
    <3>2. r.end = Frontier
      BY <1>4, <3>1, Pushed DEF Chained
    <3> QED BY <1>10, <2>1, <3>2 DEF Level
  <2>2. CASE framed' # <<>>
    <3>1. Len(framed) # 1
      <4>1. framed' \in Seq(Record)
        BY <1>3, Pushed, HeadTailProperties
      <4> QED BY <1>3, <2>2, <4>1, EmptySeq
    <3>2. 1 \in 1..Len(framed) - 1
      BY <1>3, <3>1
    <3>3. framed'[1] = framed[2] /\ framed[2].start = framed[1].end
      BY <1>3, <1>9, <3>2
    <3> QED BY <2>2, <3>3 DEF Level
  <2> QED BY <2>1, <2>2
<1>12. Chained'
  <2>1. ASSUME NEW k \in DOMAIN framed'
        PROVE  Complete(framed'[k]) /\ Follows(framed', k, Level')
    <3>1. k \in 1..Len(framed) - 1 /\ framed'[k] = framed[k + 1] /\ k + 1 \in DOMAIN framed
      BY <1>3, <1>9
    <3>2. Complete(framed'[k])
      BY <1>4, <3>1 DEF Chained
    <3>3. CASE k = 1
      <4>1. framed'[1].start = r.end
        BY <1>9, <3>1, <3>3
      <4> QED BY <1>11, <3>2, <3>3, <4>1 DEF Follows
    <3>4. CASE k # 1
      <4>1. k - 1 \in 1..Len(framed) - 1 /\ (k - 1) + 1 = k
        BY <1>3, <3>1, <3>4
      <4>2. framed'[k - 1] = framed[k]
        BY <1>3, <4>1
      <4>3. framed[k + 1].start = framed[k].end
        BY <1>9, <3>1
      <4>4. framed'[k].start = framed'[k - 1].end /\ k - 1 \in DOMAIN framed'
        BY <1>3, <3>1, <4>1, <4>2, <4>3
      <4> QED BY <3>2, <3>4, <4>4 DEF Follows
    <3> QED BY <3>2, <3>3, <3>4
  <2>2. framed' # <<>> => framed'[Len(framed')].end = Frontier'
    <3> SUFFICES ASSUME framed' # <<>> PROVE framed'[Len(framed')].end = Frontier'
      OBVIOUS
    <3>1. Len(framed) - 1 # 0
      <4>1. framed' \in Seq(Record)
        BY <1>3, Pushed, HeadTailProperties
      <4> QED BY <1>3, <4>1, EmptySeq
    <3>2. Len(framed') \in 1..Len(framed) - 1 /\ Len(framed') + 1 = Len(framed)
      BY <1>3, <3>1
    <3>3. framed'[Len(framed')] = framed[Len(framed)]
      BY <1>3, <3>2
    <3>4. framed[Len(framed)].end = Frontier
      BY <1>4, Pushed DEF Chained
    <3> QED BY <1>10, <3>3, <3>4
  <2> QED BY <2>1, <2>2 DEF Chained, Complete, Follows
<1>13. \A b \in InFlight' : Has(Given', b.file, b.end)
  BY Pushed, HasMore DEF Sound
<1>14. batch'.file = batch.file
  BY Pushed
<1>15. disk' # None => disk'.file \in Inodes
  BY <1>1 DEF Sound
<1>16. Has(Built', batch'.file, batch'.end) /\ Has(Built', batch'.file, Level')
  BY <1>7, <1>8, <1>11, <1>14
<1> HIDE DEF r
<1> QED BY <1>12, <1>13, <1>15, <1>16 DEF Sound, Has

LEMMA NextSound ==
  ASSUME AlwaysThere, Untouched, Taking, Base, Committed, Tracked, Sound, [Next]_vars
  PROVE  Sound'
<1> USE DEF Base
<1>1. /\ \A l \in acked' \cup Stored' : Has(received', l.file, l.off)
      /\ disk' # None => disk'.file \in Inodes
      /\ received \subseteq received'
  BY LabelsHad, GivenGrows
<1>2. CASE Gone
  <2>1. framed' = <<>> /\ batch'.end = 0 /\ InFlight' = {} /\ Starting'
    BY <1>2 DEF Gone, Goto, ResetBatch, EmptyBatch, Starting, InFlight, InHand,
                Waiting, BatchesIn
  <2> QED BY <1>1, <2>1, EmptySound
<1> SUFFICES ASSUME Given \subseteq Given' PROVE Sound'
  BY <1>2, GivenGrows
<1>3. CASE IdleStep
  <2>1. Idle /\ ~Starting
    BY <1>3, IdleSteps DEF Idle, Working, Starting
  <2> QED BY <1>1, <2>1, QuietSound DEF Idle
<1>4. CASE FlushStep
  BY <1>1, <1>4, FlushSteps, FlushSound
<1>5. CASE Boot
  <2>1. Starting' /\ UNCHANGED <<framed, batch, framerVars>> /\ InFlight' = InFlight
    BY <1>5 DEF Boot, Goto, Starting, batchVars, retryVars, InFlight, InHand, Waiting
  <2> QED BY <1>1, <2>1, QuietSound
<1>6. CASE Opening
  <2>1. UNCHANGED <<framed, batch, framerVars>> /\ InFlight' = InFlight
    BY <1>6, Opened DEF batchVars
  <2>2. ~Starting' /\ ~changed' => ~Starting /\ ~changed /\ readOffset' = readOffset
    BY <1>6, Opened DEF Asked, Reached, Booting, Switching, Starting
  <2> QED BY <1>1, <2>1, <2>2, QuietSound
<1>7. CASE Loading
  <2>1. /\ pc = "load" /\ framed' = <<>> /\ buffer' = <<>> /\ InFlight' = {}
        /\ activeId' = activeId /\ batch' = EmptyBatch(activeId', generation')
        /\ readOffset' = committedOffset'
        /\ (Resumable /\ committedOffset' = disk.off) \/ committedOffset' = 0
    BY <1>7, Loaded
  <2>2. batch'.file = activeId /\ batch'.end = 0 /\ Frontier' = readOffset'
    BY <2>1 DEF EmptyBatch, Frontier, BufferBase
  <2>3. CASE committedOffset' = 0
    BY <1>1, <2>1, <2>2, <2>3, HasNone, EmptySound
  <2>4. CASE Resumable /\ committedOffset' = disk.off
    <3>1. disk.file = activeId /\ disk \in Stored
      BY <2>4 DEF Resumable, Stored
    <3>2. Has(received, activeId, disk.off)
      BY <3>1 DEF Sound
    <3>3. Has(received', batch'.file, Frontier')
      BY <1>1, <2>1, <2>2, <2>4, <3>2, HasMore
    <3> QED BY <1>1, <2>1, <2>2, <3>3, EmptySound
  <2> QED BY <2>1, <2>3, <2>4
<1>8. CASE TickPoll
  <2>1. /\ UNCHANGED <<framed, batch, framerVars>> /\ InFlight' = InFlight
        /\ pc = "top" /\ ~changed
        /\ ~changed' => readOffset' = readOffset
    BY <1>8, Polled DEF batchVars
  <2> QED BY <1>1, <2>1, QuietSound DEF Starting
<1>9. CASE ResetForNewFile
  <2>1. /\ framed' = <<>> /\ buffer' = <<>> /\ InFlight' = InFlight
        /\ batch' = EmptyBatch(activeId', generation')
        /\ readOffset' = readOffset /\ changed
    BY <1>9, WasReset
  <2>2. Frontier' = 0 /\ batch'.end = 0
    BY <2>1 DEF Tracked, Frontier, BufferBase, EmptyBatch
  <2> QED BY <1>1, <2>1, <2>2, HasNone, EmptySound
<1>10. CASE ReadChunk
  BY <1>1, <1>10, ReadChunkSound
<1>11. CASE PushRecord
  BY <1>1, <1>11, PushRecordSound
<1>12. CASE Commit \/ Save
  <2>1. /\ pc \in {"acked", "save"} /\ InFlight' \subseteq InFlight
        /\ UNCHANGED <<framed, batch, framerVars, readOffset, changed>>
    BY <1>12 DEF Commit, Save, followerVars, batchVars, retryVars, Release, InFlight,
                 InHand, Waiting
  <2> QED BY <1>1, <2>1, QuietSound DEF Starting
<1>13. CASE Environment \/ UNCHANGED vars
  <2>1. UNCHANGED <<pc, site, framed, batch, framerVars, readOffset, changed, q, held>>
    BY <1>13 DEF Environment, vars, followerVars, batchVars, retryVars, agentVars
  <2>2. InFlight' = InFlight
    BY <2>1 DEF InFlight, InHand, Waiting
  <2> QED BY <1>1, <2>1, <2>2, QuietSound DEF Starting
<1> QED BY <1>2, <1>3, <1>4, <1>5, <1>6, <1>7, <1>8, <1>9, <1>10, <1>11, <1>12,
           <1>13, StepCases

LEMMA SoundIsSafe == ASSUME Untouched, Base, Sound PROVE SafeRestart
<1> SUFFICES ASSUME disk # None, NEW o \in 0..disk.off - 1
             PROVE  ByteAt(disk.file, o) \in Newlines \cup Delivered
  BY DEF SafeRestart
<1>1. disk.file \in Inodes /\ Has(received, disk.file, disk.off)
  BY DEF Sound, Stored
<1>2. epoch[disk.file] = 0
  BY <1>1, OnlyEpoch DEF Base, TInv, TypeOK
<1>3. ByteAt(disk.file, o) = TheByte(disk.file, o)
  BY <1>2 DEF ByteAt, TheByte
<1> QED BY <1>1, <1>3 DEF Has, Delivered

\* CheckpointStore.hpp:18, README:51, Agent.cpp:84-335.  Where files are rotated
\* but not truncated and no batch is refused, though answers may be lost, nothing
\* before the stored checkpoint is missing at the backend, at whatever point the
\* process is killed, whatever load or save fails and wherever the path moves to:
\* a restart loses nothing.
THEOREM RestartsSafely ==
  ASSUME AlwaysThere, Untouched, Taking PROVE Spec => []SafeRestart
<1> DEFINE Inv == Base /\ Committed /\ Tracked /\ Sound
<1>1. Init => Inv
  BY InitBase, InitCommitted, InitTracked, InitSound
<1>2. Inv /\ [Next]_vars => Inv'
  BY NextBase, NextCommitted, NextTracked, NextSound
<1>3. Inv => SafeRestart
  BY SoundIsSafe
<1> HIDE DEF Inv
<1> QED BY <1>1, <1>2, <1>3, PTL DEF Spec
==============================================================================
