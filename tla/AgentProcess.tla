---------------------------- MODULE AgentProcess ----------------------------
(***************************************************************************)
(* src/src/main.cpp: the process, from its configuration file to its exit. *)
(* Composes ConfigLoader and HttpNdjsonSink; of Agent it keeps when a      *)
(* batch is sent, which is all of a tick that may take long.  What a tick  *)
(* does otherwise is the subject of the module Agent.                      *)
(***************************************************************************)
EXTENDS ConfigLoader, HttpNdjsonSink

CONSTANT MaxSends  \* bound: batches sent in a tick

ASSUME ProcessAssumption == MaxSends \in Nat \ {0}

VARIABLES
  pc,       \* where main() is
  running,  \* g_running
  sends     \* bound: batches sent in this tick

vars == <<loaderVars, sinkVars, pc, running, sends>>

TypeOK ==
  /\ LoaderTypeOK /\ SinkTypeOK
  /\ pc \in {"config", "agent", "connect", "loop", "tick", "sleep", "shutdown",
             "exited", "failed"}
  /\ running \in BOOLEAN
  /\ sends \in 0..MaxSends

Init ==
  /\ LoaderInit /\ SinkInit
  /\ pc = "config" /\ running = TRUE /\ sends = 0
------------------------------------------------------------------------------
\* ConfigLoader::load(); what it throws ends main().
Configure ==
  /\ pc = "config"
  /\ Load
  /\ pc' = CASE loading' = "loaded"  -> "agent"
             [] loading' = "refused" -> "failed"
             [] OTHER                -> "config"
  /\ UNCHANGED <<sinkVars, running, sends>>

\* static_cast<int> of a std::uint32_t
Signed(n) == IF n < 2^(WordBits - 1) THEN n ELSE n - 2^WordBits

\* Agent::Agent()
ConstructAgent ==
  /\ pc = "agent"
  /\ Construct(cfg.url # <<>>, Signed(cfg.timeout_ms))
  /\ pc' = "connect"
  /\ UNCHANGED <<loaderVars, running, sends>>

\* test_connection(), which libcurl ends by itself: its outcome is only logged.
TestConnection ==
  /\ pc = "connect"
  /\ pc' = "loop"
  /\ UNCHANGED <<loaderVars, sinkVars, running, sends>>

CheckRunning ==
  /\ pc = "loop"
  /\ pc' = IF running THEN "tick" ELSE "shutdown"
  /\ sends' = 0
  /\ UNCHANGED <<loaderVars, sinkVars, running>>

\* run_once() and shutdown() send batches, one after the other.
SendBatch(b) ==
  /\ pc \in {"tick", "shutdown"} /\ body = None
  /\ sends < IF pc = "tick" THEN MaxSends ELSE 1
  /\ StartSend(b)
  /\ sends' = sends + 1
  /\ UNCHANGED <<loaderVars, pc, running>>

EndTick ==
  /\ pc = "tick" /\ body = None
  /\ pc' = "sleep"
  /\ UNCHANGED <<loaderVars, sinkVars, running, sends>>

Sleep ==
  /\ pc = "sleep"
  /\ pc' = "loop"
  /\ UNCHANGED <<loaderVars, sinkVars, running, sends>>

EndShutdown ==
  /\ pc = "shutdown" /\ body = None
  /\ pc' = "exited"
  /\ UNCHANGED <<loaderVars, sinkVars, running, sends>>

\* The kernel, libcurl and the backend act while the thread waits in a send.
Transfer ==
  /\ Take \/ Answer \/ TransferFails
  /\ UNCHANGED <<loaderVars, pc, running, sends>>

GiveUp == TimesOut /\ UNCHANGED <<loaderVars, pc, running, sends>>

\* SIGINT or SIGTERM.
Signal ==
  /\ running /\ pc \notin {"exited", "failed"}
  /\ running' = FALSE
  /\ UNCHANGED <<loaderVars, sinkVars, pc, sends>>

Thread == \/ Configure \/ ConstructAgent \/ TestConnection \/ CheckRunning
          \/ EndTick \/ Sleep \/ EndShutdown
          \/ \E b \in Batches : SendBatch(b)

Next == Thread \/ Transfer \/ GiveUp \/ Signal

\* The thread runs on, and libcurl keeps its limit.  Nothing is assumed of the
\* backend, nor of the signal.
Spec == Init /\ [][Next]_vars /\ WF_vars(Thread) /\ WF_vars(GiveUp)
------------------------------------------------------------------------------
\* main.cpp:20 "graceful shutdown".  Once stopped the process exits, whatever
\* it is doing and whatever the backend does, if http.timeout_ms is neither 0
\* nor too large for an int: then a send ends even if it is never answered.
Finite == pc # "config" /\ cfg.timeout_ms \in 1..2^(WordBits - 1) - 1

StopCompletes == Finite /\ ~running ~> pc \in {"exited", "failed"}
==============================================================================
