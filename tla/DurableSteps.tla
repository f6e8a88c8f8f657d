------------------------------ MODULE DurableSteps ------------------------------
(***************************************************************************)
(* One durable step directory (.rounds/<round>/steps/<step>) and the       *)
(* processes that touch it: StepRunner.run_step calls, which re-enter      *)
(* after a failure or a crash, and DurableReaper.reap passes, which turn   *)
(* a stale "inflight" status into "retryable_failed".                      *)
(*                                                                         *)
(* Every file of the directory is replaced atomically, so one action reads *)
(* or writes one file; nothing locks a whole run_step call.  An input and  *)
(* the hash of that input are the same value here, and an output is named  *)
(* by the input it was computed from.                                      *)
(*                                                                         *)
(* The parts of the specification are named DSInit, DSNext and so on, so   *)
(* that a module can extend this one beside another.                       *)
(***************************************************************************)
EXTENDS Naturals, FiniteSets

CONSTANTS Runners,      \* concurrent callers of run_step
          Reapers,      \* concurrent DurableReaper.reap passes
          Inputs,       \* values of input_data
          NoInput,      \* an absent hash or output file
          MaxAttempts   \* bound on the attempt counter (run_step calls explored)

ASSUME NoInputAssumption == NoInput \notin Inputs
ASSUME MaxAttemptsAssumption == MaxAttempts \in Nat

VARIABLES status,   \* status.json
          stale,    \* status.updated_at is older than inflight_timeout_seconds
          output,   \* output.json
          call,     \* each runner's run_step frame
          reap      \* each reaper's apply_stale_inflight frame

DSVars == <<status, stale, output, call, reap>>

StepStates == {"absent", "created", "ready", "inflight", "committed",
               "retryable_failed", "terminal_failed"}

TerminalStates == {"committed", "terminal_failed"}

StatusFiles == [state : StepStates, hash : Inputs \cup {NoInput}, attempt : 0..MaxAttempts]

Absent == [state |-> "absent", hash |-> NoInput, attempt |-> 0]

Created(i) == [state |-> "created", hash |-> i, attempt |-> 0]

\* The program counter of a run_step call: the file access it does next.
CallPoints == {"idle", "read_output", "reset", "write_input", "write_back",
               "stamp", "ready", "inflight", "fn", "commit_output", "commit_status", "returned", "raised"}

NoCall == [at |-> "idle", input |-> NoInput, st |-> Absent, result |-> NoInput]

DSInit == /\ status = Absent
          /\ stale = FALSE
          /\ output = NoInput
          /\ call = [r \in Runners |-> NoCall]
          /\ reap = [p \in Reapers |-> [at |-> "idle", st |-> Absent]]

---------------------------------------------------------------------------

\* validate_transition: staying is allowed, a terminal state is never left, and
\* any other move must be listed.  No code here enters "resumed" or "cancelled".
AllowedNext(old) ==
    CASE old = "created"          -> {"ready", "inflight", "terminal_failed"}
      [] old = "ready"            -> {"inflight", "terminal_failed"}
      [] old = "inflight"         -> {"committed", "retryable_failed", "terminal_failed"}
      [] old = "retryable_failed" -> {"ready", "inflight", "terminal_failed"}
      [] OTHER                    -> {}

\* Mutant: transitions are not validated.
ValidTransitionUnchecked(old, new) == TRUE

ValidTransition(old, new) ==
    old = new \/ (old \notin TerminalStates /\ new \in AllowedNext(old))

WriteStatus(st) == status' = st /\ stale' = FALSE

MoveTo(r, point) == call' = [call EXCEPT ![r].at = point]

---------------------------------------------------------------------------
(* StepRunner.run_step *)

\* The call starts: read_status.
Enter(r, i) ==
    /\ call[r].at \in {"idle", "returned", "raised"}
    /\ call' = [call EXCEPT ![r] = [at |-> "read_output", input |-> i,
                                    st |-> status, result |-> NoInput]]
    /\ UNCHANGED <<status, stale, output, reap>>

\* Mutants: the input hash is not compared; a changed input is not reset to "created".
ReadOutputAnyHash(r) ==
    LET committed == call[r].st.state = "committed"
    IN /\ call[r].at = "read_output"
       /\ IF committed /\ output # NoInput
          THEN call' = [call EXCEPT ![r].at = "returned", ![r].result = output]
          ELSE MoveTo(r, "write_input")
       /\ UNCHANGED <<status, stale, output, reap>>
ReadOutputNoReset(r) ==
    LET done == call[r].st.state = "committed" /\ call[r].st.hash = call[r].input
    IN /\ call[r].at = "read_output"
       /\ IF done /\ output # NoInput
          THEN call' = [call EXCEPT ![r].at = "returned", ![r].result = output]
          ELSE MoveTo(r, "write_input")
       /\ UNCHANGED <<status, stale, output, reap>>

\* read_output, then the early return for a step committed with this input, or
\* the choice between a fresh status for a changed input and write_input.
ReadOutput(r) ==
    LET committed == call[r].st.state = "committed"
        same      == call[r].st.hash = call[r].input
    IN /\ call[r].at = "read_output"
       /\ \/ /\ committed /\ same /\ output # NoInput
             /\ call' = [call EXCEPT ![r].at = "returned", ![r].result = output]
          \/ /\ committed /\ ~same
             /\ MoveTo(r, "reset")
          \/ /\ ~committed \/ (same /\ output = NoInput)
             /\ MoveTo(r, "write_input")
       /\ UNCHANGED <<status, stale, output, reap>>

\* The committed status belongs to another input: overwrite it with "created".
Reset(r) ==
    /\ call[r].at = "reset"
    /\ WriteStatus(Created(call[r].input))
    /\ call' = [call EXCEPT ![r].at = "ready", ![r].st = Created(call[r].input)]
    /\ UNCHANGED <<output, reap>>

\* write_input: input.json (which nothing reads back), then the status re-read or
\* created ...
WriteInput(r) ==
    /\ call[r].at = "write_input"
    /\ call' = [call EXCEPT ![r].at = "write_back",
                            ![r].st = IF status = Absent THEN Created(call[r].input)
                                                         ELSE status]
    /\ UNCHANGED <<status, stale, output, reap>>

\* ... and written as it was read.
WriteBack(r) ==
    /\ call[r].at = "write_back"
    /\ WriteStatus(call[r].st)
    /\ MoveTo(r, "stamp")
    /\ UNCHANGED <<output, reap>>

\* status.input_hash = current_hash; write_status.
Stamp(r) ==
    LET st == [call[r].st EXCEPT !.hash = call[r].input]
    IN /\ call[r].at = "stamp"
       /\ WriteStatus(st)
       /\ call' = [call EXCEPT ![r].at = "ready", ![r].st = st]
       /\ UNCHANGED <<output, reap>>

\* "created" and "retryable_failed" go through "ready"; other states fall through.
Ready(r) ==
    /\ call[r].at = "ready"
    /\ IF call[r].st.state \in {"created", "retryable_failed"}
       THEN LET st == [call[r].st EXCEPT !.state = "ready"]
            IN WriteStatus(st) /\ call' = [call EXCEPT ![r].at = "inflight", ![r].st = st]
       ELSE MoveTo(r, "inflight") /\ UNCHANGED <<status, stale>>
    /\ UNCHANGED <<output, reap>>

\* write_inflight_status; validate_transition raises for a terminal status.
Inflight(r) ==
    /\ call[r].at = "inflight"
    /\ IF ValidTransition(call[r].st.state, "inflight")
       THEN /\ call[r].st.attempt < MaxAttempts
            /\ LET st == [call[r].st EXCEPT !.state = "inflight", !.attempt = @ + 1]
               IN WriteStatus(st) /\ call' = [call EXCEPT ![r].at = "fn", ![r].st = st]
       ELSE MoveTo(r, "raised") /\ UNCHANGED <<status, stale>>
    /\ UNCHANGED <<output, reap>>

\* fn() fails: a retry_exceptions error is retryable, any other one is terminal.
FnFails(r, failure) ==
    LET st == [call[r].st EXCEPT !.state = failure]
    IN /\ call[r].at = "fn"
       /\ WriteStatus(st)
       /\ call' = [call EXCEPT ![r].at = "raised", ![r].st = st]
       /\ UNCHANGED <<output, reap>>

FnReturns(r) ==
    /\ call[r].at = "fn"
    /\ MoveTo(r, "commit_output")
    /\ UNCHANGED <<status, stale, output, reap>>

\* commit_output writes output.json first ...
CommitOutput(r) ==
    /\ call[r].at = "commit_output"
    /\ output' = call[r].input
    /\ MoveTo(r, "commit_status")
    /\ UNCHANGED <<status, stale, reap>>

\* ... and only then the committed status.
CommitStatus(r) ==
    LET st == [call[r].st EXCEPT !.state = "committed"]
    IN /\ call[r].at = "commit_status"
       /\ WriteStatus(st)
       /\ call' = [call EXCEPT ![r].at = "returned", ![r].st = st, ![r].result = call[r].input]
       /\ UNCHANGED <<output, reap>>

\* The process dies anywhere inside the call; the files stay as they are.
RunnerDies(r) ==
    /\ call[r].at \notin {"idle", "returned", "raised"}
    /\ call' = [call EXCEPT ![r] = NoCall]
    /\ UNCHANGED <<status, stale, output, reap>>

---------------------------------------------------------------------------
(* ResumePlanner.plan and apply_stale_inflight, as DurableReaper.reap runs them *)

\* plan(): only a stale "inflight" status yields a mark_retryable_failed action.
PlanStale(p) ==
    /\ reap[p].at = "idle"
    /\ status.state = "inflight" /\ stale
    /\ reap' = [reap EXCEPT ![p].at = "planned"]
    /\ UNCHANGED <<status, stale, output, call>>

\* The status is read again; any "inflight" status qualifies now, stale or not.
ReapRead(p) ==
    /\ reap[p].at = "planned"
    /\ reap' = [reap EXCEPT ![p] =
                  IF status.state = "inflight" THEN [at |-> "mark", st |-> status]
                                               ELSE [at |-> "idle", st |-> Absent]]
    /\ UNCHANGED <<status, stale, output, call>>

\* mark_failed writes the copy that was read, whatever the file holds by now.
ReapMark(p) ==
    /\ reap[p].at = "mark"
    /\ WriteStatus([reap[p].st EXCEPT !.state = "retryable_failed"])
    /\ reap' = [reap EXCEPT ![p] = [at |-> "idle", st |-> Absent]]
    /\ UNCHANGED <<output, call>>

\* The clock passes inflight_timeout_seconds since the last write.
Age == /\ status.state = "inflight" /\ ~stale
       /\ stale' = TRUE
       /\ UNCHANGED <<status, output, call, reap>>

---------------------------------------------------------------------------

RunStep(r) ==
    \/ \E i \in Inputs : Enter(r, i)
    \/ ReadOutput(r) \/ Reset(r) \/ WriteInput(r) \/ WriteBack(r)
    \/ Stamp(r) \/ Ready(r) \/ Inflight(r)
    \/ \E f \in {"retryable_failed", "terminal_failed"} : FnFails(r, f)
    \/ FnReturns(r) \/ CommitOutput(r) \/ CommitStatus(r) \/ RunnerDies(r)

Reap(p) == PlanStale(p) \/ ReapRead(p) \/ ReapMark(p)

DSNext == (\E r \in Runners : RunStep(r)) \/ (\E p \in Reapers : Reap(p)) \/ Age

DSSpec == DSInit /\ [][DSNext]_DSVars

---------------------------------------------------------------------------
(* Properties *)

CallFrames == [at : CallPoints, input : Inputs \cup {NoInput},
               st : StatusFiles, result : Inputs \cup {NoInput}]

ReapFrames == [at : {"idle", "planned", "mark"}, st : StatusFiles]

\* The files and the frames have their types.
DSTypeOK ==
    /\ status \in StatusFiles
    /\ stale \in BOOLEAN
    /\ output \in Inputs \cup {NoInput}
    /\ call \in [Runners -> CallFrames]
    /\ reap \in [Reapers -> ReapFrames]

\* What run_step returns was computed from the input it was called with, also when
\* the output comes from the file an earlier call left (step_runner.py:31-33).
ReturnsOwnOutput ==
    \A r \in Runners : call[r].at = "returned" => call[r].result = call[r].input

\* A committed status always has the output of the input it names on disk: a crash
\* between the two writes of commit_output, a retry or a reaper never separates them.
CommittedHasItsOutput ==
    status.state = "committed" => output = status.hash

\* The step lets go of a terminal status: a call with another input overwrites what was
\* committed for the previous one.
ResetForNewInput ==
    /\ status.state = "committed"
    /\ \E r \in Runners : call[r].at = "reset" /\ call[r].input # status.hash

\* Through every failure, retry and crash, and whatever the reapers did in between, run_step
\* keeps a terminal status: only a call with another input replaces a committed one, so a
\* committed step is not run again ("committed_step_will_not_rerun"), and nothing replaces a
\* terminal failure ("terminal_failure_requires_operator_or_new_run",
\* resume_planner.py:59,71).  The one other writer that undoes a terminal status is a
\* reaper's late mark.
OnlyReapersUndoTerminal ==
    [][status.state \in TerminalStates /\ status'.state # status.state
          => ResetForNewInput \/ \E p \in Reapers : ReapMark(p)]_DSVars

---------------------------------------------------------------------------
(* The inductive invariant behind these properties, when one process at a time runs *)
(* the step: nothing serializes two of them *)

SingleRunner == \A r1, r2 \in Runners : r1 = r2

\* What run_step relies on between its file accesses, whatever reapers do.
CallIsSound ==
    \A r \in Runners :
      LET c == call[r]
      IN /\ c.at # "idle" => c.input \in Inputs
         /\ c.at = "read_output" =>
              IF c.st.state = "committed" THEN output = c.st.hash /\ c.st.hash \in Inputs
                                          ELSE status.state # "committed"
         /\ c.at \in {"write_input", "write_back", "stamp", "ready", "inflight", "fn",
                      "commit_output", "commit_status"} => status.state # "committed"
         /\ c.at \in {"write_back", "stamp", "ready", "inflight", "fn", "commit_output",
                      "commit_status"} => c.st.state # "committed"
         /\ c.at \in {"ready", "inflight", "fn", "commit_output", "commit_status"} =>
              c.st.hash = c.input
         /\ c.at = "commit_status" => output = c.input

\* A committed status was stamped with the hash of a real input.
CommitNamesAnInput == status.state = "committed" => status.hash \in Inputs

\* The invariant behind the commit guarantees.
CommitInv == /\ DSTypeOK /\ CommittedHasItsOutput /\ CommitNamesAnInput
             /\ CallIsSound /\ ReturnsOwnOutput

\* Only the runner writes a terminal status, so the frame of its call knows of it, and
\* a call that is past write_inflight_status runs on a status that is not terminal.
FrameKnowsTerminal ==
    \A r \in Runners :
      LET c == call[r]
      IN /\ /\ status.state \in TerminalStates
            /\ c.at \in {"read_output", "reset", "write_back", "stamp", "ready", "inflight"}
            => c.st = status
         /\ c.at = "reset" => c.st.state = "committed" /\ c.st.hash # c.input
         /\ c.at \in {"fn", "commit_output", "commit_status"} =>
              c.st.state = "inflight" /\ status.state \notin TerminalStates

\* The invariant that is inductive for a single runner.
DSIInv == CommitInv /\ FrameKnowsTerminal
==================================================================================
