------------------------ MODULE RunSupervisorProofs ------------------------
(***************************************************************************)
(* Safety of run(), for every timeout, input length, pipe size, set of     *)
(* exit codes and set of signals.                                          *)
(***************************************************************************)
EXTENDS RunSupervisor, TLAPS

(* Until the loop runs there is no child and no result; the pipe is there as
   soon as pipe2 has been called. *)
BeforeLoop == pc \in {"setup", "fork"} =>
    /\ child = "none" /\ code = 0 /\ ~finished
    /\ step <= (IF pc = "setup" THEN 7 ELSE 8)
    /\ (step > 4 => "in_pipe[1]" \in open)
    /\ (pc = "fork" => step = 8)

(* In the loop the child has not been waited for, a zombie has ended by its own
   doing, and only the timeout's handler can have written a result. *)
InLoop == pc \in {"wait", "handle", "reap"} =>
    /\ child \in {"fork failed", "running", "zombie"}
    /\ (child = "zombie" => status \in WaitStatuses)
    /\ (pc = "handle" /\ handler = "timeout" => timer = "expired")
    /\ IF finished THEN pc = "reap" /\ code = TIMED_OUT /\ timer # "off" ELSE code = 0

(* A result of -1 is the set-up's, and nothing else comes without a child. *)
AfterLoop == pc \in {"kill", "done"} =>
    /\ (code = -1 <=> child = "none")
    /\ (child = "none" => pc = "done" /\ open = {} /\ watched = {})

(* The write end is closed only once all input has been written. *)
InputKept == child # "none" => "in_pipe[1]" \in open \/ left = 0

Control == /\ BeforeLoop /\ InLoop /\ AfterLoop
           /\ CodeTellsWhy /\ InputKept /\ EofAfterAllInput /\ NoneOutlivesRun
           /\ (sawEof => child # "none")

RunInv == TypeOK /\ Control

(* TypeOK in two parts: the provers take numbers and Booleans one at a time. *)
Domains == /\ timeout \in Timeouts
           /\ pc \in {"setup", "fork", "wait", "handle", "reap", "kill", "done"}
           /\ step \in 1 .. 8
           /\ open \subseteq {"efd", "in_pipe[0]", "in_pipe[1]", "timeout_fd"}
           /\ watched \subseteq {"input", "timeout"} /\ handler \in {"input", "timeout"}
           /\ timer \in {"off", "running", "expired"}
           /\ left \in 0 .. InputLen /\ pipe \in 0 .. PipeSize
           /\ code \in Codes \cup {-1, TIMED_OUT, SIGNALLED, 0}
           /\ child \in {"none", "fork failed", "running", "zombie", "reaped"}
           /\ status \in WaitStatuses \cup {0, SIGKILL}

Flags == sawEof \in BOOLEAN /\ finished \in BOOLEAN
-----------------------------------------------------------------------------
(* What waitpid stores for an exit code comes back as that code, and for a
   signal as SIGNALLED (lines 159-163). *)
LEMMA StatusFacts ==
    ASSUME NEW raw \in WaitStatuses
    PROVE  /\ raw \in Nat
           /\ ReturnCode(raw) \in Codes \cup {SIGNALLED}
           /\ \/ \E c \in Codes : raw = c * 256 /\ ReturnCode(raw) = c
              \/ raw \in Signals /\ ReturnCode(raw) = SIGNALLED
<1>1. CASE raw \in Signals
  <2>1. raw % 128 # 0 /\ raw \in Nat
    BY <1>1, RunAssumption
  <2>2. QED
    BY <1>1, <2>1 DEF ReturnCode, WIFEXITED
<1>2. ASSUME NEW c \in Codes, raw = c * 256 PROVE ReturnCode(raw) = c /\ raw \in Nat
  <2>1. c \in 0 .. 255
    BY RunAssumption
  <2>2. (c * 256) % 128 = 0 /\ ((c * 256) \div 256) % 256 = c /\ c * 256 \in Nat
    BY ONLY <2>1
  <2>3. QED
    BY <1>2, <2>2 DEF ReturnCode, WIFEXITED, WEXITSTATUS
<1>3. QED
  BY <1>1, <1>2 DEF WaitStatuses

(* No result of waitpid can be taken for the set-up's -1 or the timeout's -2. *)
LEMMA CodeFacts == \A c \in Codes \cup {SIGNALLED} : c \in Int /\ c # -1 /\ c # TIMED_OUT
  BY RunAssumption DEF SIGNALLED, TIMED_OUT

LEMMA SetupFacts ==
    /\ Len(SetupCalls) = 7
    /\ \A call : Opens(call) \subseteq {"efd", "in_pipe[0]", "in_pipe[1]", "timeout_fd"}
    /\ \A call : Watches(call) \subseteq {"input", "timeout"}
    /\ "in_pipe[1]" \in Opens(SetupCalls[4])
  BY DEF SetupCalls, Opens, Watches

LEMMA TypeParts == TypeOK <=> Domains /\ Flags
<1>1. 1 .. Len(SetupCalls) + 1 = 1 .. 8
  BY SetupFacts
<1>2. QED
  BY <1>1, Zenon DEF TypeOK, Domains, Flags

LEMMA InitRun == Init => RunInv
<1> SUFFICES ASSUME Init PROVE RunInv
  OBVIOUS
<1>1. Domains
  BY RunAssumption DEF Init, Domains
<1>2. Flags
  BY DEF Init, Flags
<1>3. Control
  BY DEF Init, Control, BeforeLoop, InLoop, AfterLoop, CodeTellsWhy, InputKept,
         EofAfterAllInput, NoneOutlivesRun, Forked
<1>4. QED
  BY <1>1, <1>2, <1>3, TypeParts DEF RunInv

LEMMA FlagsStep == Flags /\ [Next]_vars => Flags'
<1> SUFFICES ASSUME Flags, [Next]_vars PROVE Flags'
  OBVIOUS
<1> USE DEF Flags, io
<1>1. CASE SetupStep
  BY <1>1 DEF SetupStep
<1>2. CASE SetupFails
  BY <1>2 DEF SetupFails
<1>3. CASE Fork
  BY <1>3 DEF Fork
<1>4. CASE EpollWait
  BY <1>4 DEF EpollWait
<1>5. CASE EpollTimeout
  BY <1>5 DEF EpollTimeout, vars
<1>6. CASE InputHandler
  BY <1>6 DEF InputHandler
<1>7. CASE TimeoutHandler
  BY <1>7 DEF TimeoutHandler
<1>8. CASE Reap
  BY <1>8 DEF Reap
<1>9. CASE Kill
  BY <1>9 DEF Kill
<1>10. CASE Returned
  BY <1>10 DEF Returned, vars
<1>11. CASE TimerExpires
  BY <1>11 DEF TimerExpires
<1>12. CASE ChildReads
  BY <1>12 DEF ChildReads
<1>13. CASE ChildReadsEof
  BY <1>13 DEF ChildReadsEof
<1>14. CASE ChildEnds
  BY <1>14 DEF ChildEnds
<1>15. CASE UNCHANGED vars
  BY <1>15 DEF vars
<1>16. QED
  BY <1>1, <1>2, <1>3, <1>4, <1>5, <1>6, <1>7, <1>8, <1>9, <1>10, <1>11, <1>12, <1>13, <1>14, <1>15 DEF Next, ParentNext

LEMMA DomainsStep == Domains /\ Control /\ [Next]_vars => Domains'
<1> SUFFICES ASSUME Domains, Control, [Next]_vars PROVE Domains'
  OBVIOUS
<1> USE RunAssumption DEF Domains, io
<1>1. CASE SetupStep
  <2>1. step' \in 1 .. 8
    BY <1>1 DEF SetupStep, Control, BeforeLoop
  <2>2. /\ open' \subseteq {"efd", "in_pipe[0]", "in_pipe[1]", "timeout_fd"}
        /\ watched' \subseteq {"input", "timeout"}
    BY <1>1, SetupFacts DEF SetupStep
  <2>3. timer' \in {"off", "running", "expired"}
    BY <1>1 DEF SetupStep
  <2>4. pc' \in {"setup", "fork"}
    BY <1>1 DEF SetupStep
  <2>5. QED
    BY <1>1, <2>1, <2>2, <2>3, <2>4 DEF SetupStep
<1>2. CASE SetupFails
  BY <1>2 DEF SetupFails, CloseAll
<1>3. CASE Fork
  BY <1>3 DEF Fork
<1>4. CASE EpollWait
  BY <1>4 DEF EpollWait, Ready
<1>5. CASE EpollTimeout
  BY <1>5 DEF EpollTimeout, vars
<1>6. CASE InputHandler
  <2>1. left' \in 0 .. InputLen /\ pipe' \in 0 .. PipeSize
    <3>1. CASE InputDone
      BY <1>6, <3>1 DEF InputHandler
    <3>2. CASE ~InputDone
      <4>1. PICK res \in 0 .. left : /\ pipe + res <= PipeSize
                                    /\ left' = left - res /\ pipe' = pipe + res
        BY <1>6, <3>2 DEF InputHandler
      <4>2. left \in 0 .. InputLen /\ pipe \in 0 .. PipeSize /\ InputLen \in Nat /\ PipeSize \in Nat
        OBVIOUS
      <4>3. QED
        BY ONLY <4>1, <4>2
    <3>3. QED
      BY <3>1, <3>2
  <2>2. /\ open' \subseteq {"efd", "in_pipe[0]", "in_pipe[1]", "timeout_fd"}
        /\ watched' \subseteq {"input", "timeout"}
    BY <1>6 DEF InputHandler
  <2>3. QED
    BY <1>6, <2>1, <2>2 DEF InputHandler
<1>7. CASE TimeoutHandler
  BY <1>7 DEF TimeoutHandler
<1>8. CASE Reap
  <2>1. code' \in Codes \cup {-1, TIMED_OUT, SIGNALLED, 0}
    <3>1. CASE child = "zombie"
      BY <1>8, <3>1, StatusFacts DEF Reap, Control, InLoop
    <3>2. CASE child # "zombie"
      BY <1>8, <3>2 DEF Reap
    <3>3. QED
      BY <3>1, <3>2
  <2>2. child' \in {"fork failed", "running", "zombie", "reaped"} /\ pc' \in {"kill", "wait"}
    BY <1>8 DEF Reap
  <2>3. QED
    BY <1>8, <2>1, <2>2 DEF Reap
<1>9. CASE Kill
  BY <1>9 DEF Kill
<1>10. CASE Returned
  BY <1>10 DEF Returned, vars
<1>11. CASE TimerExpires
  BY <1>11 DEF TimerExpires
<1>12. CASE ChildReads
  BY <1>12 DEF ChildReads
<1>13. CASE ChildReadsEof
  BY <1>13 DEF ChildReadsEof
<1>14. CASE ChildEnds
  BY <1>14 DEF ChildEnds
<1>15. CASE UNCHANGED vars
  BY <1>15 DEF vars
<1>16. QED
  BY <1>1, <1>2, <1>3, <1>4, <1>5, <1>6, <1>7, <1>8, <1>9, <1>10, <1>11, <1>12, <1>13, <1>14, <1>15 DEF Next, ParentNext

LEMMA ControlStep == Domains /\ Control /\ [Next]_vars => Control'
<1> SUFFICES ASSUME Domains, Control, [Next]_vars PROVE Control'
  OBVIOUS
<1> USE RunAssumption DEF Domains, Control, BeforeLoop, InLoop, AfterLoop, CodeTellsWhy,
        InputKept, EofAfterAllInput, NoneOutlivesRun, Forked, io
<1>1. CASE SetupStep
  BY <1>1, SetupFacts DEF SetupStep
<1>2. CASE SetupFails
  BY <1>2 DEF SetupFails, CloseAll
<1>3. CASE Fork
  <2>1. BeforeLoop' /\ AfterLoop'
    BY <1>3 DEF Fork
  <2>2. InLoop'
    BY <1>3 DEF Fork
  <2>3. CodeTellsWhy'
    BY <1>3 DEF Fork
  <2>4. InputKept' /\ NoneOutlivesRun'
    <3>1. "in_pipe[1]" \in open
      <4>1. pc = "fork"
        BY <1>3 DEF Fork
      <4>2. step = 8 /\ (step > 4 => "in_pipe[1]" \in open)
        BY <4>1, Zenon
      <4>3. QED
        BY ONLY <4>2
    <3>2. pc' = "wait" /\ open' = open
      BY <1>3 DEF Fork
    <3>3. QED
      BY ONLY <3>1, <3>2 DEF InputKept, NoneOutlivesRun
  <2>5. EofAfterAllInput' /\ (sawEof => child # "none")'
    BY <1>3 DEF Fork
  <2>6. QED
    BY <2>1, <2>2, <2>3, <2>4, <2>5
<1>4. CASE EpollWait
  BY <1>4 DEF EpollWait, Ready
<1>5. CASE EpollTimeout
  BY <1>5 DEF EpollTimeout, vars
<1>6. CASE InputHandler
  BY <1>6 DEF InputHandler, InputDone
<1>7. CASE TimeoutHandler
  BY <1>7 DEF TimeoutHandler
<1>8. CASE Reap
  <2>1. CASE child = "running"
    <3>1. BeforeLoop' /\ AfterLoop'
      BY <1>8, <2>1 DEF Reap, TIMED_OUT
    <3>2. InLoop'
      BY <1>8, <2>1 DEF Reap
    <3>3. CodeTellsWhy'
      BY <1>8, <2>1 DEF Reap
    <3>4. InputKept' /\ EofAfterAllInput' /\ NoneOutlivesRun' /\ (sawEof => child # "none")'
      BY <1>8, <2>1 DEF Reap
    <3>5. QED
      BY <3>1, <3>2, <3>3, <3>4
  <2>2. CASE child = "zombie"
    <3>1. status \in WaitStatuses
      BY <1>8, <2>2 DEF Reap
    <3>2. code' \in Codes \cup {SIGNALLED} /\ code' # -1
      BY <1>8, <2>2, <3>1, StatusFacts, CodeFacts DEF Reap
    <3>3. CodeTellsWhy'
      BY <1>8, <2>2, <3>1, StatusFacts DEF Reap
    <3>4. QED
      BY <1>8, <2>2, <3>2, <3>3 DEF Reap
  <2>3. CASE child = "fork failed"
    BY <1>8, <2>3, CodeFacts DEF Reap
  <2>4. QED
    BY <1>8, <2>1, <2>2, <2>3 DEF Reap
<1>9. CASE Kill
  BY <1>9, CodeFacts DEF Kill
<1>10. CASE Returned
  BY <1>10 DEF Returned, vars
<1>11. CASE TimerExpires
  BY <1>11 DEF TimerExpires
<1>12. CASE ChildReads
  BY <1>12 DEF ChildReads
<1>13. CASE ChildReadsEof
  BY <1>13 DEF ChildReadsEof
<1>14. CASE ChildEnds
  BY <1>14 DEF ChildEnds
<1>15. CASE UNCHANGED vars
  <2>1. BeforeLoop' /\ AfterLoop'
    BY <1>15 DEF vars
  <2>2. InLoop'
    BY <1>15 DEF vars
  <2>3. CodeTellsWhy'
    BY <1>15 DEF vars
  <2>4. InputKept' /\ EofAfterAllInput' /\ NoneOutlivesRun' /\ (sawEof => child # "none")'
    BY <1>15 DEF vars
  <2>5. QED
    BY <2>1, <2>2, <2>3, <2>4
<1>16. QED
  BY <1>1, <1>2, <1>3, <1>4, <1>5, <1>6, <1>7, <1>8, <1>9, <1>10, <1>11, <1>12, <1>13, <1>14, <1>15 DEF Next, ParentNext

(* The inductive invariant of run(). *)
THEOREM RunInvariant == Spec => []RunInv
<1>1. RunInv /\ [Next]_vars => RunInv'
  <2>1. (TypeOK <=> Domains /\ Flags)'
    BY TypeParts, PTL
  <2>2. QED
    BY <2>1, TypeParts, FlagsStep, DomainsStep, ControlStep DEF RunInv
<1>2. QED
  BY InitRun, <1>1, PTL DEF Spec

(* Type correctness, for every value of the constants. *)
THEOREM RunTypes == Spec => []TypeOK
  BY RunInvariant, PTL DEF RunInv

(* A run that cannot be set up closes all it has opened (lines 118-134). *)
THEOREM RunFailureReleasesAll == Spec => []FailureReleasesAll
<1>1. RunInv => FailureReleasesAll
  <2>1. SUFFICES ASSUME RunInv, code = -1 PROVE open = {} /\ child = "none" /\ watched = {}
    BY DEF FailureReleasesAll
  <2>2. pc \in {"kill", "done"}
    <3>1. pc \notin {"setup", "fork"}
      BY <2>1 DEF RunInv, Control, BeforeLoop
    <3>2. pc \notin {"wait", "handle", "reap"}
      BY <2>1 DEF RunInv, Control, InLoop, TIMED_OUT
    <3>3. QED
      <4>1. Domains
        BY <2>1, TypeParts DEF RunInv
      <4>2. QED
        BY <3>1, <3>2, <4>1 DEF Domains
  <2>3. QED
    BY <2>1, <2>2 DEF RunInv, Control, AfterLoop
<1>2. QED
  BY RunInvariant, <1>1, PTL

(* The code returned is the command's own if it was waited for, and otherwise
   the timer's (lines 59 and 158-164). *)
THEOREM RunCodeTellsWhy == Spec => []CodeTellsWhy
  BY RunInvariant, PTL DEF RunInv, Control

(* The command reads all its input before the end of it (lines 37-53). *)
THEOREM RunEofAfterAllInput == Spec => []EofAfterAllInput
  BY RunInvariant, PTL DEF RunInv, Control

(* The command is dead when run returns (line 167). *)
THEOREM RunNoneOutlives == Spec => []NoneOutlivesRun
  BY RunInvariant, PTL DEF RunInv, Control

(* A result of -2 means that the last waitpid found the command running: of the
   actions only Reap enters "kill", and a status it has read is never -2. *)
THEOREM RunEndedIsNotTimedOut == Spec => EndedIsNotTimedOut
<1>1. ASSUME RunInv, [Next]_vars, pc # "kill", pc' = "kill", code' = TIMED_OUT
      PROVE  child = "running"
  <2>1. CASE Reap
    <3>1. ASSUME child = "zombie" PROVE code' # TIMED_OUT
      <4>1. code' = ReturnCode(status)
        BY <2>1, <3>1 DEF Reap
      <4>2. status \in WaitStatuses
        BY <1>1, <2>1, <3>1 DEF Reap, RunInv, Control, InLoop
      <4>3. QED
        BY <4>1, <4>2, StatusFacts, CodeFacts
    <3>2. ASSUME child = "fork failed" PROVE code' # TIMED_OUT
      BY <2>1, <3>2, CodeFacts DEF Reap
    <3>3. QED
      BY <1>1, <2>1, <3>1, <3>2 DEF Reap
  <2>2. CASE ~Reap
    BY <1>1, <2>2 DEF Next, ParentNext, SetupStep, SetupFails, Fork, EpollWait, EpollTimeout,
       InputHandler, TimeoutHandler, Kill, Returned, TimerExpires, ChildReads, ChildReadsEof,
       ChildEnds, vars
  <2>3. QED
    BY <2>1, <2>2
<1>2. QED
  BY RunInvariant, <1>1, PTL DEF Spec, EndedIsNotTimedOut
=============================================================================
