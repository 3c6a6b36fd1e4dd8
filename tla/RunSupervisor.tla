--------------------------- MODULE RunSupervisor ---------------------------
(***************************************************************************)
(* run() of apps/sem21/task20_5.c: start a command, feed it `input`        *)
(* through a pipe and wait for it at most `timeout` ms, with one epoll     *)
(* loop over the write end of the pipe and a timerfd.  The child, the      *)
(* timer and the loop run side by side; waitpid is asked only after an     *)
(* event has been handled.                                                 *)
(***************************************************************************)
EXTENDS Integers, Sequences

CONSTANTS Timeouts,     \* the int a caller may pass
          NsPerMs, NsPerSec,   \* 10^6 and 10^9 in the code
          IntMod,       \* 2^32: the width of the int product in line 85
          InputLen,     \* length of `input`
          PipeSize,     \* what the pipe holds
          Codes,        \* exit codes of the command, and 1 when exec fails
          Signals       \* signals that may end it

ASSUME RunAssumption == /\ Timeouts \subseteq Int
                        /\ {NsPerMs, NsPerSec, InputLen} \subseteq Nat
                        /\ IntMod \in Nat \ {0} /\ PipeSize \in Nat \ {0}
                        /\ Codes \subseteq 0 .. 255 /\ Signals \subseteq 1 .. 127

TIMED_OUT == -2
SIGNALLED == -3
SIGKILL == 9

(* What waitpid stores: an exit code in the second byte, or a signal. *)
WaitStatuses == {c * 256 : c \in Codes} \cup Signals

VARIABLES timeout,      \* the argument
          pc, step,     \* where run() is; the setup call it makes next
          open,         \* the descriptors run() holds
          watched,      \* the handlers registered with epoll
          handler,      \* the handler the last event was for
          timer,        \* off, running, or expired and not yet read
          left, pipe,   \* bytes of input not written; written and not yet read
          finished, code,      \* ctx.is_finished, ctx.return_code
          child, status,       \* the child, and how it ended
          sawEof        \* the child has read the end of its standard input

io == <<left, pipe, sawEof>>
vars == <<timeout, pc, step, open, watched, handler, timer, io, finished, code, child, status>>

Init == /\ timeout \in Timeouts
        /\ pc = "setup" /\ step = 1
        /\ open = {} /\ watched = {} /\ handler = "input"
        /\ timer = "off"
        /\ left = InputLen /\ pipe = 0 /\ sawEof = FALSE
        /\ finished = FALSE /\ code = 0
        /\ child = "none" /\ status = 0
-----------------------------------------------------------------------------
SetupCalls == <<"epoll_create", "timerfd_create", "timerfd_settime", "pipe2", "run_unblock",
                "add input", "add timeout">>

Opens(call) == CASE call = "epoll_create" -> {"efd"}
                 [] call = "timerfd_create" -> {"timeout_fd"}
                 [] call = "pipe2" -> {"in_pipe[0]", "in_pipe[1]"}
                 [] OTHER -> {}

(* Mutant of Watches: the timer is never added to epoll. *)
WatchesInputOnly(call) == IF call = "add input" THEN {"input"} ELSE {}

Watches(call) == CASE call = "add input" -> {"input"}
                   [] call = "add timeout" -> {"timeout"}
                   [] OTHER -> {}

(* timeout * 1000000 is an int and wraps; timerfd_settime takes it as tv_nsec,
   rejects what is not below a second, and disarms the timer for 0. *)
Nsec(ms) == ((ms * NsPerMs + IntMod \div 2) % IntMod) - IntMod \div 2
CanSucceed(call) == call = "timerfd_settime" => Nsec(timeout) \in 0 .. NsPerSec - 1

SetupStep == /\ pc = "setup"
             /\ LET call == SetupCalls[step]
                IN  /\ CanSucceed(call)
                    /\ open' = open \cup Opens(call)
                    /\ watched' = watched \cup Watches(call)
                    /\ timer' = IF call = "timerfd_settime" /\ Nsec(timeout) > 0 THEN "running" ELSE timer
             /\ step' = step + 1
             /\ pc' = IF step = Len(SetupCalls) THEN "fork" ELSE "setup"
             /\ UNCHANGED <<timeout, handler, io, finished, code, child, status>>

(* Mutant of CloseAll: the timer's descriptor is forgotten. *)
CloseAllButTimer(fds) == fds \ {"efd", "in_pipe[0]", "in_pipe[1]"}

(* The clean-up of lines 118-134 looks at each descriptor in turn. *)
CloseAll(fds) == fds \ {"efd", "in_pipe[0]", "in_pipe[1]", "timeout_fd"}

(* Any of the calls may fail; then everything open is closed and run gives -1. *)
SetupFails == /\ pc = "setup"
              /\ SetupCalls[step] = "timerfd_settime" => ~CanSucceed("timerfd_settime")
              /\ open' = CloseAll(open)
              /\ watched' = {}
              /\ code' = -1
              /\ pc' = "done"
              /\ UNCHANGED <<timeout, step, handler, timer, io, finished, child, status>>

(* A failed fork is not told from the parent: pid is then -1. *)
Fork == /\ pc = "fork"
        /\ child' \in {"running", "fork failed"}
        /\ pc' = "wait"
        /\ UNCHANGED <<timeout, step, open, watched, handler, timer, io, finished, code, status>>
-----------------------------------------------------------------------------
(* epoll_wait hands out one of the ready handlers.  The pipe has room or it has
   not; its read end stays open in the parent, so it never breaks. *)
Ready == {h \in watched : IF h = "input" THEN pipe < PipeSize ELSE timer = "expired"}

EpollWait == /\ pc = "wait"
             /\ handler' \in Ready
             /\ pc' = "handle"
             /\ UNCHANGED <<timeout, step, open, watched, timer, io, finished, code, child, status>>

(* With nothing ready epoll_wait returns 0 after a millisecond, and `continue`
   skips waitpid. *)
EpollTimeout == pc = "wait" /\ Ready = {} /\ UNCHANGED vars

(* Mutant of InputDone: a byte short. *)
InputAlmostDone == left <= 1

InputDone == left = 0

(* run_input_writer_handler: close at the end of the input, otherwise write what
   fits; a full pipe is EAGAIN. *)
InputHandler == /\ pc = "handle" /\ handler = "input"
                /\ IF InputDone
                   THEN /\ watched' = watched \ {"input"}
                        /\ open' = open \ {"in_pipe[1]"}
                        /\ UNCHANGED io
                   ELSE /\ \E res \in 0 .. left :
                              /\ pipe + res <= PipeSize
                              /\ res = 0 => pipe = PipeSize
                              /\ left' = left - res /\ pipe' = pipe + res
                        /\ UNCHANGED <<watched, open, sawEof>>
                /\ pc' = "reap"
                /\ UNCHANGED <<timeout, step, handler, timer, finished, code, child, status>>

(* Mutant of TimeoutHandler: it leaves the loop at once, without waitpid. *)
TimeoutBreaks == /\ pc = "handle" /\ handler = "timeout"
                 /\ timer' = "running"
                 /\ finished' = TRUE /\ code' = TIMED_OUT
                 /\ pc' = "kill"
                 /\ UNCHANGED <<timeout, step, open, watched, handler, io, child, status>>

(* run_timeout_handler: the read resets the expirations of a periodic timer. *)
TimeoutHandler == /\ pc = "handle" /\ handler = "timeout"
                  /\ timer' = "running"
                  /\ finished' = TRUE /\ code' = TIMED_OUT
                  /\ pc' = "reap"
                  /\ UNCHANGED <<timeout, step, open, watched, handler, io, child, status>>

(* A wait status holds the exit code above the number of the signal. *)
WIFEXITED(raw) == raw % 128 = 0
WEXITSTATUS(raw) == (raw \div 256) % 256

(* Mutant of ReturnCode: WEXITSTATUS of a signalled child. *)
ReturnUnchecked(raw) == WEXITSTATUS(raw)

ReturnCode(raw) == IF WIFEXITED(raw) THEN WEXITSTATUS(raw) ELSE SIGNALLED

(* waitpid(pid, WNOHANG).  For pid = -1 it fails with -1, which equals pid, and
   child_status is whatever the stack holds. *)
Reap == /\ pc = "reap"
        /\ \/ /\ child = "running"
              /\ UNCHANGED <<finished, code, child>>
           \/ /\ child = "zombie"
              /\ finished' = TRUE /\ code' = ReturnCode(status) /\ child' = "reaped"
           \/ /\ child = "fork failed"
              /\ finished' = TRUE /\ code' \in Codes \cup {SIGNALLED}
              /\ UNCHANGED child
        /\ pc' = IF finished' THEN "kill" ELSE "wait"
        /\ UNCHANGED <<timeout, step, open, watched, handler, timer, io, status>>

(* kill(pid, SIGKILL) in every case; nobody waits for the child it ends. *)
Kill == /\ pc = "kill"
        /\ IF child = "running" THEN child' = "zombie" /\ status' = SIGKILL
                                ELSE UNCHANGED <<child, status>>
        /\ pc' = "done"
        /\ UNCHANGED <<timeout, step, open, watched, handler, timer, io, finished, code>>

Returned == pc = "done" /\ UNCHANGED vars
-----------------------------------------------------------------------------
TimerExpires == /\ timer = "running" /\ pc # "done"
                /\ timer' = "expired"
                /\ UNCHANGED <<timeout, pc, step, open, watched, handler, io, finished, code,
                               child, status>>

(* The command reads some of its input, ... *)
ChildReads == /\ child = "running" /\ pipe > 0
              /\ pipe' \in 0 .. pipe - 1
              /\ UNCHANGED <<timeout, pc, step, open, watched, handler, timer, left, sawEof,
                             finished, code, child, status>>

(* ... its end, once the parent has closed the only write end, ... *)
ChildReadsEof == /\ child = "running" /\ pipe = 0 /\ "in_pipe[1]" \notin open
                 /\ sawEof' = TRUE
                 /\ UNCHANGED <<timeout, pc, step, open, watched, handler, timer, left, pipe,
                                finished, code, child, status>>

(* ... and may end at any time, by itself or by a signal. *)
ChildEnds == /\ child = "running"
             /\ child' = "zombie" /\ status' \in WaitStatuses
             /\ UNCHANGED <<timeout, pc, step, open, watched, handler, timer, io, finished, code>>

ParentNext == \/ SetupStep \/ SetupFails \/ Fork \/ EpollWait \/ EpollTimeout
              \/ InputHandler \/ TimeoutHandler \/ Reap \/ Kill

Next == \/ ParentNext \/ Returned \/ TimerExpires
        \/ ChildReads \/ ChildReadsEof \/ ChildEnds

Spec == Init /\ [][Next]_vars

(* run() is scheduled and time passes.  Of the command nothing is assumed. *)
FairSpec == Spec /\ WF_vars(ParentNext) /\ WF_vars(TimerExpires)
-----------------------------------------------------------------------------
Forked == child \in {"running", "zombie", "reaped"}

TypeOK == /\ timeout \in Timeouts
          /\ pc \in {"setup", "fork", "wait", "handle", "reap", "kill", "done"}
          /\ step \in 1 .. Len(SetupCalls) + 1
          /\ open \subseteq {"efd", "in_pipe[0]", "in_pipe[1]", "timeout_fd"}
          /\ watched \subseteq {"input", "timeout"} /\ handler \in {"input", "timeout"}
          /\ timer \in {"off", "running", "expired"}
          /\ left \in 0 .. InputLen /\ pipe \in 0 .. PipeSize /\ sawEof \in BOOLEAN
          /\ finished \in BOOLEAN /\ code \in Codes \cup {-1, TIMED_OUT, SIGNALLED, 0}
          /\ child \in {"none", "fork failed", "running", "zombie", "reaped"}
          /\ status \in WaitStatuses \cup {0, SIGKILL}

(* A run that could not be set up leaves no descriptor behind and starts no
   command, whichever call failed (lines 118-134). *)
FailureReleasesAll == code = -1 => open = {} /\ child = "none" /\ watched = {}

(* What run returns is how the child ended if it was reaped, and otherwise says
   that a timer that was set has run out: the two writers of return_code in one
   turn of the loop never mix (lines 59 and 158-164). *)
CodeTellsWhy == pc \in {"kill", "done"} /\ Forked =>
    IF child # "reaped" THEN code = TIMED_OUT /\ timer # "off"
    ELSE \/ \E c \in Codes : status = c * 256 /\ code = c
         \/ status \in Signals /\ code = SIGNALLED

(* A command that has ended by the time of the last waitpid is never reported as
   timed out, even when the timer event came first (lines 154-165). *)
EndedIsNotTimedOut ==
    [][pc # "kill" /\ pc' = "kill" /\ code' = TIMED_OUT => child = "running"]_vars

(* The command sees the end of its input only after all of it, partial writes
   and a full pipe notwithstanding (lines 37-53). *)
EofAfterAllInput == sawEof => left = 0 /\ pipe = 0

(* No command outlives the run (line 167). *)
NoneOutlivesRun == pc = "done" => child # "running"

SetTimeouts == {ms \in Timeouts : ms # 0 /\ Nsec(ms) = ms * NsPerMs}

(* With a timeout that is not 0 and whose nanoseconds fit an int, run returns,
   whatever the command does or fails to do. *)
Returns == (timeout \in SetTimeouts) ~> (pc = "done")
=============================================================================
