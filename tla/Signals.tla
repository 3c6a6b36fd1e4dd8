------------------------------ MODULE Signals ------------------------------
(***************************************************************************)
(* apps/sem18/main.c: five experiments with signals.  The kernel keeps a   *)
(* mask and a set of pending signals, of which it runs the handlers of     *)
(* those that are not blocked before the program goes on; a signal that    *)
(* is pending already is not pending twice.  main runs the experiment      *)
(* "mask"; the others are run by calling them there.                       *)
(***************************************************************************)
EXTENDS Integers, Sequences

CONSTANT MaxSent        \* bound: signals that another process sends

ASSUME MaxSentAssumption == MaxSent \in Nat

Signal == {"USR1", "USR2"}

(* Mutant of BlockedInHandler: without `emulate ~SA_NODEFER`. *)
BlockedNodefer == [recursion |-> [s \in Signal |-> {s}], restart |-> [s \in Signal |-> {s}],
                   recursive |-> [s \in Signal |-> {}], defer |-> [s \in Signal |-> {}],
                   mask |-> [s \in Signal |-> {s}]]

(* sa_flags and sa_mask of the handlers: what a handler runs with blocked. *)
BlockedInHandler == [recursion |-> [s \in Signal |-> {s}],
                     restart   |-> [s \in Signal |-> {s}],
                     recursive |-> [s \in Signal |-> {"USR1"}],   \* SA_NODEFER, but in sa_mask
                     defer     |-> [s \in Signal |-> {}],         \* SA_NODEFER
                     mask      |-> [s \in Signal |-> {s}]]

VARIABLES test,         \* the experiment
          at,           \* where its function is
          mask, pending,
          frames,       \* the handlers that run, the innermost last
          sawPending,   \* the set sigpending has filled has SIGUSR1
          flag,         \* defer_flag
          sent,         \* signals sent from outside
          delivered     \* handlers begun, counted up to two

svars == <<test, at, mask, pending, frames, sawPending, flag, sent, delivered>>

SInit == /\ test \in DOMAIN BlockedInHandler
         /\ at = "start" /\ mask = {} /\ pending = {} /\ frames = <<>>
         /\ sawPending = FALSE /\ flag = 0 /\ sent = 0 /\ delivered = 0

(* Only the signals of the experiment: another would end the process. *)
Handled == IF test = "recursion" THEN Signal ELSE {"USR1"}

Send(s) == /\ sent < MaxSent /\ at # "start" /\ s \in Handled
           /\ pending' = pending \cup {s} /\ sent' = sent + 1
           /\ UNCHANGED <<test, at, mask, frames, sawPending, flag, delivered>>

(* The mask is put back when the handler returns: the one before sigsuspend if
   it runs inside that. *)
Deliver(s) == /\ s \in pending \ mask
              /\ pending' = pending \ {s}
              /\ frames' = Append(frames, [sig |-> s, do |-> "run", saved |-> IF at = "suspended" THEN Signal ELSE mask])
              /\ mask' = mask \cup BlockedInHandler[test][s]
              /\ delivered' = IF delivered < 2 THEN delivered + 1 ELSE 2
              /\ UNCHANGED <<test, at, sawPending, flag, sent>>

Runs == pending \subseteq mask
MainRuns == Runs /\ frames = <<>>
Top == frames[Len(frames)]
HandlerRuns(what) == Runs /\ frames # <<>> /\ Top.do = what
Do(what) == frames' = [frames EXCEPT ![Len(frames)].do = what]

(* What the handlers of the experiments do first: raise the other signal, or the
   same, or nothing; defer_handler sleeps if the flag is not set. *)
HandlerBegins ==
    /\ HandlerRuns("run")
    /\ pending' = pending \cup
         {s \in Signal : (test = "recursion" /\ s # Top.sig) \/ (test = "recursive" /\ s = Top.sig)}
    /\ Do(IF test = "defer" /\ flag = 0 THEN "sleep" ELSE "return")
    /\ UNCHANGED <<test, at, mask, sawPending, flag, sent, delivered>>

DeferWakes == /\ HandlerRuns("sleep")
              /\ flag' = 1
              /\ pending' = pending \cup {"USR1"} /\ Do("raise again")
              /\ UNCHANGED <<test, at, mask, sawPending, sent, delivered>>

DeferRaisesAgain == /\ HandlerRuns("raise again")
                    /\ pending' = pending \cup {"USR1"} /\ Do("return")
                    /\ UNCHANGED <<test, at, mask, sawPending, flag, sent, delivered>>

HandlerReturns ==
    /\ HandlerRuns("return")
    /\ mask' = Top.saved
    /\ frames' = SubSeq(frames, 1, Len(frames) - 1)
    /\ at' = IF frames' = <<>> /\ at = "suspended" THEN "finish" ELSE at
    /\ UNCHANGED <<test, pending, sawPending, flag, sent, delivered>>

MainGoto(from, to) == MainRuns /\ at = from /\ at' = to

(* Installs the handlers; recursion and recursive raise a signal, defer sleeps
   and restart reads; mask blocks all signals first.  signal_recursion_test would
   raise again a second later, but the first raise does not return to it. *)
Begin == /\ MainGoto("start", IF test = "mask" THEN "poll" ELSE "loop")
         /\ mask' = IF test = "mask" THEN Signal ELSE {}
         /\ pending' = pending \cup (IF test \in {"recursion", "recursive"} THEN {"USR1"} ELSE {})
         /\ UNCHANGED <<test, frames, sawPending, flag, sent, delivered>>

(* With SA_RESTART a handler does not end the read: input does. *)
ReadCompletes == /\ test = "restart" /\ MainGoto("loop", "finish")
                 /\ UNCHANGED <<test, mask, pending, frames, sawPending, flag, sent, delivered>>

Poll == /\ test = "mask" /\ MainGoto("poll", "test")
        /\ sawPending' = ("USR1" \in pending)
        /\ UNCHANGED <<test, mask, pending, frames, flag, sent, delivered>>

(* A second later the set of that moment is tested. *)
TestPending == /\ MainGoto("test", IF sawPending THEN "unblocked" ELSE "poll")
               /\ mask' = IF sawPending THEN {} ELSE mask
               /\ UNCHANGED <<test, pending, frames, sawPending, flag, sent, delivered>>

BlockAgain == /\ MainGoto("unblocked", "suspend")
              /\ mask' = Signal
              /\ UNCHANGED <<test, pending, frames, sawPending, flag, sent, delivered>>

(* sigsuspend waits with all but USR1 blocked; a signal that is pending ends it
   at once. *)
Suspend == /\ MainGoto("suspend", "suspended")
           /\ mask' = Signal \ {"USR1"}
           /\ UNCHANGED <<test, pending, frames, sawPending, flag, sent, delivered>>

SNext == \/ \E s \in Signal : Send(s) \/ Deliver(s)
         \/ HandlerBegins \/ DeferWakes \/ DeferRaisesAgain \/ HandlerReturns
         \/ Begin \/ ReadCompletes
         \/ Poll \/ TestPending \/ BlockAgain \/ Suspend

SSpec == SInit /\ [][SNext]_svars
-----------------------------------------------------------------------------
(* Handlers nest as deep as what they run with blocked lets them: two of
   signal_recursion_test, one where the signal blocks itself, and no more of
   defer_handler than signals were sent, plus the one it raises itself. *)
NestingBounded ==
    Len(frames) <= IF test = "recursion" THEN 2 ELSE IF test = "defer" THEN sent + 1 ELSE 1

(* sig_mask_tests finishes only after two deliveries, the one at the unblocking
   and one inside sigsuspend, however many signals have merged (lines 113-124). *)
FinishAfterTwo == test = "mask" /\ at = "finish" => delivered = 2 /\ sent >= 2

(* Both. *)
HandlersContained == NestingBounded /\ FinishAfterTwo
=============================================================================
