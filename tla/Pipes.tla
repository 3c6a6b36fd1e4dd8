------------------------------- MODULE Pipes -------------------------------
(***************************************************************************)
(* apps/sem17: four programs whose main starts one or two children around  *)
(* pipes.  main is a list of steps; what it and the children leave open    *)
(* decides who meets an end of file, who a SIGPIPE, and who waits for      *)
(* ever.  Only the number of bytes in a pipe is kept.                      *)
(***************************************************************************)
EXTENDS Integers, Sequences

CONSTANTS PipeSize,     \* what a pipe holds
          MaxWrites     \* bound: what a command of the pipeline writes

ASSUME SizeAssumption == PipeSize \in Nat \ {0} /\ MaxWrites \in Nat

Child == {"one", "two"}
Process == {"main"} \cup Child
Pipe == {"a", "b"}
R(p) == <<p, "read">>
W(p) == <<p, "write">>

(* main's steps, a pair of an operation and its operand. *)
Close(ends) == <<"close", ends>>
ForkStep(c) == <<"fork", c>>
WaitStep(c) == <<"wait", c>>

(* Mutant of Pipeline: main keeps its write end. *)
PipelineKeepsEnd == << ForkStep("one"), ForkStep("two"), Close({R("a")}),
                       WaitStep("one"), WaitStep("two") >>

(* task17_1.c: cmd1 | cmd2.  cmd1 inherits the read end with the write end. *)
Pipeline == << ForkStep("one"), Close({W("a")}), ForkStep("two"), Close({R("a")}),
               WaitStep("one"), WaitStep("two") >>

(* task17_4.c: child one writes to pipe a, child two to pipe b. *)
PingPong == << ForkStep("one"), ForkStep("two"), Close({R("a"), W("a"), R("b"), W("b")}),
               WaitStep("two"), WaitStep("one") >>

(* Mutant of SigpipePoc: the child that has been killed is not waited for. *)
SigpipePocNoWait == << ForkStep("one"), Close({R("a")}), <<"kill", "one">>,
                       <<"write", "a">>, <<"raise", "SIGSEGV">> >>

(* signals.c: the reader is killed before something is written to it. *)
SigpipePoc == << ForkStep("one"), Close({R("a")}), <<"kill", "one">>, WaitStep("one"),
                 <<"write", "a">>, <<"raise", "SIGSEGV">> >>

(* main.c: the status of one command. *)
ExecTest == << ForkStep("one"), WaitStep("one") >>

Script == [pipeline |-> Pipeline, pingpong |-> PingPong,
           sigpipe |-> SigpipePoc, exec |-> ExecTest]

VARIABLES program, step,    \* the program, and main's position in its script
          pc,               \* pc[c]: what child c does
          how,              \* how[c]: how child c ended
          open,             \* open[q]: the pipe ends process q holds
          unread,           \* unread[p]: bytes in pipe p
          wrote,            \* what the first command of the pipeline has written
          reaped,           \* children main has waited for
          handled           \* on_sigpipe has run

vars == <<program, step, pc, how, open, unread, wrote, reaped, handled>>

PipesOf(prog) == {p \in Pipe : \/ prog = "pingpong"
                              \/ /\ prog \in {"pipeline", "sigpipe"}
                                 /\ p = "a"}

Init == /\ program \in DOMAIN Script
        /\ step = 1
        /\ pc = [c \in Child |-> "none"]
        /\ how = [c \in Child |-> "none"]
        /\ open = [q \in Process |-> IF q = "main" THEN PipesOf(program) \X {"read", "write"}
                                                   ELSE {}]
        /\ unread = [p \in Pipe |-> 0]
        /\ wrote = 0 /\ reaped = {} /\ handled = FALSE

HasEnd(e) == \E q \in Process : e \in open[q]
AtEof(p) == unread[p] = 0 /\ ~HasEnd(W(p))

At(op, operand) == /\ step <= Len(Script[program])
                   /\ Script[program][step] = <<op, operand>>
Advance == step' = step + 1 /\ UNCHANGED program

Ends(c, reason) == /\ pc' = [pc EXCEPT ![c] = "ended"]
                   /\ how' = [how EXCEPT ![c] = reason]
                   /\ open' = [open EXCEPT ![c] = {}]

(* A fork that fails returns -1 and leaves no child; ExecTest exits then. *)
Fork(c) ==
    /\ At("fork", c)
    /\ \/ /\ Advance
          /\ pc' = [pc EXCEPT ![c] = "setup"]
          /\ open' = [open EXCEPT ![c] = open["main"]]
       \/ /\ IF program = "exec" THEN step' = Len(Script[program]) + 1 ELSE step' = step + 1
          /\ UNCHANGED <<program, pc, open>>
    /\ UNCHANGED <<how, unread, wrote, reaped, handled>>

CloseEnds == \E ends \in SUBSET (Pipe \X {"read", "write"}) :
    /\ At("close", ends)
    /\ Advance
    /\ open' = [open EXCEPT !["main"] = @ \ ends]
    /\ UNCHANGED <<pc, how, unread, wrote, reaped, handled>>

Unreaped == {c \in Child : pc[c] # "none"} \ reaped

(* After a failed fork this is waitpid(-1), which takes any child; without a
   child to wait for it returns at once. *)
WaitPid(c) ==
    /\ At("wait", c)
    /\ LET waited == IF pc[c] = "none" THEN Unreaped ELSE Unreaped \cap {c}
       IN  \/ waited = {} /\ UNCHANGED reaped
           \/ \E d \in waited : pc[d] = "ended" /\ reaped' = reaped \cup {d}
    /\ Advance
    /\ UNCHANGED <<pc, how, open, unread, wrote, handled>>

(* The signal takes effect when it is delivered.  kill(-1) after a failed fork
   reaches no process of the program. *)
KillChild(c) == /\ At("kill", c)
                /\ Advance
                /\ pc' = [pc EXCEPT ![c] = IF @ \in {"none", "ended"} THEN @ ELSE "killed"]
                /\ UNCHANGED <<how, open, unread, wrote, reaped, handled>>

(* With on_sigpipe installed a write without a reader runs it and returns. *)
WriteHandled(p) == /\ At("write", p)
                   /\ Advance
                   /\ IF HasEnd(R(p)) THEN /\ unread[p] < PipeSize
                                           /\ unread' = [unread EXCEPT ![p] = @ + 1]
                                           /\ UNCHANGED handled
                                      ELSE handled' = TRUE /\ UNCHANGED unread
                   /\ UNCHANGED <<pc, how, open, wrote, reaped>>

Raise == /\ At("raise", "SIGSEGV")
         /\ Advance
         /\ UNCHANGED <<pc, how, open, unread, wrote, reaped, handled>>

MainNext == CloseEnds \/ Raise \/ WriteHandled("a")
            \/ \E c \in Child : Fork(c) \/ WaitPid(c) \/ KillChild(c)
-----------------------------------------------------------------------------
Idle == UNCHANGED <<program, step, reaped, handled>>

Goto(c, from, to) == pc[c] = from /\ pc' = [pc EXCEPT ![c] = to]

(* Without a handler a write without a reader ends the writer. *)
WriteOrDie(c, from, p, to) ==
    /\ pc[c] = from
    /\ \/ /\ HasEnd(R(p)) /\ unread[p] < PipeSize
          /\ Goto(c, from, to)
          /\ unread' = [unread EXCEPT ![p] = @ + 1]
          /\ UNCHANGED <<how, open>>
       \/ ~HasEnd(R(p)) /\ Ends(c, "sigpipe") /\ UNCHANGED unread
    /\ Idle

Deliver(c) == /\ pc[c] = "killed" /\ Ends(c, "killed")
              /\ Idle /\ UNCHANGED <<unread, wrote>>

(* exec_wrapper: the ends are moved to 0 and 1 and kept; execlp may fail. *)
Exec(c) == /\ program # "pingpong" /\ pc[c] = "setup"
           /\ \/ Goto(c, "setup", "runs") /\ UNCHANGED <<how, open>>
              \/ Ends(c, "no exec")
           /\ Idle /\ UNCHANGED <<unread, wrote>>

(* The commands: the first of a pipeline writes and ends at will, the second
   reads to the end or quits before; the one of main.c just ends; cat waits. *)
CommandWrites == /\ program = "pipeline" /\ wrote < MaxWrites
                 /\ Goto("one", "runs", "writes")
                 /\ wrote' = wrote + 1
                 /\ Idle /\ UNCHANGED <<how, open, unread>>

CommandWrote == /\ program = "pipeline"
                /\ WriteOrDie("one", "writes", "a", "runs")
                /\ UNCHANGED wrote

CommandEnds == /\ program \in {"pipeline", "exec"} /\ pc["one"] = "runs"
               /\ Ends("one", "exit")
               /\ Idle /\ UNCHANGED <<unread, wrote>>

CommandReads == /\ program = "pipeline" /\ pc["two"] = "runs"
                /\ \/ /\ unread["a"] > 0
                      /\ unread' = [unread EXCEPT !["a"] = @ - 1]
                      /\ UNCHANGED <<pc, how, open>>
                   \/ AtEof("a") /\ Ends("two", "eof") /\ UNCHANGED unread
                /\ Idle /\ UNCHANGED wrote

(* It may also be killed, or quit, without reading on. *)
CommandQuits == /\ program = "pipeline" /\ pc["two"] = "runs"
                /\ Ends("two", "quit")
                /\ Idle /\ UNCHANGED <<unread, wrote>>

In(c) == IF c = "one" THEN "b" ELSE "a"
Out(c) == IF c = "one" THEN "a" ELSE "b"

(* Mutant of Enter: both start the exchange. *)
EnterBothKick(c) == /\ program = "pingpong"
                    /\ Goto(c, "setup", "kick")
                    /\ open' = [open EXCEPT ![c] = @ \ {W(In(c)), R(Out(c))}]
                    /\ Idle /\ UNCHANGED <<how, unread, wrote>>

(* ping_pong closes the two ends it does not use. *)
Enter(c) == /\ program = "pingpong"
            /\ Goto(c, "setup", IF c = "two" THEN "kick" ELSE "scan")
            /\ open' = [open EXCEPT ![c] = @ \ {W(In(c)), R(Out(c))}]
            /\ Idle /\ UNCHANGED <<how, unread, wrote>>

(* Child two starts the exchange. *)
Kick(c) == WriteOrDie(c, "kick", Out(c), "scan") /\ UNCHANGED wrote

(* A number makes the player exit; at the end of file it goes on. *)
Scan(c) == /\ pc[c] = "scan"
           /\ \/ /\ unread[In(c)] > 0
                 /\ unread' = [unread EXCEPT ![In(c)] = @ - 1]
                 /\ Ends(c, "number")
              \/ AtEof(In(c)) /\ Goto(c, "scan", "answer") /\ UNCHANGED <<how, open, unread>>
           /\ Idle /\ UNCHANGED wrote

(* n is what the stack holds: max_n or another number. *)
Answer(c) == /\ pc[c] = "answer"
             /\ \/ Ends(c, "max") /\ UNCHANGED unread /\ Idle
                \/ WriteOrDie(c, "answer", Out(c), "scan")
             /\ UNCHANGED wrote

ChildNext(c) == Deliver(c) \/ Exec(c) \/ Enter(c) \/ Kick(c) \/ Scan(c) \/ Answer(c)
CommandNext == CommandWrites \/ CommandWrote \/ CommandEnds

Next == MainNext \/ CommandNext \/ CommandReads \/ CommandQuits \/ \E c \in Child : ChildNext(c)

Spec == Init /\ [][Next]_vars

(* Every process is scheduled; no command has to quit. *)
FairSpec == /\ Spec /\ WF_vars(MainNext)
            /\ WF_vars(CommandNext) /\ WF_vars(CommandReads)
            /\ \A c \in Child : WF_vars(ChildNext(c))
-----------------------------------------------------------------------------
Done == step > Len(Script[program])

(* signals.c: main is alive after its write because the handler has run: the
   reader was gone when it wrote (lines 41-46). *)
AliveAfterSigpipe == program = "sigpipe" /\ At("raise", "SIGSEGV") => handled

(* task17_4.c: the players take turns, whatever each makes of what it reads: there
   is one number, on its way in a pipe or with the one player that writes it, so
   neither finds the pipe full or prints out of turn (lines 23-40). *)
OneNumber ==
    LET writers == {c \in Child : pc[c] \in {"kick", "answer"}}
    IN  (program = "pingpong" /\ \A c \in Child : pc[c] # "none") =>
            /\ \A c, d \in writers : c = d
            /\ unread["a"] + unread["b"] <= 1
            /\ writers # {} => unread["a"] + unread["b"] = 0

(* main gets past its waits whatever forks fail, with no child left; except that
   cmd1 of a pipeline, which holds a read end itself, waits for ever on a full
   pipe when cmd2 was not started or quits before the end (task17_1.c:33). *)
MainEnds == <>(\/ Done /\ \A c \in Child : pc[c] \in {"none", "ended"}
               \/ /\ program = "pipeline" /\ pc["one"] # "none"
                  /\ \/ how["two"] \in {"quit", "no exec"}
                     \/ step > 3 /\ pc["two"] = "none")
=============================================================================
