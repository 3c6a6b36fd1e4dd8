-------------------------------- MODULE Shell --------------------------------
(***************************************************************************)
(* apps/sem12/main.c: a shell whose commands are functions, one for each   *)
(* line (process_line, which splits it, is in Routines).  There are a      *)
(* directory "top" with "d" and "f" in it and "d/f" inside "d"; the kernel *)
(* answers as it does an ordinary user.                                    *)
(***************************************************************************)
EXTENDS Integers

CONSTANT MaxFds         \* descriptors the process may open

ASSUME FdsAssumption == MaxFds \in Nat \ {0}

Node == {"d", "f", "d/f"}
Path == Node \cup {".."}

(* MODE_CREATE_DEFAULT is rw-rw-r--; mkdir takes it too. *)
ModeCreateDefault == "rw"

VARIABLES tree,         \* tree[n]: "none", "file", or what the owner of a directory may
          cwd,          \* "top" or the directory the shell is in
          doing,        \* "line", or what the command with a descriptor is at
          fds,          \* descriptors open
          listed,       \* lines that have listed a directory
          result        \* of the last line: "failed" if it ended with perror

files == <<tree, cwd>>
hvars == <<files, doing, fds, listed, result>>

HInit == /\ tree \in [Node -> {"none", "file", "rwx"}]
         /\ tree["d/f"] # "none" => tree["d"] = "rwx" /\ tree["d/f"] = "file"
         /\ cwd = "top" /\ doing = "line" /\ fds = 0 /\ listed = 0 /\ result = "ok"

(* The node a path names from where the shell is, if there is one. *)
Named(p) == {n \in Node : \/ cwd = "top" /\ n = p
                          \/ cwd = "d" /\ p = "f" /\ n = "d/f"}

Searchable(n) == n = "d/f" => tree["d"] = "rwx"
Found(p) == {n \in Named(p) : Searchable(n) /\ tree[n] # "none"}
Vacant(p) == {n \in Named(p) : Searchable(n) /\ tree[n] = "none"}
IsDirectory(n) == tree[n] \in {"rw", "rwx"}
IsEmpty(n) == n = "d" => tree["d/f"] = "none"

(* A line that is done at once, and one that has opened something. *)
Fails == result' = "failed" /\ UNCHANGED <<files, doing, fds, listed>>
Succeeds == result' = "ok" /\ UNCHANGED <<files, doing, fds, listed>>

Open(command) == /\ fds < MaxFds /\ fds' = fds + 1
                 /\ doing' = command
                 /\ UNCHANGED <<listed, result>>

OpenFails(ok) == (fds = MaxFds \/ ~ok) /\ Fails

Close(res) == /\ fds' = fds - 1
              /\ doing' = "line" /\ result' = res
              /\ UNCHANGED <<files, listed>>

(* Empty lines and words that are no command. *)
NotACommand == Succeeds

(* func_echo and func_ls return no value: what the caller sees is undefined. *)
Echo == Succeeds \/ Fails

(* require_path_arg, for all commands but echo and ls. *)
NoPath == Fails

Ls(p) == LET ok == p \in {".", ".."} \/ \E n \in Found(p) : IsDirectory(n)
         IN  \/ ok /\ Open("list") /\ UNCHANGED files
             \/ OpenFails(ok)

(* closedir is not called. *)
LsReturns == /\ doing = "list" /\ doing' = "line"
             /\ listed' = listed + 1 /\ result' \in {"ok", "failed"}
             /\ UNCHANGED <<files, fds>>

(* From "top" the shell does not go up. *)
Cd(p) == \/ /\ p = ".." /\ cwd # "top"
            /\ cwd' = "top" /\ result' = "ok"
            /\ UNCHANGED <<tree, doing, fds, listed>>
         \/ /\ p # ".."
            /\ IF \E n \in Found(p) : tree[n] = "rwx"
               THEN /\ cwd' \in Found(p) /\ result' = "ok"
                    /\ UNCHANGED <<tree, doing, fds, listed>>
               ELSE Fails

Becomes(nodes, what) == tree' = [n \in Node |-> IF n \in nodes THEN what ELSE tree[n]] /\ UNCHANGED cwd

Makes(nodes, what) == IF nodes = {} THEN Fails
                      ELSE /\ Becomes(nodes, what) /\ result' = "ok"
                           /\ UNCHANGED <<doing, fds, listed>>

(* remove takes empty directories too. *)
Rm(p) == Makes({n \in Found(p) : ~IsDirectory(n) \/ IsEmpty(n)}, "none")
Rmdir(p) == Makes({n \in Found(p) : IsDirectory(n) /\ IsEmpty(n)}, "none")
Mkdir(p) == Makes(Vacant(p), ModeCreateDefault)

(* A directory can be opened too.  The copying is in ByteStreams; whatever ends it,
   the result is 0. *)
Cat(p) == LET ok == p = ".." \/ Found(p) # {}
          IN  \/ ok /\ Open("copy") /\ UNCHANGED files
              \/ OpenFails(ok)

CatReturns == doing = "copy" /\ Close("ok")

(* Without a text it fails. *)
AppendNothing == Fails

AppendText(p) == LET taken == {n \in Found(p) : ~IsDirectory(n)} \cup Vacant(p)
                 IN  \/ taken # {} /\ Open("text") /\ Becomes(taken, "file")
                     \/ OpenFails(taken # {})

(* Mutant of WriteText: a failed write ends the command at once. *)
WriteTextOrReturn == /\ doing = "text"
                     /\ \/ doing' = "newline" /\ UNCHANGED <<files, fds, listed, result>>
                        \/ doing' = "line" /\ result' = "failed" /\ UNCHANGED <<files, fds, listed>>

(* The newline is written after a text that was, and any failure is told after
   the close. *)
WriteText == /\ doing = "text"
             /\ \/ doing' = "newline" /\ UNCHANGED <<files, fds, listed, result>>
                \/ Close("failed")

WriteNewline == doing = "newline" /\ (Close("ok") \/ Close("failed"))

Stat(p) == IF p = ".." \/ Found(p) # {} THEN Succeeds ELSE Fails

Size(p) == LET ok == p = ".." \/ Found(p) # {}
           IN  \/ ok /\ Open("seek") /\ UNCHANGED files
               \/ OpenFails(ok)

(* lseek may fail. *)
SizeReturns == doing = "seek" /\ (Close("ok") \/ Close("failed"))

(* process_line, for the next line. *)
Line == /\ doing = "line"
        /\ \/ NotACommand \/ Echo \/ NoPath \/ AppendNothing \/ Ls(".")
           \/ \E p \in Path : \/ Ls(p) \/ Cd(p) \/ Rm(p) \/ Rmdir(p) \/ Mkdir(p)
                              \/ Cat(p) \/ AppendText(p) \/ Stat(p) \/ Size(p)

HNext == Line \/ LsReturns \/ CatReturns \/ WriteText \/ WriteNewline \/ SizeReturns

HSpec == HInit /\ [][HNext]_hvars
-----------------------------------------------------------------------------
(* Whatever calls fail, a command has closed what it opened, once, when the next
   line is read; only ls may leave a descriptor open, one for each directory it has
   listed, and so the shell runs out of them by nothing else (main.c:41-53, 88-103,
   110-120, 142-150). *)
OnlyListingLeaks == fds - (IF doing = "line" THEN 0 ELSE 1) \in 0 .. listed
=============================================================================
