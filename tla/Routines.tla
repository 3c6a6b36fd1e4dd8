------------------------------ MODULE Routines ------------------------------
(***************************************************************************)
(* Functions that compute one value from their arguments: fixed_mul        *)
(* (apps/sem9), the loops written in assembly (apps/sem6, sem8, sem10) and *)
(* the shell's tokeniser (apps/sem12).  Each is written as the code        *)
(* computes it and called once; what it should return is defined apart.    *)
(***************************************************************************)
EXTENDS Integers, Sequences, SequencesExt, FiniteSetsExt

CONSTANTS Width,        \* bits of a register, 32
          ArgLimit,     \* MAX_ARGS, 64
          MaxLine,      \* bound: characters of a line
          MaxString,    \* bound: bytes of a string
          MaxArray      \* bound: elements of an array

ASSUME RoutineAssumption == /\ {Width, ArgLimit} \subseteq Nat \ {0}
                            /\ {MaxLine, MaxString, MaxArray} \subseteq Nat

Modulus == 2 ^ Width
Unsigned == 0 .. Modulus - 1
Signed(x) == ((x + Modulus \div 2) % Modulus) - Modulus \div 2
SignedInt == {Signed(x) : x \in Unsigned}
SeqUpTo(S, n) == UNION {[1 .. k -> S] : k \in 0 .. n}
-----------------------------------------------------------------------------
(* Mutant of FixedMul: a half is rounded up. *)
FixedMulHalfUp(a, b, n) ==
    LET ans == (a * b + 2 ^ (n - 1)) \div 2 ^ n
    IN  IF n = Width THEN (a * b) \div Modulus ELSE Min({ans, Modulus - 1})

(* n is above 0: the shift by n - 1 is not defined for it. *)
FixedMul(a, b, n) ==
    LET t == a * b
        r == 2 ^ (n - 1) - (1 - ((t \div 2 ^ n) % 2))
        ans == ((t + r) % (Modulus * Modulus)) \div 2 ^ n      \* in 64 bits
    IN  IF n = Width THEN t \div Modulus ELSE Min({ans, Modulus - 1})

(* Bytes compared until they differ or both are the terminating zero. *)
Mystrcmp(s, t) ==
    LET byte(str, i) == IF i <= Len(str) THEN str[i] ELSE 0
        cmp[i \in 1 .. MaxString + 1] ==
            IF byte(s, i) < byte(t, i) THEN -1
            ELSE IF byte(s, i) > byte(t, i) THEN 1
            ELSE IF byte(s, i) = 0 THEN 0 ELSE cmp[i + 1]
    IN  cmp[1]

(* The registers hold 32 bits: the difference may wrap. *)
Overlap(l1, r1, l2, r2) ==
    LET maximum(x, y) == IF y < x THEN x ELSE y
        minimum(x, y) == IF y > x THEN x ELSE y
    IN  maximum(Signed(minimum(r1, r2) - maximum(l1, l2)), 0)

(* loop.S prints a number and takes one away until it is zero. *)
Countdown(n) ==
    LET main_loop[eax \in Unsigned] ==
            IF eax = 0 THEN <<>> ELSE <<Signed(eax)>> \o main_loop[eax - 1]
    IN  main_loop[n % Modulus]

(* reverse1.S keeps the numbers in memory of malloc, reverse2.S on the stack. *)
ReverseNumbers(numbers) ==
    LET edi == [esi \in 0 .. Len(numbers) - 1 |-> numbers[esi + 1]]
        write_loop[esi \in 0 .. Len(numbers)] ==
            IF esi = 0 THEN <<>> ELSE <<edi[esi - 1]>> \o write_loop[esi - 1]
    IN  write_loop[Len(numbers)]

(* The same loops. *)
ReverseOnStack(numbers) == ReverseNumbers(numbers)

(* Four at a time, then one at a time; small whole numbers, which floats hold
   exactly. *)
DotProduct(a, b) ==
    LET product(i) == a[i + 1] * b[i + 1]
        main_loop[i \in 0 .. Len(a)] ==
            IF Len(a) - i >= 4
            THEN product(i) + product(i + 1) + product(i + 2) + product(i + 3) + main_loop[i + 4]
            ELSE IF Len(a) - i >= 1 THEN product(i) + main_loop[i + 1] ELSE 0
    IN  main_loop[0]

(* The loop of process_line on what precedes the newline: i is the next
   character, j where the word began. *)
Scan(s, st) ==
    IF Len(st.buf) = ArgLimit THEN st
    ELSE IF s[st.i + 1] # " " THEN [st EXCEPT !.i = @ + 1]
    ELSE [i |-> st.i + 1, j |-> st.i + 1,
          buf |-> IF st.j < st.i THEN Append(st.buf, SubSeq(s, st.j + 1, st.i)) ELSE st.buf]

ProcessLine(s) ==
    LET turns[k \in 0 .. Len(s)] ==
            IF k = 0 THEN [i |-> 0, j |-> 0, buf |-> <<>>] ELSE Scan(s, turns[k - 1])
        end == turns[Len(s)]
    IN  IF end.j < end.i /\ Len(end.buf) < ArgLimit
        THEN Append(end.buf, SubSeq(s, end.j + 1, end.i))
        ELSE end.buf
-----------------------------------------------------------------------------
VARIABLES routine, args,    \* the call
          returned          \* what it has returned, in a sequence

rvars == <<routine, args, returned>>

RInit ==
    /\ returned = <<>>
    /\ \/ routine = "fixed_mul" /\ args \in Unsigned \X Unsigned \X (1 .. Width)
       \/ routine = "mystrcmp" /\ args \in SeqUpTo(1 .. 3, MaxString) \X SeqUpTo(1 .. 3, MaxString)
       \/ routine = "minmax" /\ args \in SignedInt \X SignedInt \X SignedInt \X SignedInt
       \/ routine = "loop" /\ args \in {<<n>> : n \in SignedInt}
       \/ routine \in {"reverse1", "reverse2"} /\ args \in {<<numbers>> : numbers \in SeqUpTo(1 .. 2, MaxArray)}
       \/ routine = "dot_product"
          /\ \E n \in 0 .. MaxArray : args \in [1 .. n -> 1 .. 2] \X {[i \in 1 .. n |-> i]}
       \/ routine = "process_line" /\ args \in {<<s>> : s \in SeqUpTo({"x", "y", " "}, MaxLine)}

Call(name, result) == routine = name /\ returned' = <<result>>

RNext == /\ returned = <<>>
         /\ \/ Call("fixed_mul", FixedMul(args[1], args[2], args[3]))
            \/ Call("mystrcmp", Mystrcmp(args[1], args[2]))
            \/ Call("minmax", Overlap(args[1], args[2], args[3], args[4]))
            \/ Call("loop", Countdown(args[1]))
            \/ Call("reverse1", ReverseNumbers(args[1]))
            \/ Call("reverse2", ReverseOnStack(args[1]))
            \/ Call("dot_product", DotProduct(args[1], args[2]))
            \/ Call("process_line", ProcessLine(args[1]))
         /\ UNCHANGED <<routine, args>>

RSpec == RInit /\ [][RNext]_rvars
-----------------------------------------------------------------------------
(* The integer nearest to t / 2^n, of two the even one. *)
Nearest(t, n) ==
    LET off(q) == 2 * (IF q * 2 ^ n > t THEN q * 2 ^ n - t ELSE t - q * 2 ^ n)
    IN  CHOOSE q \in 0 .. t : off(q) < 2 ^ n \/ (off(q) = 2 ^ n /\ q % 2 = 0)

(* Of the bytes where two strings first differ, or of the end of the one and a
   byte of the other, that of s is less. *)
Before(s, t) == \E k \in 1 .. Len(t) : /\ k <= Len(s) + 1 /\ \A i \in 1 .. k - 1 : s[i] = t[i]
                                       /\ k <= Len(s) => s[k] < t[k]

(* Where the words begin, the maximal runs of characters other than the space. *)
Begins(s) == {p \in 1 .. Len(s) : s[p] # " " /\ (p = 1 \/ s[p - 1] = " ")}
WordsUpTo(s, p) == Cardinality({q \in Begins(s) : q <= p})
IsWord(s, p, word) == \E e \in p .. Len(s) : /\ word = SubSeq(s, p, e)
                                             /\ \A k \in p .. e : s[k] # " "
                                             /\ e = Len(s) \/ s[e + 1] = " "

(* What each routine is for, said without its loop. *)
Product == args[1] * args[2]
Rounded(r) == IF args[3] = Width THEN r * Modulus <= Product /\ Product < (r + 1) * Modulus
                                 ELSE r = Min({Nearest(Product, args[3]), Modulus - 1})

Compared(r) == r = IF Before(args[1], args[2]) THEN -1 ELSE IF Before(args[2], args[1]) THEN 1 ELSE 0

InCommon(r) ==
    Min({args[2], args[4]}) - Max({args[1], args[3]}) \in SignedInt =>
        r = Cardinality({x \in SignedInt :
                             args[1] <= x /\ x < args[2] /\ args[3] <= x /\ x < args[4]})

CountsDown(r) == /\ Len(r) = args[1] % Modulus
                 /\ \A k \in DOMAIN r : (r[k] + k) % Modulus = (args[1] + 1) % Modulus

FirstWords(r) == LET s == args[1]
                 IN  /\ Len(r) = Min({ArgLimit, Cardinality(Begins(s))})
                     /\ \A p \in Begins(s) : LET k == WordsUpTo(s, p)
                                             IN  k <= ArgLimit => IsWord(s, p, r[k])

Promised(r) ==
    /\ routine = "fixed_mul" => Rounded(r)
    /\ routine = "mystrcmp" => Compared(r)
    /\ routine = "minmax" => InCommon(r)
    /\ routine = "loop" => CountsDown(r)
    /\ routine \in {"reverse1", "reverse2"} => r = Reverse(args[1])
    /\ routine = "dot_product" => r = SumFunction([i \in DOMAIN args[1] |-> args[1][i] * args[2][i]])
    /\ routine = "process_line" => FirstWords(r)

(* Every call returns what is promised: fixed_mul rounds a half to the even
   number and saturates, but for n = 32, where it truncates (main.c:7-24);
   mystrcmp orders as strcmp; minmax is the length two intervals share unless
   the difference wraps; process_line splits at spaces, runs of them too, and
   drops what comes after MAX_ARGS words (main.c:195-207). *)
ReturnsPromised == returned # <<>> => Promised(returned[1])
=============================================================================
