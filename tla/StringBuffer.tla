---------------------------- MODULE StringBuffer ----------------------------
(***************************************************************************)
(* src/utils/string.c: string_t, a buffer that grows.  The memory is kept  *)
(* byte by byte: a byte appended is the number of its place, from 1; 0 is   *)
(* the terminating zero.                                                   *)
(***************************************************************************)
EXTENDS Integers, Sequences

CONSTANTS HalfRange,    \* 2^63
          MaxObject     \* the longest object there is room for

(* malloc gives no object that takes half of the addresses. *)
ASSUME ObjectAssumption == /\ {HalfRange, MaxObject} \subseteq Nat \ {0}
                           /\ MaxObject < HalfRange

(* A size_t is a number modulo SizeMod. *)
SizeMod == 2 * HalfRange
SizeMax == SizeMod - 1

VARIABLES mem,          \* the allocation, from 0
          len, capacity,
          kept,         \* what the caller has appended
          undefined     \* "no", or what has made the behaviour undefined

bvars == <<mem, len, capacity, kept, undefined>>

SizeT(n) == n % SizeMod
Null == capacity = 0     \* data is NULL
Sound == undefined \in {"no", "freed"}
Empty == [k \in {} |-> 0]
Junk == -1          \* a byte nobody has written, or of memory that was freed

(* string_init. *)
BInit == /\ mem = Empty /\ len = 0 /\ capacity = 0
         /\ kept = <<>> /\ undefined = "no"

(* Without data string_destruct changes nothing. *)
Destruct == /\ Sound /\ ~Null
            /\ mem' = Empty /\ len' = 0 /\ capacity' = 0 /\ kept' = <<>>
            /\ UNCHANGED undefined

(* Mutant of Memory: no room for the zero. *)
MemoryExact(n) == [k \in 0 .. n - 1 |-> IF k \in DOMAIN mem THEN mem[k] ELSE Junk]

(* What string_reserve(n) gets from realloc; for SizeMax the sum wraps. *)
Memory(n) == [k \in 0 .. SizeT(n + 1) - 1 |-> IF k \in DOMAIN mem THEN mem[k] ELSE Junk]

(* string_reserve succeeds only if it grows the buffer.  A realloc may fail, and
   does for what there is no room for. *)
CanReserve(n) == /\ n > capacity /\ SizeT(n + 1) <= MaxObject
                 /\ SizeT(n + 1) = 0 => Null

Reserve(n) == /\ Sound /\ CanReserve(n)
              /\ mem' = Memory(n) /\ capacity' = n
              /\ UNCHANGED <<len, kept, undefined>>

(* realloc to no byte frees what there is and returns NULL, the failure that
   string_reserve returns -1 for. *)
ReserveFrees == /\ Sound /\ ~Null /\ SizeMax > capacity
                /\ undefined' = "dangling"
                /\ UNCHANGED <<mem, len, capacity, kept>>

(* string_append_buffer: room for twice what is required if there is not enough,
   the bytes behind the first len, and a zero behind them. *)
AppendBuffer(src, ub) ==
    LET required == SizeT(len + Len(src))
        grows == required > capacity
        twice == SizeT(2 * required)
        room == IF grows THEN Memory(twice) ELSE mem
    IN  /\ Sound
        /\ grows => CanReserve(twice)
        /\ mem' = [k \in DOMAIN room |-> IF k \in len .. len + Len(src) - 1 THEN src[k - len + 1]
                                        ELSE IF k = len + Len(src) THEN 0 ELSE room[k]]
        /\ capacity' = IF grows THEN twice ELSE capacity
        /\ len' = required
        /\ undefined' = IF capacity' = 0 THEN "null"
                        ELSE IF required \notin DOMAIN room THEN "overrun"
                        ELSE IF ub # "no" THEN ub ELSE undefined

(* string_append and string_append_n give it the bytes before a zero. *)
AppendBytes(n) == LET bytes == [i \in 1 .. n |-> Len(kept) + i]
                  IN  AppendBuffer(bytes, "no") /\ kept' = kept \o bytes

(* string_append_string of a string to itself: a realloc that moves the bytes
   frees what is to be copied. *)
AppendItself == /\ \/ AppendBuffer([i \in 1 .. len |-> mem[i - 1]], "no")
                   \/ /\ 2 * len > capacity
                      /\ AppendBuffer([i \in 1 .. len |-> Junk], "freed")
                /\ kept' = kept \o kept

(* Nothing more is said of a string whose memory is gone or that was overrun. *)
Broken == ~Sound /\ UNCHANGED bvars

BNext == \/ Destruct \/ ReserveFrees \/ AppendItself \/ Broken
         \/ \E n \in 0 .. SizeMax : Reserve(n)
         \/ \E n \in 0 .. MaxObject : AppendBytes(n)

BSpec == BInit /\ [][BNext]_bvars
-----------------------------------------------------------------------------
(* Through any sequence of calls that succeed or fail, with sums and doubles that
   wrap, the bytes and the zero are inside the allocation and are those appended,
   in order, unless the string was appended to itself while it grew.  It is overrun
   only after a reserve of SIZE_MAX, or by what takes half of all addresses; and
   only an append of nothing to a string that owns nothing writes through NULL
   (string.c:20-34, 40-56). *)
StringIntact ==
    /\ undefined = "overrun" => capacity = SizeMax \/ len >= HalfRange
    /\ undefined = "null" => kept = <<>>
    /\ Sound => /\ len = Len(kept) /\ len <= capacity
                /\ kept # <<>> => mem[len] = 0
                /\ undefined = "no" => \A k \in 0 .. len - 1 : mem[k] = kept[k + 1]
=============================================================================
