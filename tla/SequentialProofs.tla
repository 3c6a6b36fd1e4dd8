-------------------------- MODULE SequentialProofs --------------------------
(***************************************************************************)
(* Proofs about the programs and functions that one thread runs: what      *)
(* copies and sends bytes (ByteStreams), the buffer that grows             *)
(* (StringBuffer), the shell (Shell), and a thread and its signal handlers *)
(* (Signals).  For each an inductive invariant is proved, and from it what *)
(* the runs check on small instances.                                      *)
(***************************************************************************)
EXTENDS ByteStreams, StringBuffer, Shell, Signals, SumProofs, SequenceTheorems

(***************************************************************************)
(* Bytes on their way (ByteStreams).                                       *)
(***************************************************************************)

Entry == [at : Nat, char : Byte \cup {"note"}]

(* A sequence of lines and of bytes among the first n, in their order; and one whose
   bytes all come before those of another. *)
Known(s, n) == /\ s \in Seq(Entry)
               /\ \A i \in 1 .. Len(s) : s[i] = Note \/ \E m \in 1 .. n : s[i] = Item(m)
Sorted(s) == \A i, j \in 1 .. Len(s) : i < j /\ Note \notin {s[i], s[j]} => s[i].at < s[j].at
Before(s, t) == \A i \in 1 .. Len(s) : \A j \in 1 .. Len(t) : Note \notin {s[i], t[j]} => s[i].at < t[j].at
Has(s, n) == \E i \in 1 .. Len(s) : s[i] = Item(n)
OnlyNotes(s) == \A i \in 1 .. Len(s) : s[i] = Note

Ordered(s, h, n) == Known(s, n) /\ Known(h, n) /\ Sorted(s) /\ Sorted(h) /\ Before(s, h)

STypes == /\ program \in DOMAIN Program
          /\ given \in Seq(Byte)
          /\ taken \in Nat /\ done \in Nat /\ done <= taken /\ taken <= Len(given)
          /\ notes \in Nat
          /\ phase \in {"setup", "read", "write", "exit", "end", "killed", "undefined"}
          /\ {reported, failed} \subseteq BOOLEAN

(* What has been given to a write is written or held. *)
Careless == Writes \in {"byte", "libc"}
Delivered(s, h, n) == \A m \in 1 .. n : Has(s, m) \/ Has(h, m)

(* Where the loops stand. *)
Over == phase \in {"exit", "end"}
Loops == /\ phase \in {"setup", "read"} => done = taken
         /\ phase = "setup" => done = 0
         /\ phase = "write" => done < taken
         /\ phase = "end" => held = <<>>
         /\ Over /\ ~failed => \/ done = Len(given)
                               \/ Is("task10_3") /\ done < Len(given) /\ given[done + 1] = "ff"
         /\ Over /\ Writes = "loop" /\ ~reported => done = Len(given)
         /\ reported => failed

StreamsInv == /\ STypes /\ Ordered(sink, held, done)
              /\ Writes # "libc" => OnlyNotes(held)
              /\ ~failed \/ ~Careless => Delivered(sink, held, done)
              /\ Loops
-----------------------------------------------------------------------------
(* What a sequence cut in two consists of. *)
LEMMA Cut == ASSUME NEW T, NEW s \in Seq(T), NEW k \in 0 .. Len(s)
             PROVE  /\ SubSeq(s, 1, k) \in Seq(T) /\ Len(SubSeq(s, 1, k)) = k
                    /\ \A i \in 1 .. k : SubSeq(s, 1, k)[i] = s[i]
                    /\ SubSeq(s, k + 1, Len(s)) \in Seq(T)
                    /\ Len(SubSeq(s, k + 1, Len(s))) = Len(s) - k
                    /\ \A i \in 1 .. Len(s) - k : SubSeq(s, k + 1, Len(s))[i] = s[k + i]
<1>1. \A i \in 1 .. k : s[i] \in T
  OBVIOUS
<1>2. /\ SubSeq(s, 1, k) \in Seq(T) /\ Len(SubSeq(s, 1, k)) = k
      /\ \A i \in 1 .. k : SubSeq(s, 1, k)[i] = s[i]
  BY <1>1, SubSeqProperties
<1>3. \A i \in k + 1 .. Len(s) : s[i] \in T
  OBVIOUS
<1>4. /\ SubSeq(s, k + 1, Len(s)) \in Seq(T)
      /\ Len(SubSeq(s, k + 1, Len(s))) = Len(s) - k
      /\ \A i \in 1 .. Len(s) - k : SubSeq(s, k + 1, Len(s))[i] = s[k + i]
  BY <1>3, SubSeqProperties
<1>5. QED
  BY <1>2, <1>4

LEMMA MinOfTwo == ASSUME NEW a \in Nat, NEW b \in Nat
                  PROVE  Min({a, b}) \in {a, b} /\ Min({a, b}) <= a /\ Min({a, b}) <= b
<1>1. \E x \in {a, b} : \A y \in {a, b} : x =< y
  <2>1. CASE a <= b
    BY <2>1
  <2>2. CASE b <= a
    BY <2>2
  <2>3. QED
    BY <2>1, <2>2
<1>2. Min({a, b}) \in {a, b} /\ \A y \in {a, b} : Min({a, b}) =< y
  BY <1>1 DEF Min
<1>3. QED
  BY <1>2

LEMMA ProgramFacts ==
    ASSUME program \in DOMAIN Program
    PROVE  /\ Program[program].reads \in Nat \ {0}
           /\ Writes \in {"loop", "byte", "once", "libc"}
           /\ Writes = "byte" <=> program \in {"task10_2", "task10_3"}
           /\ Writes = "loop" <=> program \in {"copy_file", "ensure_send"}
           /\ Writes = "libc" <=> program \in {"client", "server", "nonblocking"}
BY StreamAssumption
   DEF Program, Writes, CopyFile, Task10_2, Task10_3, FuncCat, EnsureSend, Client, Server, NonBlocking

LEMMA NoteFacts == Note \in Entry /\ Note.at = 0
BY DEF Note, Entry

LEMMA ItemFacts ==
    ASSUME given \in Seq(Byte), NEW n \in 1 .. Len(given)
    PROVE  Item(n) \in Entry /\ Item(n).at = n /\ Item(n) # Note
<1>1. given[n] \in Byte /\ "A" \in Byte
  BY DEF Byte
<1>2. Item(n) \in Entry /\ Item(n).at = n
  BY <1>1 DEF Item, Entry
<1>3. Note.at = 0 /\ n # 0
  BY NoteFacts
<1>. QED
  BY <1>2, <1>3

(* Two sequences one after the other. *)
LEMMA JoinIs ==
    ASSUME NEW T, NEW s \in Seq(T), NEW t \in Seq(T)
    PROVE  /\ s \o t \in Seq(T) /\ Len(s \o t) = Len(s) + Len(t)
           /\ \A i \in 1 .. Len(s) + Len(t) : (s \o t)[i] = IF i <= Len(s) THEN s[i] ELSE t[i - Len(s)]
BY ConcatProperties

LEMMA JoinKnown ==
    ASSUME NEW n, NEW s, Known(s, n), NEW t, Known(t, n)
    PROVE  /\ Known(s \o t, n)
           /\ \A m : Has(s, m) \/ Has(t, m) => Has(s \o t, m)
<1>. DEFINE u == s \o t
<1>0. s \in Seq(Entry) /\ t \in Seq(Entry)
  BY DEF Known
<1>1. /\ u \in Seq(Entry) /\ Len(u) = Len(s) + Len(t)
      /\ \A i \in 1 .. Len(s) + Len(t) : u[i] = IF i <= Len(s) THEN s[i] ELSE t[i - Len(s)]
  BY <1>0, JoinIs
<1>. HIDE DEF u
<1>2. ASSUME NEW i \in 1 .. Len(u)
      PROVE  u[i] = Note \/ \E m \in 1 .. n : u[i] = Item(m)
  <2>1. CASE i <= Len(s)
    <3>1. i \in 1 .. Len(s) /\ u[i] = s[i]
      BY <1>0, <1>1, <2>1
    <3>. QED
      BY <3>1 DEF Known
  <2>2. CASE ~(i <= Len(s))
    <3>1. i - Len(s) \in 1 .. Len(t) /\ u[i] = t[i - Len(s)]
      BY <1>0, <1>1, <2>2
    <3>. QED
      BY <3>1 DEF Known
  <2>. QED
    BY <2>1, <2>2
<1>3. ASSUME NEW m, Has(s, m) \/ Has(t, m)
      PROVE  Has(u, m)
  <2>1. CASE Has(s, m)
    <3>1. PICK i \in 1 .. Len(s) : s[i] = Item(m)
      BY <2>1 DEF Has
    <3>2. i \in 1 .. Len(u) /\ u[i] = s[i]
      BY <1>0, <1>1
    <3>. QED
      BY <3>1, <3>2 DEF Has
  <2>2. CASE Has(t, m)
    <3>1. PICK i \in 1 .. Len(t) : t[i] = Item(m)
      BY <2>2 DEF Has
    <3>2. Len(s) \in Nat /\ Len(t) \in Nat
      BY <1>0
    <3>3. /\ Len(s) + i \in 1 .. Len(s) + Len(t) /\ ~(Len(s) + i <= Len(s))
          /\ Len(s) + i - Len(s) = i
      BY <3>2
    <3>4. Len(s) + i \in 1 .. Len(u) /\ u[Len(s) + i] = t[i]
      BY <1>1, <3>3
    <3>. QED
      BY <3>1, <3>4 DEF Has
  <2>. QED
    BY <1>3, <2>1, <2>2
<1>. QED
  BY <1>1, <1>2, <1>3 DEF u, Known

LEMMA JoinSorted ==
    ASSUME NEW s \in Seq(Entry), NEW t \in Seq(Entry), Sorted(s), Sorted(t), Before(s, t)
    PROVE  Sorted(s \o t)
<1>. DEFINE u == s \o t
<1>1. /\ u \in Seq(Entry) /\ Len(u) = Len(s) + Len(t)
      /\ \A i \in 1 .. Len(s) + Len(t) : u[i] = IF i <= Len(s) THEN s[i] ELSE t[i - Len(s)]
  BY JoinIs
<1>. HIDE DEF u
<1>2. ASSUME NEW i \in 1 .. Len(u), NEW j \in 1 .. Len(u), i < j, Note \notin {u[i], u[j]}
      PROVE  u[i].at < u[j].at
  <2>0. Len(s) \in Nat /\ Len(t) \in Nat /\ i \in Nat /\ j \in Nat
    OBVIOUS
  <2>1. CASE j <= Len(s)
    <3>1. i \in 1 .. Len(s) /\ j \in 1 .. Len(s) /\ u[i] = s[i] /\ u[j] = s[j]
      BY <1>1, <1>2, <2>0, <2>1
    <3>. QED
      BY <1>2, <3>1 DEF Sorted
  <2>2. CASE i <= Len(s) /\ ~(j <= Len(s))
    <3>1. i \in 1 .. Len(s) /\ j - Len(s) \in 1 .. Len(t) /\ u[i] = s[i] /\ u[j] = t[j - Len(s)]
      BY <1>1, <1>2, <2>0, <2>2
    <3>. QED
      BY <1>2, <3>1 DEF Before
  <2>3. CASE ~(i <= Len(s))
    <3>1. /\ i - Len(s) \in 1 .. Len(t) /\ j - Len(s) \in 1 .. Len(t) /\ i - Len(s) < j - Len(s)
          /\ u[i] = t[i - Len(s)] /\ u[j] = t[j - Len(s)]
      BY <1>1, <1>2, <2>0, <2>3
    <3>. QED
      BY <1>2, <3>1 DEF Sorted
  <2>. QED
    BY <1>2, <2>0, <2>1, <2>2, <2>3
<1>. QED
  BY <1>2 DEF u, Sorted

LEMMA JoinBefore ==
    ASSUME NEW s \in Seq(Entry), NEW t \in Seq(Entry), NEW r \in Seq(Entry)
    PROVE  /\ Before(s, r) /\ Before(t, r) => Before(s \o t, r)
           /\ Before(r, s) /\ Before(r, t) => Before(r, s \o t)
<1>. DEFINE u == s \o t
<1>1. /\ u \in Seq(Entry) /\ Len(u) = Len(s) + Len(t)
      /\ \A i \in 1 .. Len(s) + Len(t) : u[i] = IF i <= Len(s) THEN s[i] ELSE t[i - Len(s)]
  BY JoinIs
<1>. HIDE DEF u
<1>2. ASSUME NEW i \in 1 .. Len(u)
      PROVE  (\E j \in 1 .. Len(s) : u[i] = s[j]) \/ (\E j \in 1 .. Len(t) : u[i] = t[j])
  <2>1. CASE i <= Len(s)
    BY <1>1, <2>1
  <2>2. CASE ~(i <= Len(s))
    <3>1. i - Len(s) \in 1 .. Len(t) /\ u[i] = t[i - Len(s)]
      BY <1>1, <2>2
    <3>. QED
      BY <3>1
  <2>. QED
    BY <2>1, <2>2
<1>3. Before(s, r) /\ Before(t, r) => Before(u, r)
  BY <1>2 DEF Before
<1>4. Before(r, s) /\ Before(r, t) => Before(r, u)
  BY <1>2 DEF Before
<1>. QED
  BY <1>3, <1>4 DEF u

(* A part of a sequence. *)
LEMMA PartIs ==
    ASSUME NEW s \in Seq(Entry), NEW a \in Nat \ {0}, NEW b \in Nat, a <= b + 1, b <= Len(s)
    PROVE  /\ SubSeq(s, a, b) \in Seq(Entry) /\ Len(SubSeq(s, a, b)) = b - a + 1
           /\ \A i \in 1 .. b - a + 1 : SubSeq(s, a, b)[i] = s[a + i - 1] /\ a + i - 1 \in 1 .. Len(s)
<1>1. \A i \in a .. b : s[i] \in Entry
  OBVIOUS
<1>2. /\ SubSeq(s, a, b) \in Seq(Entry)
      /\ Len(SubSeq(s, a, b)) = IF a <= b THEN b - a + 1 ELSE 0
      /\ \A i \in 1 .. b - a + 1 : SubSeq(s, a, b)[i] = s[a + i - 1]
  BY <1>1, SubSeqProperties
<1>3. \A i \in 1 .. b - a + 1 : a + i - 1 \in 1 .. Len(s)
  OBVIOUS
<1>. QED
  BY <1>2, <1>3

LEMMA PartKept ==
    ASSUME NEW n, NEW s, Known(s, n), Sorted(s), NEW a \in Nat \ {0}, NEW b \in Nat, a <= b + 1, b <= Len(s)
    PROVE  /\ Known(SubSeq(s, a, b), n) /\ Sorted(SubSeq(s, a, b))
           /\ \A r : Before(r, s) => Before(r, SubSeq(s, a, b))
           /\ OnlyNotes(s) => OnlyNotes(SubSeq(s, a, b))
<1>. DEFINE p == SubSeq(s, a, b)
<1>0. s \in Seq(Entry)
  BY DEF Known
<1>1. /\ p \in Seq(Entry) /\ Len(p) = b - a + 1
      /\ \A i \in 1 .. b - a + 1 : p[i] = s[a + i - 1] /\ a + i - 1 \in 1 .. Len(s)
  BY <1>0, PartIs
<1>. HIDE DEF p
<1>2. \A i \in 1 .. Len(p) : \E j \in 1 .. Len(s) : p[i] = s[j]
  BY <1>1
<1>3. Known(p, n)
  BY <1>1, <1>2 DEF Known
<1>4. ASSUME NEW i \in 1 .. Len(p), NEW j \in 1 .. Len(p), i < j, Note \notin {p[i], p[j]}
      PROVE  p[i].at < p[j].at
  <2>1. /\ a + i - 1 \in 1 .. Len(s) /\ a + j - 1 \in 1 .. Len(s) /\ a + i - 1 < a + j - 1
        /\ p[i] = s[a + i - 1] /\ p[j] = s[a + j - 1]
    BY <1>1, <1>4
  <2>. QED
    BY <1>4, <2>1 DEF Sorted
<1>5. \A r : Before(r, s) => Before(r, p)
  BY <1>2 DEF Before
<1>6. OnlyNotes(s) => OnlyNotes(p)
  BY <1>2 DEF OnlyNotes
<1>. QED
  BY <1>3, <1>4, <1>5, <1>6 DEF p, Sorted

LEMMA KnownMore == ASSUME NEW s, NEW m \in Nat, NEW n \in Nat, m <= n, Known(s, m)
                   PROVE  Known(s, n)
BY DEF Known

(* The bytes from one place to another. *)
LEMMA ItemsFacts ==
    ASSUME given \in Seq(Byte), NEW m \in Nat, NEW n \in Nat, m <= n, n <= Len(given)
    PROVE  /\ Known(Items(m, n), n) /\ Sorted(Items(m, n)) /\ Len(Items(m, n)) = n - m
           /\ \A s : Known(s, m) => Before(s, Items(m, n))
           /\ \A k \in m + 1 .. n : Has(Items(m, n), k)
           /\ m = n => Items(m, n) = <<>>
<1>. DEFINE q == Items(m, n)
<1>0. \A k \in 1 .. Len(given) : Item(k) \in Entry /\ Item(k).at = k /\ Item(k) # Note
  BY ItemFacts
<1>1. n - m \in Nat /\ \A i \in 1 .. n - m : m + i \in 1 .. Len(given) /\ m + i \in 1 .. n
  OBVIOUS
<1>2. q = [i \in 1 .. n - m |-> Item(m + i)]
  BY DEF Items
<1>3. \A i \in 1 .. n - m : q[i] = Item(m + i) /\ q[i] \in Entry /\ q[i].at = m + i
  BY <1>0, <1>1, <1>2
<1>. HIDE DEF q
<1>4. q \in Seq(Entry) /\ Len(q) = n - m
  <2>1. PICK l \in Nat : l = n - m
    BY <1>1
  <2>2. DOMAIN q = 1 .. l /\ q \in [1 .. l -> Entry]
    BY <1>2, <1>3, <2>1
  <2>. QED
    BY <2>1, <2>2
<1>5. Known(q, n)
  BY <1>1, <1>3, <1>4 DEF Known
<1>6. Sorted(q)
  <2>1. ASSUME NEW i \in 1 .. Len(q), NEW j \in 1 .. Len(q), i < j
        PROVE  q[i].at < q[j].at
    BY <1>3, <1>4, <2>1
  <2>. QED
    BY <2>1 DEF Sorted
<1>7. ASSUME NEW s, Known(s, m)
      PROVE  Before(s, q)
  <2>1. ASSUME NEW i \in 1 .. Len(s), NEW j \in 1 .. Len(q), s[i] # Note
        PROVE  s[i].at < q[j].at
    <3>1. PICK k \in 1 .. m : s[i] = Item(k)
      BY <1>7, <2>1 DEF Known
    <3>2. s[i].at = k
      BY <1>0, <3>1
    <3>3. q[j].at = m + j /\ j \in Nat \ {0}
      BY <1>3, <1>4
    <3>. QED
      BY <3>1, <3>2, <3>3
  <2>. QED
    BY <2>1 DEF Before
<1>8. ASSUME NEW k \in m + 1 .. n
      PROVE  Has(q, k)
  <2>1. k - m \in 1 .. n - m /\ m + (k - m) = k
    OBVIOUS
  <2>. QED
    BY <1>3, <1>4, <2>1 DEF Has
<1>9. m = n => q = <<>>
  BY <1>4
<1>. QED
  BY <1>4, <1>5, <1>6, <1>7, <1>8, <1>9 DEF q

LEMMA EmptyFacts == \A n : Known(<<>>, n) /\ Sorted(<<>>) /\ OnlyNotes(<<>>)
                           /\ \A s : Before(s, <<>>) /\ Before(<<>>, s)
<1>1. <<>> \in Seq(Entry) /\ Len(<<>>) = 0
  OBVIOUS
<1>. QED
  BY <1>1 DEF Known, Sorted, OnlyNotes, Before

LEMMA NotesFacts ==
    ASSUME NEW q, q \in {<<Note>>, <<Note, Note>>}
    PROVE  /\ \A n : Known(q, n)
           /\ Sorted(q) /\ OnlyNotes(q) /\ \A s : Before(s, q) /\ Before(q, s)
<1>1. Note \in Entry
  BY NoteFacts
<1>2. q \in Seq(Entry) /\ \A i \in 1 .. Len(q) : q[i] = Note
  <2>1. CASE q = <<Note>>
    BY <1>1, <2>1
  <2>2. CASE q = <<Note, Note>>
    BY <1>1, <2>2
  <2>. QED
    BY <2>1, <2>2
<1>. QED
  BY <1>2 DEF Known, Sorted, OnlyNotes, Before

LEMMA NotesBefore ==
    ASSUME NEW q, OnlyNotes(q), NEW s
    PROVE  Before(s, q) /\ Before(q, s)
BY DEF OnlyNotes, Before

LEMMA NoItem == ASSUME given \in Seq(Byte), NEW q, OnlyNotes(q), NEW m \in 1 .. Len(given)
                PROVE  ~Has(q, m)
BY ItemFacts DEF OnlyNotes, Has

(* stdio takes something more. *)
LEMMA HeldMore ==
    ASSUME NEW n \in Nat, NEW h, Known(h, n), Sorted(h), NEW s, Known(s, n), Before(s, h),
           NEW q, Known(q, n), Sorted(q), Before(s, q), Before(h, q)
    PROVE  Known(h \o q, n) /\ Sorted(h \o q) /\ Before(s, h \o q)
<1>1. s \in Seq(Entry) /\ h \in Seq(Entry) /\ q \in Seq(Entry)
  BY DEF Known
<1>2. Known(h \o q, n)
  BY JoinKnown
<1>3. Sorted(h \o q)
  BY <1>1, JoinSorted
<1>4. Before(s, h \o q)
  BY <1>1, JoinBefore
<1>. QED
  BY <1>2, <1>3, <1>4

LEMMA NotesMore ==
    ASSUME NEW h, NEW q, h \in Seq(Entry), q \in Seq(Entry), OnlyNotes(h), OnlyNotes(q)
    PROVE  OnlyNotes(h \o q)
<1>. DEFINE u == h \o q
<1>1. /\ Len(u) = Len(h) + Len(q)
      /\ \A i \in 1 .. Len(h) + Len(q) : u[i] = IF i <= Len(h) THEN h[i] ELSE q[i - Len(h)]
  BY JoinIs
<1>. HIDE DEF u
<1>2. ASSUME NEW i \in 1 .. Len(u)
      PROVE  u[i] = Note
  <2>1. CASE i <= Len(h)
    BY <1>1, <2>1 DEF OnlyNotes
  <2>2. CASE ~(i <= Len(h))
    <3>1. i - Len(h) \in 1 .. Len(q) /\ u[i] = q[i - Len(h)]
      BY <1>1, <2>2
    <3>. QED
      BY <3>1 DEF OnlyNotes
  <2>. QED
    BY <2>1, <2>2
<1>. QED
  BY <1>2 DEF u, OnlyNotes

(* Draining leaves what is written and what is held in their order; what is dropped
   is told by failed. *)
LEMMA DrainKeeps ==
    ASSUME NEW n \in Nat, Known(sink, n), Sorted(sink),
           NEW q, Known(q, n), Sorted(q), Before(sink, q),
           NEW m \in 0 .. Len(q), NEW next, Drain(q, m, next), failed \in BOOLEAN
    PROVE  /\ Ordered(sink', held', n)
           /\ OnlyNotes(q) => OnlyNotes(held')
           /\ m = Len(q) => held' = <<>>
           /\ failed' \in BOOLEAN /\ (failed => failed')
           /\ phase' \in {next, "killed"} /\ (~failed' => phase' = next)
           /\ \A x : Has(sink, x) => Has(sink', x)
           /\ ~failed' => \A x : Has(q, x) => Has(sink', x) \/ Has(held', x)
<1>1. PICK k \in 0 .. m : /\ sink' = sink \o SubSeq(q, 1, k)
                          /\ held' = SubSeq(q, m + 1, Len(q))
                          /\ failed' = (failed \/ k < m)
                          /\ phase' \in IF k < m THEN {next, "killed"} ELSE {next}
  BY DEF Drain
<1>0. q \in Seq(Entry) /\ sink \in Seq(Entry) /\ Len(q) \in Nat /\ m \in Nat /\ k \in Nat /\ k <= m
  BY <1>1 DEF Known
<1>. DEFINE p == SubSeq(q, 1, k)
<1>. DEFINE r == SubSeq(q, m + 1, Len(q))
<1>a. 1 \in Nat \ {0} /\ 1 <= k + 1 /\ k <= Len(q) /\ m + 1 \in Nat \ {0} /\ m + 1 <= Len(q) + 1 /\ Len(q) <= Len(q)
  BY <1>0
<1>2. Known(p, n) /\ Sorted(p) /\ Before(sink, p)
  BY <1>0, <1>a, PartKept
<1>3. Known(r, n) /\ Sorted(r) /\ Before(sink, r) /\ (OnlyNotes(q) => OnlyNotes(r))
  <2>1. PICK a \in Nat \ {0} : a = m + 1
    BY <1>a
  <2>. QED
    BY <1>0, <1>a, <2>1, PartKept
<1>4. /\ p \in Seq(Entry) /\ Len(p) = k /\ \A i \in 1 .. k : p[i] = q[i]
  <2>1. /\ p \in Seq(Entry) /\ Len(p) = k - 1 + 1
        /\ \A i \in 1 .. k - 1 + 1 : p[i] = q[1 + i - 1]
    BY <1>0, <1>a, PartIs
  <2>2. k - 1 + 1 = k /\ \A i \in 1 .. k : 1 + i - 1 = i
    BY <1>0
  <2>. QED
    BY <2>1, <2>2
<1>5. /\ r \in Seq(Entry) /\ Len(r) = Len(q) - m /\ \A i \in 1 .. Len(q) - m : r[i] = q[m + i]
  <2>1. PICK a \in Nat \ {0} : a = m + 1
    BY <1>a
  <2>2. /\ SubSeq(q, a, Len(q)) \in Seq(Entry) /\ Len(SubSeq(q, a, Len(q))) = Len(q) - a + 1
        /\ \A i \in 1 .. Len(q) - a + 1 : SubSeq(q, a, Len(q))[i] = q[a + i - 1]
    BY <1>0, <1>a, <2>1, PartIs
  <2>3. Len(q) - a + 1 = Len(q) - m /\ \A i \in 1 .. Len(q) - m : a + i - 1 = m + i
    BY <1>0, <2>1
  <2>. QED
    BY <2>1, <2>2, <2>3
<1>6. \A i \in 1 .. Len(p) : \A j \in 1 .. Len(r) :
          /\ i \in 1 .. Len(q) /\ m + j \in 1 .. Len(q) /\ i < m + j
          /\ p[i] = q[i] /\ r[j] = q[m + j]
  <2>1. ASSUME NEW i \in 1 .. Len(p), NEW j \in 1 .. Len(r)
        PROVE  /\ i \in 1 .. Len(q) /\ m + j \in 1 .. Len(q) /\ i < m + j
               /\ p[i] = q[i] /\ r[j] = q[m + j]
    <3>. HIDE DEF p, r
    <3>1. i \in 1 .. k /\ j \in 1 .. Len(q) - m
      BY <1>4, <1>5
    <3>. QED
      BY <1>0, <1>4, <1>5, <3>1
  <2>. QED
    BY <2>1
<1>. HIDE DEF p, r
<1>7. Before(p, r)
  BY <1>6 DEF Before, Sorted
<1>8. sink' = sink \o p /\ held' = r
  BY <1>1 DEF p, r
<1>9. Known(sink \o p, n) /\ \A x : Has(sink, x) \/ Has(p, x) => Has(sink \o p, x)
  BY <1>2, JoinKnown
<1>10. Sorted(sink \o p)
  BY <1>0, <1>2, <1>4, JoinSorted
<1>11. Before(sink \o p, r)
  BY <1>0, <1>3, <1>4, <1>5, <1>7, JoinBefore
<1>12. ASSUME ~failed', NEW x, Has(q, x)
       PROVE  Has(sink', x) \/ Has(held', x)
  <2>s. ~(k < m)
    BY <1>1, <1>12, Zenon
  <2>1. k = m
    BY <1>0, <2>s
  <2>2. PICK i \in 1 .. Len(q) : q[i] = Item(x)
    BY <1>12 DEF Has
  <2>3. CASE i <= m
    <3>1. i \in 1 .. Len(p) /\ p[i] = q[i]
      BY <1>0, <1>4, <2>1, <2>3
    <3>2. Has(p, x)
      BY <2>2, <3>1 DEF Has
    <3>. QED
      BY <1>8, <1>9, <3>2
  <2>4. CASE ~(i <= m)
    <3>1. i - m \in 1 .. Len(q) - m /\ m + (i - m) = i
      BY <1>0, <2>4
    <3>2. r[i - m] = q[i] /\ i - m \in 1 .. Len(r)
      BY <1>5, <3>1
    <3>3. Has(r, x)
      BY <2>2, <3>2 DEF Has
    <3>. QED
      BY <1>8, <3>3
  <2>. QED
    BY <2>3, <2>4
<1>13. m = Len(q) => r = <<>>
  BY <1>0, <1>5
<1>14. /\ failed' \in BOOLEAN /\ (failed => failed')
       /\ phase' \in {next, "killed"} /\ (~failed' => phase' = next)
  BY <1>1
<1>. QED
  BY <1>3, <1>8, <1>9, <1>10, <1>11, <1>12, <1>13, <1>14 DEF Ordered

(* In a step the program and its input stay. *)
LEMMA Carried ==
    ASSUME UNCHANGED <<program, given>>
    PROVE  /\ Ordered(sink', held', done') => Ordered(sink, held, done)'
           /\ OnlyNotes(held') => OnlyNotes(held)'
           /\ Writes' = Writes /\ (Careless' <=> Careless)
           /\ Delivered(sink', held', done') => Delivered(sink, held, done)'
<1>1. Writes' = Writes
  BY DEF Writes
<1>2. \A n : Item(n)' = Item(n)
  BY <1>1 DEF Item
<1>3. Ordered(sink', held', done') => Ordered(sink, held, done)'
  BY <1>2 DEF Ordered, Known, Sorted, Before, Note, Entry
<1>4. Delivered(sink', held', done') => Delivered(sink, held, done)'
  BY <1>2 DEF Delivered, Has
<1>5. OnlyNotes(held') => OnlyNotes(held)'
  BY DEF OnlyNotes, Note
<1>. QED
  BY <1>1, <1>3, <1>4, <1>5 DEF Careless

LEMMA StepKeeps ==
    ASSUME StreamsInv, UNCHANGED <<program, given>>,
           taken' \in Nat, done' \in Nat, done' <= taken', taken' <= Len(given), notes' \in Nat,
           phase' \in {"setup", "read", "write", "exit", "end", "killed", "undefined"},
           {reported', failed'} \subseteq BOOLEAN,
           Ordered(sink', held', done'), Writes # "libc" => OnlyNotes(held'),
           ~failed' \/ ~Careless => Delivered(sink', held', done'), Loops'
    PROVE  StreamsInv'
BY Carried DEF StreamsInv, STypes

(* What is written and held does not change. *)
LEMMA StdioStays ==
    ASSUME StreamsInv, UNCHANGED <<program, given, stdio>>, done' = done, failed => failed'
    PROVE  /\ Ordered(sink', held', done')
           /\ Writes # "libc" => OnlyNotes(held')
           /\ ~failed' \/ ~Careless => Delivered(sink', held', done')
<1>1. sink' = sink /\ held' = held
  BY DEF stdio
<1>. QED
  BY <1>1 DEF StreamsInv

LEMMA InitStreams == Init => StreamsInv
<1>. SUFFICES ASSUME Init
              PROVE  StreamsInv
  OBVIOUS
<1>1. STypes
  <2>1. given \in Seq(Byte)
    BY StreamAssumption DEF Init
  <2>2. program \in DOMAIN Program /\ taken = 0 /\ done = 0 /\ notes = 0 /\ reported = FALSE /\ failed = FALSE
    BY DEF Init
  <2>3. phase \in {"setup", "read"}
    BY DEF Init
  <2>4. Len(given) \in Nat
    BY <2>1
  <2>5. taken \in Nat /\ done \in Nat /\ done <= taken /\ taken <= Len(given) /\ notes \in Nat
    BY <2>2, <2>4
  <2>6. {reported, failed} \subseteq BOOLEAN
    BY <2>2
  <2>. QED
    BY <2>1, <2>2, <2>3, <2>5, <2>6, Zenon DEF STypes
<1>2. held = <<>> \/ held = <<Note>>
  BY DEF Init
<1>3. Known(held, 0) /\ Sorted(held) /\ OnlyNotes(held) /\ Before(sink, held)
  BY <1>2, EmptyFacts, NotesFacts DEF Init
<1>4. Ordered(sink, held, done)
  BY <1>3, EmptyFacts DEF Init, Ordered
<1>5. Delivered(sink, held, done)
  BY DEF Init, Delivered
<1>6. Loops
  BY DEF Init, Loops, Over
<1>. QED
  BY <1>1, <1>3, <1>4, <1>5, <1>6 DEF StreamsInv

LEMMA SetupKeeps ==
    ASSUME StreamsInv, SetupWorks \/ SetupFails \/ ConnectFails \/ AcceptFails \/ ResolveFails
    PROVE  StreamsInv'
<1>0. STypes /\ Loops /\ Ordered(sink, held, done)
  BY DEF StreamsInv
<1>1. CASE SetupWorks
  <2>1. /\ phase = "setup" /\ phase' = "read" /\ (held' = <<>> \/ held' = <<Note>>)
        /\ Writes # "libc" => held' = <<>>
        /\ UNCHANGED <<program, given, taken, done, sink, notes, reported, failed>>
    BY <1>0, <1>1, ProgramFacts DEF SetupWorks, STypes
  <2>2. /\ \A n : Known(held', n)
        /\ Sorted(held') /\ OnlyNotes(held') /\ Before(sink, held')
    BY <2>1, EmptyFacts, NotesFacts
  <2>3. Ordered(sink', held', done')
    BY <1>0, <2>1, <2>2 DEF Ordered
  <2>4. Delivered(sink', held', done')
    BY <1>0, <2>1 DEF Delivered, Loops
  <2>5. Loops'
    BY <1>0, <2>1 DEF Loops, Over
  <2>6. failed' \in BOOLEAN
    BY <1>0, <2>1 DEF STypes
  <2>. QED
    BY <1>0, <2>1, <2>2, <2>3, <2>4, <2>5, <2>6, StepKeeps DEF STypes
<1>2. CASE SetupFails \/ ConnectFails \/ AcceptFails \/ ResolveFails
  <2>1. /\ phase = "setup" /\ phase' \in {"read", "exit", "undefined"}
        /\ UNCHANGED <<program, given, taken, done, stdio, notes>>
        /\ failed' = TRUE /\ reported' \in BOOLEAN
        /\ phase' = "exit" /\ Writes = "loop" => reported'
    BY <1>0, <1>2, ProgramFacts
       DEF SetupFails, ConnectFails, AcceptFails, ResolveFails, STypes, Is
  <2>2. Loops'
    BY <1>0, <2>1 DEF Loops, Over, Writes
  <2>. QED
    BY <1>0, <2>1, <2>2, StdioStays, StepKeeps DEF STypes
<1>. QED
  BY <1>1, <1>2

LEMMA ReadKeeps == ASSUME StreamsInv, Read \/ ReadEof \/ ReadFails
                   PROVE  StreamsInv'
<1>0. STypes /\ Loops
  BY DEF StreamsInv
<1>1. CASE Read
  <2>1. PICK r \in 1 .. Min({Program[program].reads, Len(given) - taken}) : taken' = taken + r
    BY <1>1 DEF Read
  <2>2. Program[program].reads \in Nat /\ Len(given) - taken \in Nat /\ Len(given) \in Nat
    BY <1>0, ProgramFacts DEF STypes
  <2>3. r \in Nat \ {0} /\ r <= Len(given) - taken
    <3>1. PICK a \in Nat : a = Program[program].reads
      BY <2>2
    <3>2. PICK b \in Nat : b = Len(given) - taken
      BY <2>2
    <3>3. Min({a, b}) \in Nat /\ Min({a, b}) <= b
      BY MinOfTwo
    <3>4. r \in 1 .. Min({a, b})
      BY <3>1, <3>2
    <3>. QED
      BY <3>2, <3>3, <3>4
  <2>4. /\ phase = "read" /\ phase' = "write"
        /\ UNCHANGED <<program, given, done, stdio, notes, reported, failed>>
    BY <1>1 DEF Read
  <2>5. taken' \in Nat /\ taken' <= Len(given) /\ done < taken' /\ done = taken
    BY <1>0, <2>1, <2>2, <2>3, <2>4 DEF Loops, STypes
  <2>6. Loops'
    BY <1>0, <2>4, <2>5 DEF Loops, Over
  <2>7. reported' \in BOOLEAN /\ failed' \in BOOLEAN /\ done' \in Nat /\ notes' \in Nat /\ done' <= taken'
    BY <1>0, <2>4, <2>5 DEF STypes
  <2>. QED
    BY <2>4, <2>5, <2>6, <2>7, StdioStays, StepKeeps
<1>2. CASE ReadEof \/ ReadFails
  <2>0. /\ phase = "read" /\ phase' = "exit"
        /\ UNCHANGED <<program, given, taken, done, stdio, notes>>
    BY <1>2, Zenon DEF ReadEof, ReadFails
  <2>a. reported \in BOOLEAN /\ failed \in BOOLEAN
    BY <1>0 DEF STypes
  <2>b. reported' \in BOOLEAN /\ failed' \in BOOLEAN /\ (failed => failed')
    <3>1. CASE ReadEof
      BY <2>a, <3>1 DEF ReadEof
    <3>2. CASE ReadFails
      <4>1. failed' = TRUE /\ reported' = (program \in {"copy_file", "client", "nonblocking"})
        BY <3>2, Zenon DEF ReadFails
      <4>. QED
        BY <4>1
    <3>. QED
      BY <1>2, <3>1, <3>2
  <2>1. /\ phase = "read" /\ phase' = "exit"
        /\ UNCHANGED <<program, given, taken, done, stdio, notes>>
        /\ failed' \in BOOLEAN /\ reported' \in BOOLEAN
        /\ failed => failed'
    BY <2>0, <2>b
  <2>2. Writes' = Writes /\ Len(given) \in Nat
    BY <1>0, <2>1 DEF Writes, STypes
  <2>3. Loops'
    <3>1. done = taken
      BY <1>0, <2>1 DEF Loops
    <3>2. CASE ReadEof
      <4>1. done = Len(given) /\ UNCHANGED <<reported, failed>>
        BY <3>1, <3>2 DEF ReadEof
      <4>. QED
        BY <1>0, <2>1, <2>2, <3>1, <4>1 DEF Loops, Over
    <3>3. CASE ReadFails
      <4>1. failed' = TRUE /\ (Writes = "loop" => reported')
        BY <1>0, <3>3, ProgramFacts DEF ReadFails, STypes, Is
      <4>. QED
        BY <1>0, <2>1, <2>2, <3>1, <4>1 DEF Loops, Over
    <3>. QED
      BY <1>2, <3>2, <3>3
  <2>4. taken' \in Nat /\ done' \in Nat /\ notes' \in Nat /\ done' <= taken' /\ taken' <= Len(given)
    BY <1>0, <2>1 DEF STypes
  <2>. QED
    BY <2>1, <2>3, <2>4, StdioStays, StepKeeps
<1>. QED
  BY <1>1, <1>2

(* A line of the program's own goes the way of the bytes. *)
LEMMA PrintKeeps ==
    ASSUME StreamsInv, NEW q \in {<<Note>>, <<Note, Note>>}, NEW next \in {"read", "write"},
           phase = next, Puts(q, next),
           UNCHANGED <<program, given, taken, done, reported>>, notes' = notes + 1
    PROVE  StreamsInv'
<1>0. STypes /\ Loops /\ Ordered(sink, held, done)
  BY DEF StreamsInv
<1>. DEFINE u == held \o q
<1>1. /\ Known(q, done) /\ Sorted(q) /\ OnlyNotes(q) /\ Before(sink, q) /\ Before(held, q)
      /\ Known(sink, done) /\ Known(held, done) /\ Sorted(sink) /\ Sorted(held) /\ Before(sink, held)
      /\ done \in Nat /\ given \in Seq(Byte)
  BY <1>0, NotesFacts DEF Ordered, STypes
<1>2. /\ Known(u, done) /\ Sorted(u) /\ Before(sink, u)
      /\ \A x : Has(held, x) => Has(u, x)
  <2>1. \A x : Has(held, x) => Has(u, x)
    BY <1>1, JoinKnown
  <2>. QED
    BY <1>1, <2>1, HeldMore
<1>3. OnlyNotes(held) => OnlyNotes(u)
  BY <1>1, NotesMore DEF Known
<1>4. PICK m \in 0 .. Len(u) : Drain(u, m, next)
  BY DEF Puts
<1>. HIDE DEF u
<1>5. failed \in BOOLEAN
  BY <1>0 DEF STypes
<1>6. /\ Ordered(sink', held', done)
      /\ OnlyNotes(u) => OnlyNotes(held')
      /\ failed' \in BOOLEAN /\ (failed => failed')
      /\ phase' \in {next, "killed"}
      /\ \A x : Has(sink, x) => Has(sink', x)
      /\ ~failed' => \A x : Has(u, x) => Has(sink', x) \/ Has(held', x)
  BY <1>1, <1>2, <1>4, <1>5, DrainKeeps
<1>7. Writes # "libc" => OnlyNotes(held')
  BY <1>3, <1>6 DEF StreamsInv
<1>8. ~failed' \/ ~Careless => Delivered(sink', held', done)
  <2>1. CASE ~failed'
    BY <1>2, <1>6, <2>1 DEF StreamsInv, Delivered
  <2>2. CASE ~Careless
    <3>1. OnlyNotes(held) /\ Delivered(sink, held, done)
      BY <2>2 DEF StreamsInv, Careless
    <3>2. \A x \in 1 .. done : x \in 1 .. Len(given)
      BY <1>0 DEF STypes
    <3>3. \A x \in 1 .. done : ~Has(held, x)
      BY <1>1, <3>1, <3>2, NoItem
    <3>. QED
      BY <1>6, <3>1, <3>3 DEF Delivered
  <2>. QED
    BY <2>1, <2>2
<1>9. phase' \in {"read", "write", "killed"} /\ (phase' # "killed" => phase' = phase)
  BY <1>6
<1>10. Loops'
  BY <1>0, <1>6, <1>9 DEF Loops, Over
<1>11. /\ taken' \in Nat /\ done' \in Nat /\ done' <= taken' /\ taken' <= Len(given) /\ notes' \in Nat
       /\ reported' \in BOOLEAN
  BY <1>0 DEF STypes
<1>. QED
  BY <1>6, <1>7, <1>8, <1>9, <1>10, <1>11, StepKeeps

LEMMA NotesKeep == ASSUME StreamsInv, Interrupted \/ NoData
                   PROVE  StreamsInv'
<1>1. CASE Interrupted
  <2>1. /\ phase \in {"read", "write"} /\ notes' = notes + 1
        /\ Puts(<<Note>>, phase) \/ Puts(<<Note, Note>>, phase)
        /\ UNCHANGED <<program, given, taken, done, reported>>
    BY <1>1 DEF Interrupted
  <2>2. PICK q \in {<<Note>>, <<Note, Note>>} : Puts(q, phase)
    BY <2>1
  <2>. QED
    BY <2>1, <2>2, PrintKeeps
<1>2. CASE NoData
  <2>1. /\ phase = "read" /\ notes' = notes + 1 /\ Puts(<<Note>>, "read")
        /\ UNCHANGED <<program, given, taken, done, reported>>
    BY <1>2 DEF NoData
  <2>. QED
    BY <2>1, PrintKeeps
<1>. QED
  BY <1>1, <1>2

(* The bytes from done to n go straight to the descriptor; there are lines only in
   stdio's buffer. *)
LEMMA AcceptKeeps ==
    ASSUME given \in Seq(Byte), done \in Nat, NEW n \in Nat, done <= n, n <= Len(given),
           Ordered(sink, held, done), OnlyNotes(held),
           sink' = sink \o Items(done, n)
    PROVE  /\ Ordered(sink', held, n)
           /\ \A x : Has(sink, x) => Has(sink', x)
           /\ \A x \in done + 1 .. n : Has(sink', x)
<1>. DEFINE q == Items(done, n)
<1>1. /\ Known(q, n) /\ Sorted(q) /\ Before(sink, q)
      /\ \A k \in done + 1 .. n : Has(q, k)
  BY ItemsFacts DEF Ordered
<1>. HIDE DEF q
<1>2. /\ Known(sink, n) /\ Known(held, n) /\ Sorted(sink) /\ Sorted(held)
  BY KnownMore DEF Ordered
<1>3. sink' = sink \o q
  BY DEF q
<1>4. /\ Known(sink', n)
      /\ \A x : Has(sink, x) \/ Has(q, x) => Has(sink', x)
  BY <1>1, <1>2, <1>3, JoinKnown
<1>5. Sorted(sink')
  BY <1>1, <1>2, <1>3, JoinSorted DEF Known
<1>6. Before(sink', held)
  BY NotesBefore
<1>. QED
  BY <1>1, <1>2, <1>4, <1>5, <1>6 DEF Ordered

(* Either all up to n is given to a write and taken, or a careless program has seen
   a failure. *)
LEMMA WriteKeeps ==
    ASSUME StreamsInv, phase = "write", Writes # "libc", NEW n \in Nat, done <= n, n <= taken,
           done' = n, UNCHANGED <<program, given, taken, held, notes, reported>>,
           failed' \in BOOLEAN, failed => failed',
           \/ sink' = sink \o Items(done, n)
           \/ UNCHANGED sink /\ failed' /\ Careless
           \/ UNCHANGED sink /\ n = done,
           phase' \in {"read", "write", "exit"}, Loops'
    PROVE  StreamsInv'
<1>0. STypes /\ Ordered(sink, held, done) /\ OnlyNotes(held)
  BY DEF StreamsInv
<1>1. given \in Seq(Byte) /\ done \in Nat /\ Len(given) \in Nat /\ n <= Len(given) /\ taken \in Nat
  BY <1>0 DEF STypes
<1>2. CASE sink' = sink \o Items(done, n)
  <2>1. /\ Ordered(sink', held, n)
        /\ \A x : Has(sink, x) => Has(sink', x)
        /\ \A x \in done + 1 .. n : Has(sink', x)
    BY <1>0, <1>1, <1>2, AcceptKeeps
  <2>2. ASSUME ~failed' \/ ~Careless
        PROVE  Delivered(sink', held', done')
    <3>1. Delivered(sink, held, done)
      BY <2>2 DEF StreamsInv
    <3>2. ASSUME NEW x \in 1 .. n
          PROVE  Has(sink', x) \/ Has(held', x)
      <4>1. CASE x \in 1 .. done
        BY <2>1, <3>1, <4>1 DEF Delivered
      <4>2. CASE x \notin 1 .. done
        <5>1. x \in done + 1 .. n
          BY <1>1, <4>2
        <5>. QED
          BY <2>1, <5>1
      <4>. QED
        BY <4>1, <4>2
    <3>. QED
      BY <3>2 DEF Delivered
  <2>3. Ordered(sink', held', done')
    BY <2>1
  <2>. QED
    BY <1>0, <1>1, <2>2, <2>3, StepKeeps DEF STypes
<1>3. CASE UNCHANGED sink /\ (n = done \/ (failed' /\ Careless))
  <2>1. Known(sink, n) /\ Known(held, n)
    BY <1>0, <1>1, KnownMore DEF Ordered
  <2>2. Ordered(sink', held', done')
    BY <1>0, <1>3, <2>1 DEF Ordered
  <2>3. ~failed' \/ ~Careless => Delivered(sink', held', done')
    BY <1>3 DEF StreamsInv
  <2>. QED
    BY <1>0, <1>1, <2>2, <2>3, StepKeeps DEF STypes
<1>. QED
  BY <1>2, <1>3

LEMMA DescriptorKeeps == ASSUME StreamsInv, WriteLoop \/ WriteOnce \/ WriteByte
                         PROVE  StreamsInv'
<1>0. /\ STypes /\ Loops /\ done \in Nat /\ taken \in Nat /\ done <= taken /\ taken <= Len(given)
      /\ Len(given) \in Nat /\ failed \in BOOLEAN /\ reported \in BOOLEAN /\ program \in DOMAIN Program
  BY DEF StreamsInv, STypes
<1>1. CASE WriteLoop
  <2>1. PICK k \in 1 .. taken - done : Accept(k)
    BY <1>1 DEF WriteLoop
  <2>2. /\ phase = "write" /\ Writes = "loop"
        /\ phase' = IF done' = taken THEN "read" ELSE "write"
        /\ UNCHANGED <<program, given, taken, held, notes, reported, failed>>
    BY <1>1 DEF WriteLoop
  <2>3. PICK n \in Nat : n = done + k
    BY <1>0
  <2>4. done < n /\ n <= taken /\ done' = n /\ sink' = sink \o Items(done, n)
    BY <1>0, <2>1, <2>3 DEF Accept
  <2>5. Loops'
    BY <1>0, <2>2, <2>4 DEF Loops, Over
  <2>6. done <= n
    BY <1>0, <2>4
  <2>. QED
    BY <1>0, <2>2, <2>4, <2>5, <2>6, WriteKeeps
<1>2. CASE WriteOnce
  <2>1. PICK k \in 0 .. taken - done : /\ Accept(k)
                                       /\ phase' = IF k = taken - done THEN "read" ELSE "exit"
                                       /\ failed' = (failed \/ k < taken - done)
    BY <1>2 DEF WriteOnce
  <2>2. /\ phase = "write" /\ Writes = "once"
        /\ UNCHANGED <<program, given, taken, held, notes, reported>>
    BY <1>2 DEF WriteOnce
  <2>3. PICK n \in Nat : n = done + k
    BY <1>0
  <2>4. done <= n /\ n <= taken /\ done' = n /\ sink' = sink \o Items(done, n)
    BY <1>0, <2>1, <2>3 DEF Accept
  <2>5. failed' \in BOOLEAN /\ (failed => failed')
    BY <1>0, <2>1
  <2>6. Writes' = Writes
    BY <2>2 DEF Writes
  <2>7. Loops'
    <3>1. CASE k = taken - done
      <4>1. n = taken /\ phase' = "read"
        BY <1>0, <2>1, <2>3, <3>1
      <4>. QED
        BY <1>0, <2>2, <2>4, <2>5, <4>1 DEF Loops, Over
    <3>2. CASE k # taken - done
      <4>1. k < taken - done /\ phase' = "exit"
        BY <1>0, <2>1, <3>2
      <4>2. failed'
        BY <2>1, <4>1
      <4>. QED
        BY <1>0, <2>2, <2>6, <4>1, <4>2 DEF Loops, Over
    <3>. QED
      BY <3>1, <3>2
  <2>8. phase' \in {"read", "write", "exit"}
    BY <2>1
  <2>9. Writes # "libc"
    BY <2>2
  <2>. QED
    BY <2>2, <2>4, <2>5, <2>7, <2>8, <2>9, WriteKeeps
<1>3. CASE WriteByte
  <2>1. /\ phase = "write" /\ Writes = "byte"
        /\ UNCHANGED <<program, given, taken, held, notes, reported>>
    BY <1>3 DEF WriteByte
  <2>2. Writes # "libc" /\ Careless /\ Writes' = Writes /\ done < taken
    BY <1>0, <2>1 DEF Careless, Writes, Loops
  <2>3. CASE Is("task10_3") /\ given[done + 1] = "ff"
    <3>1. phase' = "exit" /\ UNCHANGED <<done, sink, failed>>
      BY <1>3, <2>3 DEF WriteByte
    <3>2. done < Len(given) /\ Is("task10_3")' /\ given'[done' + 1] = "ff"
      BY <1>0, <2>1, <2>2, <2>3, <3>1 DEF Is
    <3>3. Loops'
      BY <1>0, <2>1, <2>2, <3>1, <3>2 DEF Loops, Over
    <3>. QED
      BY <1>0, <2>1, <2>2, <3>1, <3>3, WriteKeeps
  <2>4. CASE ~(Is("task10_3") /\ given[done + 1] = "ff")
    <3>1. /\ phase' = IF done + 1 = taken THEN "read" ELSE "write"
          /\ \/ Accept(1) /\ UNCHANGED failed
             \/ done' = done + 1 /\ failed' = TRUE /\ UNCHANGED sink
      BY <1>3, <2>4 DEF WriteByte
    <3>2. PICK n \in Nat : n = done + 1
      BY <1>0
    <3>3. done <= n /\ n <= taken /\ done' = n
      BY <1>0, <2>2, <3>1, <3>2 DEF Accept
    <3>4. \/ sink' = sink \o Items(done, n) /\ failed' = failed
          \/ UNCHANGED sink /\ failed' = TRUE
      BY <3>1, <3>2 DEF Accept
    <3>5. phase' = IF n = taken THEN "read" ELSE "write"
      BY <3>1, <3>2
    <3>6. failed' \in BOOLEAN /\ (failed => failed')
      BY <1>0, <3>4
    <3>7. Loops'
      BY <1>0, <2>1, <3>3, <3>5, <3>6 DEF Loops, Over
    <3>8. phase' \in {"read", "write", "exit"}
      BY <3>5
    <3>. QED
      BY <2>1, <2>2, <3>3, <3>4, <3>6, <3>7, <3>8, WriteKeeps
  <2>. QED
    BY <2>3, <2>4
<1>. QED
  BY <1>1, <1>2, <1>3

(* fwrite puts the bytes behind what it holds. *)
LEMMA LibcKeeps == ASSUME StreamsInv, WriteLibc
                   PROVE  StreamsInv'
<1>0. /\ STypes /\ Loops /\ Ordered(sink, held, done)
      /\ done \in Nat /\ taken \in Nat /\ done <= taken /\ taken <= Len(given)
      /\ failed \in BOOLEAN /\ given \in Seq(Byte)
  BY DEF StreamsInv, STypes
<1>. DEFINE q == Items(done, taken)
            u == held \o q
<1>1. /\ phase = "write" /\ Writes = "libc" /\ done' = taken
      /\ UNCHANGED <<program, given, taken, notes, reported>>
  BY DEF WriteLibc
<1>2. PICK m \in 0 .. Len(u) : Drain(u, m, "read")
  BY Zenon DEF WriteLibc
<1>3. /\ Known(q, taken) /\ Sorted(q) /\ Before(sink, q) /\ Before(held, q)
      /\ \A k \in done + 1 .. taken : Has(q, k)
  BY <1>0, ItemsFacts DEF Ordered
<1>. HIDE DEF q
<1>4. Known(sink, taken) /\ Known(held, taken) /\ Sorted(sink) /\ Sorted(held) /\ Before(sink, held)
  BY <1>0, KnownMore DEF Ordered
<1>5. \A x : Has(held, x) \/ Has(q, x) => Has(u, x)
  BY <1>3, <1>4, JoinKnown
<1>6. Known(u, taken) /\ Sorted(u) /\ Before(sink, u)
  BY <1>0, <1>3, <1>4, HeldMore
<1>. HIDE DEF u
<1>7. /\ Ordered(sink', held', taken)
      /\ failed' \in BOOLEAN /\ (failed => failed')
      /\ phase' \in {"read", "killed"}
      /\ \A x : Has(sink, x) => Has(sink', x)
      /\ ~failed' => \A x : Has(u, x) => Has(sink', x) \/ Has(held', x)
  BY <1>0, <1>2, <1>4, <1>6, DrainKeeps
<1>8. ASSUME ~failed'
      PROVE  Delivered(sink', held', taken)
  <2>1. Delivered(sink, held, done)
    BY <1>7, <1>8 DEF StreamsInv
  <2>2. ASSUME NEW x \in 1 .. taken
        PROVE  Has(sink', x) \/ Has(held', x)
    <3>1. CASE x \in 1 .. done
      BY <1>5, <1>7, <1>8, <2>1, <3>1 DEF Delivered
    <3>2. CASE x \notin 1 .. done
      <4>1. x \in done + 1 .. taken
        BY <1>0, <3>2
      <4>. QED
        BY <1>3, <1>5, <1>7, <1>8, <4>1
    <3>. QED
      BY <3>1, <3>2
  <2>. QED
    BY <2>2 DEF Delivered
<1>9. Careless
  BY <1>1 DEF Careless
<1>10. Loops'
  BY <1>0, <1>1, <1>7 DEF Loops, Over
<1>11. /\ taken' \in Nat /\ done' \in Nat /\ done' <= taken' /\ taken' <= Len(given) /\ notes' \in Nat
       /\ reported' \in BOOLEAN
  BY <1>0, <1>1 DEF STypes
<1>. QED
  BY <1>1, <1>7, <1>8, <1>9, <1>10, <1>11, StepKeeps

LEMMA EndKeeps == ASSUME StreamsInv, WriteFails \/ BrokenPipe \/ Exit
                  PROVE  StreamsInv'
<1>0. /\ STypes /\ Loops /\ Ordered(sink, held, done) /\ done \in Nat
      /\ given \in Seq(Byte) /\ failed \in BOOLEAN /\ reported \in BOOLEAN
  BY DEF StreamsInv, STypes
<1>1. CASE WriteFails \/ BrokenPipe
  <2>1. /\ phase' \in {"exit", "killed"} /\ failed' = TRUE
        /\ UNCHANGED <<program, given, taken, done, stdio, notes>>
    BY <1>1 DEF WriteFails, BrokenPipe
  <2>2. reported' \in BOOLEAN /\ (phase' = "exit" => reported')
    <3>1. CASE WriteFails
      BY <3>1 DEF WriteFails
    <3>2. CASE BrokenPipe
      BY <1>0, <3>2 DEF BrokenPipe
    <3>. QED
      BY <1>1, <3>1, <3>2
  <2>5. reported' => failed'
    BY <2>1
  <2>3. Loops'
    BY <2>1, <2>2, <2>5 DEF Loops, Over
  <2>4. taken' \in Nat /\ done' \in Nat /\ notes' \in Nat /\ done' <= taken' /\ taken' <= Len(given)
    BY <1>0, <2>1 DEF STypes
  <2>. QED
    BY <2>1, <2>2, <2>3, <2>4, StdioStays, StepKeeps
<1>2. CASE Exit
  <2>1. /\ phase = "exit" /\ Drain(held, Len(held), "end")
        /\ UNCHANGED <<program, given, taken, done, notes, reported>>
    BY <1>2 DEF Exit
  <2>2. /\ Known(sink, done) /\ Known(held, done) /\ Sorted(sink) /\ Sorted(held) /\ Before(sink, held)
        /\ Len(held) \in 0 .. Len(held)
    BY <1>0 DEF Ordered, Known
  <2>3. /\ Ordered(sink', held', done)
        /\ OnlyNotes(held) => OnlyNotes(held')
        /\ held' = <<>>
        /\ failed' \in BOOLEAN /\ (failed => failed')
        /\ phase' \in {"end", "killed"}
        /\ \A x : Has(sink, x) => Has(sink', x)
        /\ ~failed' => \A x : Has(held, x) => Has(sink', x) \/ Has(held', x)
    BY <1>0, <2>1, <2>2, DrainKeeps
  <2>4. ~failed' \/ ~Careless => Delivered(sink', held', done)
    <3>1. CASE ~failed'
      BY <2>3, <3>1 DEF StreamsInv, Delivered
    <3>2. CASE ~Careless
      <4>1. OnlyNotes(held) /\ Delivered(sink, held, done)
        BY <3>2 DEF StreamsInv, Careless
      <4>2. \A x \in 1 .. done : x \in 1 .. Len(given)
        BY <1>0 DEF STypes
      <4>3. \A x \in 1 .. done : ~Has(held, x)
        BY <1>0, <4>1, <4>2, NoItem
      <4>. QED
        BY <2>3, <4>1, <4>3 DEF Delivered
    <3>. QED
      BY <3>1, <3>2
  <2>5. Writes' = Writes
    BY <2>1 DEF Writes
  <2>6. Loops'
    BY <1>0, <2>1, <2>3, <2>5 DEF Loops, Over, Is
  <2>7. /\ taken' \in Nat /\ done' \in Nat /\ done' <= taken' /\ taken' <= Len(given) /\ notes' \in Nat
        /\ reported' \in BOOLEAN
    BY <1>0, <2>1 DEF STypes
  <2>8. Writes # "libc" => OnlyNotes(held')
    BY <2>3 DEF StreamsInv
  <2>. QED
    BY <2>1, <2>3, <2>4, <2>6, <2>7, <2>8, StepKeeps
<1>. QED
  BY <1>1, <1>2

LEMMA NextStreams == StreamsInv /\ [Next]_vars => StreamsInv'
<1>. SUFFICES ASSUME StreamsInv, [Next]_vars
              PROVE  StreamsInv'
  OBVIOUS
<1>1. CASE SetupWorks \/ SetupFails \/ ConnectFails \/ AcceptFails \/ ResolveFails
  BY <1>1, SetupKeeps
<1>2. CASE Read \/ ReadEof \/ ReadFails
  BY <1>2, ReadKeeps
<1>3. CASE Interrupted \/ NoData
  BY <1>3, NotesKeep
<1>4. CASE WriteLoop \/ WriteOnce \/ WriteByte
  BY <1>4, DescriptorKeeps
<1>5. CASE WriteLibc
  BY <1>5, LibcKeeps
<1>6. CASE WriteFails \/ BrokenPipe \/ Exit
  BY <1>6, EndKeeps
<1>7. CASE Ended \/ UNCHANGED vars
  <2>1. UNCHANGED <<program, given, taken, done, stdio, notes, phase, reported, failed>>
    BY <1>7 DEF Ended, vars
  <2>2. Loops'
    <3>1. Writes' = Writes /\ Is("task10_3")' = Is("task10_3")
      BY <2>1 DEF Writes, Is
    <3>2. Loops /\ held' = held
      BY <2>1 DEF StreamsInv, stdio
    <3>. QED
      BY <2>1, <3>1, <3>2 DEF Loops, Over
  <2>. QED
    BY <2>1, <2>2, StdioStays, StepKeeps DEF StreamsInv, STypes
<1>. QED
  BY <1>1, <1>2, <1>3, <1>4, <1>5, <1>6, <1>7 DEF Next

(* In every program and at every step what is written, then what stdio holds, is
   bytes given to a write, in their order, among lines of the program's own, and
   nothing given to a write is in neither unless a write whose result is ignored
   has failed. *)
THEOREM StreamsInvariant == Spec => []StreamsInv
BY InitStreams, NextStreams, PTL DEF Spec

(* No byte is written twice, changed or out of order, and none is left out but
   where the result of a write is ignored (task11_2.c:23-37, sem12/main.c:24-40,
   sem19/main.c:36-54, 95-104, sem20/main.c:93-118). *)
THEOREM StreamsInOrder == Spec => []InOrder
<1>1. ASSUME StreamsInv
      PROVE  InOrder
  <2>0. /\ DOMAIN sink = 1 .. Len(sink) /\ DOMAIN held = 1 .. Len(held)
        /\ Known(sink, done) /\ Sorted(sink)
    BY <1>1 DEF StreamsInv, Ordered, Known
  <2>1. \A i, j \in DOMAIN sink : i < j /\ Note \notin {sink[i], sink[j]} => sink[i].at < sink[j].at
    BY <2>0 DEF Sorted
  <2>2. \A i \in DOMAIN sink : sink[i] = Note \/ \E n \in 1 .. done : sink[i] = Item(n)
    BY <2>0 DEF Known
  <2>3. \A n : (Has(sink, n) => In(sink, n)) /\ (Has(held, n) => In(held, n))
    BY <2>0 DEF Has, In
  <2>4. ~failed \/ Writes \notin {"byte", "libc"} => \A n \in 1 .. done : In(sink, n) \/ In(held, n)
    BY <1>1, <2>3 DEF StreamsInv, Delivered, Careless
  <2>. QED
    BY <2>1, <2>2, <2>4 DEF InOrder
<1>. QED
  BY <1>1, StreamsInvariant, PTL

(* A program that ends by itself has written all of its input unless a call failed;
   copy_file and the sending of a request then report it, and only then. *)
THEOREM StreamsComplete == Spec => []CompleteOrReported
<1>1. ASSUME StreamsInv
      PROVE  CompleteOrReported
  <2>. SUFFICES ASSUME phase = "end"
                PROVE  /\ ~failed => \A n \in Whole : In(sink, n)
                       /\ Writes = "loop" /\ ~reported => \A n \in 1 .. Len(given) : In(sink, n)
                       /\ reported => failed
    BY DEF CompleteOrReported
  <2>0. /\ Loops /\ held = <<>> /\ DOMAIN sink = 1 .. Len(sink) /\ done \in Nat /\ Len(given) \in Nat
    BY <1>1 DEF StreamsInv, Ordered, Known, Loops, STypes
  <2>1. ASSUME Delivered(sink, held, done), NEW n \in 1 .. done
        PROVE  In(sink, n)
    <3>1. ~Has(held, n)
      BY <2>0 DEF Has
    <3>2. Has(sink, n)
      BY <2>1, <3>1 DEF Delivered
    <3>. QED
      BY <2>0, <3>2 DEF Has, In
  <2>2. ASSUME ~failed, NEW n \in Whole
        PROVE  In(sink, n)
    <3>1. /\ n \in 1 .. Len(given)
          /\ Is("task10_3") => \A m \in 1 .. n : given[m] # "ff"
      BY DEF Whole
    <3>2. \/ done = Len(given)
          \/ Is("task10_3") /\ done < Len(given) /\ given[done + 1] = "ff"
      BY <2>0, <2>2 DEF Loops, Over
    <3>3. n \in 1 .. done
      <4>1. CASE done = Len(given)
        BY <3>1, <4>1
      <4>2. CASE Is("task10_3") /\ done < Len(given) /\ given[done + 1] = "ff"
        <5>1. done + 1 \notin 1 .. n
          BY <3>1, <4>2
        <5>. QED
          BY <2>0, <3>1, <5>1
      <4>. QED
        BY <3>2, <4>1, <4>2
    <3>. QED
      BY <1>1, <2>1, <2>2, <3>3 DEF StreamsInv
  <2>3. ASSUME Writes = "loop", ~reported, NEW n \in 1 .. Len(given)
        PROVE  In(sink, n)
    <3>1. done = Len(given) /\ ~Careless
      BY <2>0, <2>3 DEF Loops, Over, Careless
    <3>. QED
      BY <1>1, <2>1, <2>3, <3>1 DEF StreamsInv
  <2>4. reported => failed
    BY <2>0 DEF Loops
  <2>. QED
    BY <2>2, <2>3, <2>4
<1>. QED
  BY <1>1, StreamsInvariant, PTL

(***************************************************************************)
(* string_t (StringBuffer).                                                *)
(***************************************************************************)

(* The allocation of a string in use: none, one without a byte after a reserve of
   SIZE_MAX, or what capacity says and one byte for the zero; what has been
   appended ends with it. *)
Allocation == \/ capacity = 0
              \/ capacity = SizeMax /\ kept = <<>> /\ DOMAIN mem = {}
              \/ capacity < MaxObject /\ DOMAIN mem = 0 .. capacity
InUse == /\ len = Len(kept) /\ len <= capacity /\ Allocation
         /\ kept # <<>> => mem[len] = 0
         /\ undefined = "no" => \A k \in 0 .. len - 1 : mem[k] = kept[k + 1]

StringInv == /\ kept \in Seq(Int) /\ capacity \in Nat
             /\ undefined \in {"no", "freed", "null", "overrun", "dangling"}
             /\ undefined = "overrun" => capacity = SizeMax \/ len >= HalfRange
             /\ undefined = "null" => kept = <<>>
             /\ Sound => InUse

LEMMA SizeFacts == /\ HalfRange \in Nat \ {0} /\ MaxObject \in Nat \ {0} /\ MaxObject < HalfRange
                   /\ SizeMod = 2 * HalfRange /\ SizeMod \in Nat \ {0} /\ SizeMax = SizeMod - 1
BY ObjectAssumption DEF SizeMod, SizeMax

(* A number less than 2^64 is itself as a size_t, and 2^64 is zero. *)
LEMMA SizeTFacts ==
    /\ \A n \in Nat : SizeT(n) \in 0 .. SizeMax
    /\ \A n \in Nat : n < SizeMod => SizeT(n) = n
    /\ SizeT(SizeMod) = 0
BY SizeFacts DEF SizeT

(* Two sequences one behind the other. *)
LEMMA Joined ==
    ASSUME NEW T, NEW s \in Seq(T), NEW t \in Seq(T)
    PROVE  /\ s \o t \in Seq(T) /\ Len(s \o t) = Len(s) + Len(t)
           /\ \A i \in 1 .. Len(s) : (s \o t)[i] = s[i]
           /\ \A i \in 1 .. Len(t) : (s \o t)[Len(s) + i] = t[i]
BY ConcatProperties

(* A buffer that has grown keeps what it held. *)
LEMMA MemoryFacts ==
    ASSUME NEW n \in 0 .. SizeMax
    PROVE  /\ DOMAIN Memory(n) = 0 .. SizeT(n + 1) - 1
           /\ n < SizeMax => DOMAIN Memory(n) = 0 .. n /\ SizeT(n + 1) = n + 1
           /\ n = SizeMax => DOMAIN Memory(n) = {} /\ SizeT(n + 1) = 0
           /\ \A k \in DOMAIN Memory(n) : k \in DOMAIN mem => Memory(n)[k] = mem[k]
<1>1. DOMAIN Memory(n) = 0 .. SizeT(n + 1) - 1
  BY DEF Memory
<1>2. n < SizeMax => SizeT(n + 1) = n + 1
  <2>1. n < SizeMax => n + 1 \in Nat /\ n + 1 < SizeMod
    BY SizeFacts
  <2>. QED
    BY <2>1, SizeTFacts
<1>3. n = SizeMax => SizeT(n + 1) = 0
  <2>1. n = SizeMax => n + 1 = SizeMod
    BY SizeFacts
  <2>. QED
    BY <2>1, SizeTFacts
<1>4. \A k \in DOMAIN Memory(n) : k \in DOMAIN mem => Memory(n)[k] = mem[k]
  BY DEF Memory
<1>5. n < SizeMax => 0 .. n + 1 - 1 = 0 .. n
  BY SizeFacts
<1>6. 0 .. 0 - 1 = {}
  OBVIOUS
<1>. QED
  BY <1>1, <1>2, <1>3, <1>4, <1>5, <1>6

(* What string_append_buffer does to a string in use: what it is given follows what
   was there, then comes a zero, and all of it is inside the allocation, but where
   the string is overrun or there is none. *)
LEMMA AppendFacts ==
    ASSUME StringInv, NEW S, NEW src \in Seq(S), Len(src) <= MaxObject,
           NEW ub \in {"no", "freed"}, AppendBuffer(src, ub)
    PROVE  /\ len' = len + Len(src) /\ capacity' \in Nat
           /\ undefined' \in {"no", "freed", "null", "overrun"}
           /\ undefined' = "overrun" => capacity' = SizeMax \/ len' >= HalfRange
           /\ undefined' = "null" => len' = 0
           /\ Sound' => /\ len' <= capacity' /\ capacity' < MaxObject /\ DOMAIN mem' = 0 .. capacity'
                        /\ mem'[len'] = 0
           /\ undefined' = "no" => /\ undefined = "no" /\ ub = "no"
                                   /\ \A k \in 0 .. len - 1 : mem'[k] = mem[k]
                                   /\ \A k \in len .. len' - 1 : mem'[k] = src[k - len + 1]
<1>. DEFINE required == len + Len(src)
            grows == required > capacity
            twice == SizeT(2 * required)
            room == IF grows THEN Memory(twice) ELSE mem
<1>0. Sound /\ InUse
  BY DEF AppendBuffer, StringInv
<1>1. /\ len \in Nat /\ capacity \in Nat /\ len <= capacity /\ Len(src) \in Nat /\ len < MaxObject
      /\ required \in Nat /\ required < SizeMod
  <2>1. len = Len(kept) /\ len \in Nat /\ len <= capacity /\ Allocation /\ capacity \in Nat
    BY <1>0 DEF InUse, StringInv
  <2>2. kept = <<>> => len = 0
    BY <2>1
  <2>3. len < MaxObject
    BY <2>1, <2>2, SizeFacts DEF Allocation
  <2>. QED
    BY <2>1, <2>3, SizeFacts
<1>2. SizeT(required) = required /\ twice \in 0 .. SizeMax
  <2>1. required \in Nat /\ 2 * required \in Nat /\ required < SizeMod
    BY <1>1
  <2>2. SizeT(2 * required) \in 0 .. SizeMax
    BY <2>1, SizeTFacts, Zenon
  <2>3. SizeT(required) = required
    BY <2>1, SizeTFacts, Zenon
  <2>. QED
    BY <2>2, <2>3
<1>3. /\ grows => CanReserve(twice)
      /\ mem' = [k \in DOMAIN room |->
                    IF k \in len .. len + Len(src) - 1 THEN src[k - len + 1]
                    ELSE IF k = len + Len(src) THEN 0 ELSE room[k]]
      /\ capacity' = IF grows THEN twice ELSE capacity
      /\ len' = required
      /\ undefined' = IF capacity' = 0 THEN "null"
                      ELSE IF required \notin DOMAIN room THEN "overrun"
                      ELSE IF ub # "no" THEN ub ELSE undefined
  BY <1>2 DEF AppendBuffer
<1>4. capacity' \in Nat /\ (grows => capacity' > capacity)
  BY <1>1, <1>2, <1>3 DEF CanReserve
<1>5. \/ capacity' = 0 /\ required = 0
      \/ required \notin DOMAIN room /\ (capacity' = SizeMax \/ required >= HalfRange)
      \/ /\ capacity' # 0 /\ required <= capacity' /\ capacity' < MaxObject
         /\ DOMAIN room = 0 .. capacity'
  <2>1. CASE ~grows
    <3>1. capacity' = capacity /\ room = mem /\ required <= capacity
      BY <1>1, <1>3, <2>1
    <3>2. Allocation
      BY <1>0 DEF InUse
    <3>. HIDE DEF room
    <3>. QED
      BY <1>1, <3>1, <3>2, SizeFacts DEF Allocation
  <2>2. CASE grows /\ required >= HalfRange
    <3>1. DOMAIN room = 0 .. SizeT(twice + 1) - 1 /\ SizeT(twice + 1) <= MaxObject
      BY <1>2, <1>3, <2>2, MemoryFacts DEF CanReserve
    <3>2. SizeT(twice + 1) \in Nat
      BY <1>2, SizeTFacts, SizeFacts
    <3>. HIDE DEF room, twice
    <3>3. required \notin DOMAIN room
      BY <1>1, <2>2, <3>1, <3>2, SizeFacts
    <3>. QED
      BY <2>2, <3>3
  <2>3. CASE grows /\ required < HalfRange
    <3>1. 2 * required \in Nat /\ 2 * required < SizeMax
      BY <1>1, <2>3, SizeFacts
    <3>2. twice = 2 * required
      <4>1. 2 * required < SizeMod
        BY <3>1, SizeFacts
      <4>. QED
        BY <3>1, <4>1, SizeTFacts
    <3>3. /\ DOMAIN room = 0 .. 2 * required /\ SizeT(twice + 1) = 2 * required + 1
          /\ SizeT(twice + 1) <= MaxObject
      BY <1>2, <1>3, <2>3, <3>1, <3>2, MemoryFacts DEF CanReserve
    <3>4. capacity' = 2 * required
      BY <1>3, <2>3, <3>2
    <3>. HIDE DEF room, twice
    <3>. QED
      BY <1>1, <2>3, <3>1, <3>3, <3>4, SizeFacts
  <2>. QED
    BY <1>1, <2>1, <2>2, <2>3, SizeFacts
<1>6. DOMAIN mem' = DOMAIN room
  BY <1>3
<1>7. Sound' => /\ capacity' # 0 /\ required <= capacity' /\ capacity' < MaxObject
                /\ DOMAIN room = 0 .. capacity' /\ required \in DOMAIN room
  <2>. HIDE DEF room
  <2>. QED
    BY <1>1, <1>3, <1>4, <1>5, Zenon DEF Sound
<1>8. ASSUME Sound', NEW k \in 0 .. len - 1
      PROVE  k \in DOMAIN room /\ room[k] = mem[k]
  <2>0. k \in 0 .. capacity' /\ k \in DOMAIN room
    <3>. HIDE DEF room
    <3>. QED
      BY <1>1, <1>4, <1>7, <1>8
  <2>1. k \in DOMAIN mem
    <3>1. kept # <<>> /\ capacity # 0
      BY <1>0, <1>1 DEF InUse
    <3>2. DOMAIN mem = 0 .. capacity
      BY <1>0, <3>1 DEF InUse, Allocation
    <3>. QED
      BY <1>1, <3>2
  <2>2. CASE grows
    <3>1. room = Memory(twice)
      BY <2>2
    <3>. HIDE DEF room, twice
    <3>. QED
      BY <1>2, <2>0, <2>1, <3>1, MemoryFacts
  <2>3. CASE ~grows
    BY <2>0, <2>1, <2>3
  <2>. QED
    BY <2>2, <2>3
<1>. HIDE DEF room, twice
<1>9. Sound' => mem'[required] = 0
  <2>1. required \notin len .. len + Len(src) - 1
    BY <1>1
  <2>. QED
    BY <1>3, <1>7, <2>1
<1>10. Sound' => \A k \in 0 .. len - 1 : mem'[k] = mem[k]
  BY <1>1, <1>3, <1>8
<1>11. ASSUME Sound', NEW k \in len .. required - 1
       PROVE  mem'[k] = src[k - len + 1]
  <2>1. k \in len .. len + Len(src) - 1 /\ k \in 0 .. capacity'
    BY <1>1, <1>4, <1>7, <1>11
  <2>2. k \in DOMAIN room
    BY <1>7, <1>11, <2>1
  <2>. QED
    BY <1>3, <2>1, <2>2
<1>12. undefined \in {"no", "freed"} /\ (undefined' = "no" => undefined = "no" /\ ub = "no")
  BY <1>0, <1>3 DEF Sound
<1>13. undefined' \in {"no", "freed", "null", "overrun"}
  BY <1>3, <1>12
<1>14. undefined' = "overrun" => capacity' = SizeMax \/ len' >= HalfRange
  <2>1. undefined' = "overrun" => required \notin DOMAIN room /\ capacity' # 0
    BY <1>3, <1>12
  <2>2. \/ capacity' = 0
        \/ required \notin DOMAIN room /\ (capacity' = SizeMax \/ required >= HalfRange)
        \/ required \in DOMAIN room
    BY <1>1, <1>4, <1>5
  <2>. QED
    BY <1>3, <2>1, <2>2
<1>15. undefined' = "null" => len' = 0
  <2>1. undefined' = "null" => capacity' = 0
    BY <1>3, <1>12
  <2>2. capacity' = 0 => required = 0
    BY <1>1, <1>3, <1>4, <1>5, SizeFacts
  <2>. QED
    BY <1>3, <2>1, <2>2
<1>. QED
  BY <1>3, <1>4, <1>6, <1>7, <1>9, <1>10, <1>11, <1>12, <1>13, <1>14, <1>15 DEF Sound

(* So a string stays as StringInv says when what the caller counts as appended is
   what the buffer was given. *)
LEMMA AppendKeeps ==
    ASSUME StringInv, NEW S, NEW src \in Seq(S), Len(src) <= MaxObject,
           NEW ub \in {"no", "freed"}, AppendBuffer(src, ub),
           NEW more \in Seq(Int), Len(more) = Len(src), kept' = kept \o more,
           undefined = "no" /\ ub = "no" => \A i \in 1 .. Len(src) : src[i] = more[i]
    PROVE  StringInv'
<1>1. /\ kept \in Seq(Int) /\ len = Len(kept) /\ len \in Nat /\ Len(src) \in Nat
      /\ undefined = "no" => \A k \in 0 .. len - 1 : mem[k] = kept[k + 1]
  BY DEF StringInv, InUse, AppendBuffer
<1>2. /\ kept' \in Seq(Int) /\ Len(kept') = len + Len(src)
      /\ \A i \in 1 .. len : kept'[i] = kept[i]
      /\ \A i \in 1 .. Len(src) : kept'[len + i] = more[i]
  <2>1. Len(kept') = Len(kept) + Len(more) /\ kept' \in Seq(Int)
    BY <1>1, Joined
  <2>2. \A i \in 1 .. Len(kept) : kept'[i] = kept[i]
    BY <1>1, Joined
  <2>3. \A i \in 1 .. Len(more) : kept'[Len(kept) + i] = more[i]
    BY <1>1, Joined
  <2>. QED
    BY <1>1, <2>1, <2>2, <2>3
<1>3. /\ len' = len + Len(src) /\ capacity' \in Nat
      /\ undefined' \in {"no", "freed", "null", "overrun"}
      /\ undefined' = "overrun" => capacity' = SizeMax \/ len' >= HalfRange
      /\ undefined' = "null" => len' = 0
      /\ Sound' => /\ len' <= capacity' /\ capacity' < MaxObject /\ DOMAIN mem' = 0 .. capacity'
                   /\ mem'[len'] = 0
  BY AppendFacts
<1>4. len' = Len(kept') /\ (len' = 0 => kept' = <<>>)
  BY <1>1, <1>2, <1>3
<1>5. ASSUME undefined' = "no", NEW k \in 0 .. len' - 1
      PROVE  mem'[k] = kept'[k + 1]
  <2>1. /\ undefined = "no" /\ ub = "no" /\ len' = len + Len(src)
        /\ \A j \in 0 .. len - 1 : mem'[j] = mem[j]
        /\ \A j \in len .. len' - 1 : mem'[j] = src[j - len + 1]
    BY <1>5, AppendFacts
  <2>2. CASE k < len
    <3>1. k \in 0 .. len - 1 /\ k + 1 \in 1 .. len
      BY <1>1, <2>1, <2>2
    <3>. QED
      BY <1>1, <1>2, <2>1, <3>1
  <2>3. CASE k >= len
    <3>1. k \in len .. len' - 1 /\ k - len + 1 \in 1 .. Len(src)
          /\ len + (k - len + 1) = k + 1
      BY <1>1, <2>1, <2>3
    <3>2. kept'[k + 1] = more[k - len + 1] /\ src[k - len + 1] = more[k - len + 1]
      BY <1>2, <2>1, <3>1
    <3>. QED
      BY <2>1, <3>1, <3>2
  <2>. QED
    BY <1>1, <2>1, <2>2, <2>3
<1>6. Sound' => InUse'
  BY <1>3, <1>4, <1>5 DEF InUse, Allocation
<1>7. undefined' = "null" => kept' = <<>>
  BY <1>3, <1>4
<1>8. undefined' \in {"no", "freed", "null", "overrun", "dangling"}
  BY <1>3
<1>9. undefined' = "overrun" => (capacity = SizeMax \/ len >= HalfRange)'
  BY <1>3 DEF SizeMax, SizeMod
<1>. QED
  BY <1>2, <1>3, <1>6, <1>7, <1>8, <1>9 DEF StringInv

LEMMA AppendBytesKeeps == ASSUME StringInv, NEW n \in 0 .. MaxObject, AppendBytes(n)
                          PROVE  StringInv'
<1>. DEFINE bytes == [i \in 1 .. n |-> Len(kept) + i]
<1>1. n \in Nat /\ n <= MaxObject /\ Len(kept) \in Nat
  BY SizeFacts DEF StringInv
<1>2. bytes \in Seq(Int) /\ Len(bytes) = n
  BY <1>1
<1>3. AppendBuffer(bytes, "no") /\ kept' = kept \o bytes
  BY DEF AppendBytes
<1>. HIDE DEF bytes
<1>. QED
  BY <1>1, <1>2, <1>3, AppendKeeps

(* A string appended to itself: if the bytes were freed before they were copied,
   the string says so, and otherwise they are what the string held. *)
LEMMA AppendItselfKeeps == ASSUME StringInv, AppendItself
                           PROVE  StringInv'
<1>0. Sound /\ InUse /\ kept \in Seq(Int) /\ capacity \in Nat
  BY DEF AppendItself, AppendBuffer, StringInv
<1>1. /\ kept' = kept \o kept
      /\ kept \in Seq(Int) /\ len = Len(kept) /\ len \in Nat /\ len <= MaxObject
      /\ undefined = "no" => \A k \in 0 .. len - 1 : mem[k] = kept[k + 1]
  <2>1. kept = <<>> => len = 0
    BY <1>0 DEF InUse
  <2>. QED
    BY <1>0, <2>1, SizeFacts DEF AppendItself, InUse, Allocation
<1>2. CASE AppendBuffer([i \in 1 .. len |-> mem[i - 1]], "no")
  <2>. DEFINE bytes == [i \in 1 .. len |-> mem[i - 1]]
              S == {mem[k] : k \in 0 .. len - 1}
  <2>1. \A i \in 1 .. len : mem[i - 1] \in S
    BY <1>1
  <2>2. bytes \in Seq(S) /\ Len(bytes) = len
    <3>. HIDE DEF S
    <3>. QED
      BY <1>1, <2>1
  <2>3. undefined = "no" => \A i \in 1 .. Len(bytes) : bytes[i] = kept[i]
    BY <1>1, <2>2
  <2>4. AppendBuffer(bytes, "no")
    BY <1>2
  <2>. HIDE DEF bytes, S
  <2>. QED
    BY <1>1, <2>2, <2>3, <2>4, AppendKeeps
<1>3. CASE AppendBuffer([i \in 1 .. len |-> Junk], "freed")
  <2>. DEFINE junk == [i \in 1 .. len |-> Junk]
  <2>1. junk \in Seq(Int) /\ Len(junk) = len
    BY <1>1 DEF Junk
  <2>2. AppendBuffer(junk, "freed")
    BY <1>3
  <2>. HIDE DEF junk
  <2>. QED
    BY <1>1, <2>1, <2>2, AppendKeeps
<1>. QED
  BY <1>2, <1>3 DEF AppendItself

(* string_reserve moves what there is into a longer allocation; one of SIZE_MAX
   succeeds only for a string that holds nothing. *)
LEMMA ReserveKeeps == ASSUME StringInv, NEW n \in 0 .. SizeMax, Reserve(n)
                      PROVE  StringInv'
<1>0. Sound /\ InUse /\ kept \in Seq(Int) /\ capacity \in Nat /\ len = Len(kept) /\ len \in Nat
      /\ len <= capacity
  BY DEF Reserve, StringInv, InUse
<1>1. /\ n > capacity /\ SizeT(n + 1) <= MaxObject /\ (SizeT(n + 1) = 0 => capacity = 0)
      /\ mem' = Memory(n) /\ capacity' = n /\ UNCHANGED <<len, kept, undefined>>
  BY DEF Reserve, CanReserve, Null
<1>2. n \in Nat /\ len <= n
  BY <1>0, <1>1
<1>3. CASE n = SizeMax
  <2>1. DOMAIN mem' = {} /\ len = 0 /\ kept = <<>>
    BY <1>0, <1>1, <1>3, MemoryFacts
  <2>. QED
    BY <1>0, <1>1, <1>2, <1>3, <2>1 DEF StringInv, InUse, Allocation, Sound, SizeMax, SizeMod
<1>4. CASE n # SizeMax
  <2>1. n < SizeMax
    BY <1>4, SizeFacts
  <2>2. DOMAIN mem' = 0 .. n /\ n + 1 <= MaxObject
    BY <1>1, <2>1, MemoryFacts
  <2>3. n < MaxObject
    BY <1>2, <2>2, SizeFacts
  <2>4. ASSUME kept # <<>>, NEW k \in 0 .. len
        PROVE  mem'[k] = mem[k]
    <3>1. DOMAIN mem = 0 .. capacity
      BY <1>0, <2>4 DEF InUse, Allocation
    <3>2. k \in 0 .. capacity /\ k \in 0 .. n
      BY <1>0, <1>2
    <3>. QED
      BY <1>1, <2>2, <3>1, <3>2, MemoryFacts
  <2>5. Allocation'
    BY <1>1, <2>2, <2>3 DEF Allocation
  <2>6. kept # <<>> => mem'[len] = 0
    BY <1>0, <2>4 DEF InUse
  <2>7. ASSUME undefined = "no", NEW k \in 0 .. len - 1
        PROVE  mem'[k] = kept[k + 1]
    <3>1. kept # <<>> /\ k \in 0 .. len
      BY <1>0
    <3>. QED
      BY <1>0, <2>4, <2>7, <3>1 DEF InUse
  <2>8. InUse'
    BY <1>0, <1>1, <1>2, <2>5, <2>6, <2>7 DEF InUse
  <2>. QED
    BY <1>0, <1>1, <1>2, <2>8 DEF StringInv, Sound
<1>. QED
  BY <1>3, <1>4

(* Through any sequence of calls a string stays as StringInv says. *)
THEOREM StringInvariant == BSpec => []StringInv
<1>1. BInit => StringInv
  BY DEF BInit, StringInv, InUse, Allocation, Sound, Empty
<1>2. StringInv /\ [BNext]_bvars => StringInv'
  <2>. SUFFICES ASSUME StringInv, [BNext]_bvars
                PROVE  StringInv'
    OBVIOUS
  <2>1. CASE Destruct
    BY <2>1 DEF Destruct, StringInv, InUse, Allocation, Sound, Empty
  <2>2. CASE ReserveFrees
    BY <2>2 DEF ReserveFrees, StringInv, Sound
  <2>3. CASE Broken \/ UNCHANGED bvars
    BY <2>3 DEF Broken, bvars, StringInv, InUse, Allocation, Sound, SizeMax, SizeMod
  <2>. QED
    BY <2>1, <2>2, <2>3, ReserveKeeps, AppendBytesKeeps, AppendItselfKeeps DEF BNext
<1>. QED
  BY <1>1, <1>2, PTL DEF BSpec

(* The bytes and the zero stay inside the allocation and are the ones appended,
   except after a reserve of SIZE_MAX or for a string of half the addresses. *)
THEOREM StringStaysIntact == BSpec => []StringIntact
<1>1. StringInv => StringIntact
  BY DEF StringInv, InUse, StringIntact
<1>. QED
  BY <1>1, StringInvariant, PTL

(***************************************************************************)
(* The shell (Shell).                                                      *)
(***************************************************************************)

(* What a command with a descriptor may be at, and the descriptors then. *)
Working == {"list", "copy", "text", "newline", "seek"}
ShellInv == /\ fds \in Nat /\ fds <= MaxFds /\ listed \in Nat
            /\ \/ doing = "line" /\ fds = listed
               \/ doing \in Working /\ fds = listed + 1

(* A line that opens nothing, one that opens something, and the end of one. *)
LEMMA QuietKeeps == ASSUME ShellInv, UNCHANGED <<doing, fds, listed>>
                    PROVE  ShellInv'
BY DEF ShellInv, Working

LEMMA OpenKeeps == ASSUME ShellInv, doing = "line", NEW command \in Working, Open(command)
                   PROVE  ShellInv'
<1>1. fds < MaxFds /\ fds' = fds + 1 /\ doing' = command /\ listed' = listed
  BY DEF Open
<1>2. fds = listed
  BY DEF ShellInv, Working
<1>. QED
  BY <1>1, <1>2, FdsAssumption DEF ShellInv

LEMMA CloseKeeps == ASSUME ShellInv, doing \in Working, NEW res, Close(res)
                    PROVE  ShellInv'
<1>1. fds' = fds - 1 /\ doing' = "line" /\ listed' = listed
  BY DEF Close
<1>2. fds = listed + 1
  BY DEF ShellInv, Working
<1>. QED
  BY <1>1, <1>2, FdsAssumption DEF ShellInv

LEMMA LineKeeps == ASSUME ShellInv, Line
                   PROVE  ShellInv'
<1>1. doing = "line"
  BY DEF Line
<1>2. ASSUME Fails \/ Succeeds
      PROVE  ShellInv'
  BY <1>2, QuietKeeps DEF Fails, Succeeds
<1>3. ASSUME NEW ok, OpenFails(ok)
      PROVE  ShellInv'
  BY <1>2, <1>3 DEF OpenFails
<1>4. ASSUME NEW p, Ls(p) \/ Cat(p) \/ AppendText(p) \/ Size(p)
      PROVE  ShellInv'
  <2>1. \/ \E command \in Working : Open(command)
        \/ \E ok : OpenFails(ok)
    BY <1>4, Zenon DEF Ls, Cat, AppendText, Size, Working
  <2>. QED
    BY <1>1, <1>3, <2>1, OpenKeeps
<1>5. ASSUME NEW p, Cd(p)
      PROVE  ShellInv'
  <2>1. Fails \/ UNCHANGED <<doing, fds, listed>>
    BY <1>5, Zenon DEF Cd
  <2>. QED
    BY <1>2, <2>1, QuietKeeps
<1>6. ASSUME NEW p, Rm(p) \/ Rmdir(p) \/ Mkdir(p)
      PROVE  ShellInv'
  <2>1. Fails \/ UNCHANGED <<doing, fds, listed>>
    BY <1>6, Zenon DEF Rm, Rmdir, Mkdir, Makes
  <2>. QED
    BY <1>2, <2>1, QuietKeeps
<1>7. ASSUME NEW p, Stat(p)
      PROVE  ShellInv'
  BY <1>2, <1>7 DEF Stat
<1>8. CASE NotACommand \/ Echo \/ NoPath \/ AppendNothing
  BY <1>2, <1>8 DEF NotACommand, Echo, NoPath, AppendNothing
<1>. QED
  BY <1>4, <1>5, <1>6, <1>7, <1>8, Zenon DEF Line

(* Whatever fails, the descriptors are those of the directories listed, and one
   while a command works with it. *)
THEOREM ShellInvariant == HSpec => []ShellInv
<1>1. HInit => ShellInv
  BY FdsAssumption DEF HInit, ShellInv
<1>2. ShellInv /\ [HNext]_hvars => ShellInv'
  <2>. SUFFICES ASSUME ShellInv, [HNext]_hvars
                PROVE  ShellInv'
    OBVIOUS
  <2>1. CASE Line
    BY <2>1, LineKeeps
  <2>2. CASE LsReturns
    BY <2>2 DEF LsReturns, ShellInv, Working
  <2>3. CASE CatReturns
    BY <2>3, CloseKeeps DEF CatReturns, Working
  <2>4. CASE WriteText
    <3>1. CASE Close("failed")
      BY <2>4, <3>1, CloseKeeps DEF WriteText, Working
    <3>2. CASE doing' = "newline" /\ UNCHANGED <<files, fds, listed, result>>
      BY <2>4, <3>2 DEF WriteText, ShellInv, Working
    <3>. QED
      BY <2>4, <3>1, <3>2 DEF WriteText
  <2>5. CASE WriteNewline
    BY <2>5, CloseKeeps DEF WriteNewline, Working
  <2>6. CASE SizeReturns
    BY <2>6, CloseKeeps DEF SizeReturns, Working
  <2>7. CASE UNCHANGED hvars
    BY <2>7, QuietKeeps DEF hvars
  <2>. QED
    BY <2>1, <2>2, <2>3, <2>4, <2>5, <2>6, <2>7 DEF HNext
<1>. QED
  BY <1>1, <1>2, PTL DEF HSpec

(* Only ls leaves a descriptor open. *)
THEOREM ShellOnlyListingLeaks == HSpec => []OnlyListingLeaks
<1>1. ShellInv => OnlyListingLeaks
  BY DEF ShellInv, OnlyListingLeaks, Working
<1>. QED
  BY <1>1, ShellInvariant, PTL

(***************************************************************************)
(* A thread and its signal handlers (Signals).                             *)
(***************************************************************************)

Doings == {"run", "sleep", "raise again", "return"}
Frame == [sig : Signal, do : Doings, saved : SUBSET Signal]
Places == {"start", "loop", "finish", "poll", "test", "unblocked", "suspend", "suspended"}

SignalTypes == /\ test \in DOMAIN BlockedInHandler
               /\ at \in Places
               /\ mask \in SUBSET Signal
               /\ pending \in SUBSET Handled
               /\ frames \in Seq(Frame)
               /\ \A i \in 1 .. Len(frames) : frames[i].sig \in Handled
               /\ flag \in {0, 1}
               /\ sent \in Nat
               /\ delivered \in 0 .. 2
               /\ at = "start" => pending = {} /\ frames = <<>>
               /\ test # "mask" /\ at # "start" => at \in {"loop", "finish"}

Waiting == IF pending = {} THEN 0 ELSE 1

(* signal_recursion_test: the handlers that run are those of different signals,
   and the signals of both are blocked. *)
RecursionInv ==
    test = "recursion" /\ at # "start" =>
        /\ Len(frames) <= 2
        /\ mask = {frames[i].sig : i \in 1 .. Len(frames)}
        /\ Len(frames) >= 1 => frames[1].saved = {}
        /\ Len(frames) = 2 => /\ frames[2].saved = {frames[1].sig}
                              /\ frames[2].sig # frames[1].sig

(* One handler, that blocks its own signal. *)
AloneInv ==
    test \in {"restart", "recursive"} /\ at # "start" =>
        /\ Len(frames) <= 1
        /\ mask = IF frames = <<>> THEN {} ELSE {"USR1"}
        /\ frames # <<>> => frames[1].saved = {}

(* defer_handler: a handler that sleeps, or is about to raise its signal again, was
   started for a signal from outside, and so were all those beneath it; the flag is
   set before it raises its signal, so that the handler of that one only returns. *)
DeferInv ==
    test = "defer" =>
        /\ mask = {}
        /\ \A i \in 1 .. Len(frames) : /\ frames[i].saved = {}
                                       /\ frames[i].do \in {"sleep", "raise again"} => i <= sent
                                       /\ frames[i].do = "raise again" => flag = 1
        /\ Len(frames) + Waiting <= sent + flag

(* sig_mask_tests: the signal it has seen pending is delivered when nothing is
   blocked, and another one inside sigsuspend. *)
MaskInv ==
    test = "mask" =>
        /\ at # "loop"
        /\ delivered + Waiting <= sent
        /\ at \in {"start", "poll", "test", "suspend", "finish"} => frames = <<>>
        /\ Len(frames) <= 1
        /\ frames # <<>> => frames[1].do \in {"run", "return"}
        /\ at \in {"poll", "test", "suspend", "finish"} => mask = Signal
        /\ at = "test" /\ sawPending => pending # {}
        /\ at = "unblocked" => /\ mask = IF frames = <<>> THEN {} ELSE {"USR1"}
                               /\ frames # <<>> => frames[1].saved = {}
                               /\ delivered >= 1 \/ pending # {}
        /\ at = "suspend" => delivered >= 1
        /\ at = "suspended" => /\ mask = IF frames = <<>> THEN {"USR2"} ELSE Signal
                               /\ frames # <<>> => frames[1].saved = Signal
                               /\ delivered >= IF frames = <<>> THEN 1 ELSE 2
        /\ at = "finish" => delivered = 2

SignalsInv == SignalTypes /\ RecursionInv /\ AloneInv /\ DeferInv /\ MaskInv

-----------------------------------------------------------------------------
(* A handler that does its next thing is the same otherwise. *)
LEMMA RecordDo ==
    ASSUME NEW r \in Frame, NEW what \in Doings
    PROVE  LET g == [r EXCEPT !.do = what]
           IN  g \in Frame /\ g.do = what /\ g.sig = r.sig /\ g.saved = r.saved
  BY DEF Frame

(* What happens to the stack of handlers: one begins, one goes on, one returns. *)
LEMMA FramesPush ==
    ASSUME frames \in Seq(Frame), NEW f \in Frame
    PROVE  /\ Append(frames, f) \in Seq(Frame)
           /\ Append(frames, f) # <<>>
           /\ Len(frames) \in Nat
           /\ Len(Append(frames, f)) = Len(frames) + 1
           /\ \A i \in 1 .. Len(frames) : Append(frames, f)[i] = frames[i]
           /\ Append(frames, f)[Len(frames) + 1] = f
  BY AppendProperties

LEMMA FramesDo ==
    ASSUME frames \in Seq(Frame), frames # <<>>, NEW what \in Doings, Do(what)
    PROVE  /\ frames' \in Seq(Frame)
           /\ frames' # <<>>
           /\ Len(frames) \in Nat \ {0}
           /\ Len(frames') = Len(frames)
           /\ \A i \in 1 .. Len(frames) : /\ frames'[i].sig = frames[i].sig
                                          /\ frames'[i].saved = frames[i].saved
                                          /\ i < Len(frames) => frames'[i].do = frames[i].do
           /\ frames'[Len(frames)].do = what
<1>. DEFINE n == Len(frames)
<1>. DEFINE g == [frames[n] EXCEPT !.do = what]
<1>1. n \in Nat \ {0} /\ n \in 1 .. n /\ \A i \in 1 .. n : frames[i] \in Frame
  OBVIOUS
<1>2. g \in Frame /\ g.do = what /\ g.sig = frames[n].sig /\ g.saved = frames[n].saved
  BY <1>1, RecordDo
<1>3. frames' = [frames EXCEPT ![n] = g]
  BY DEF Do
<1>. HIDE DEF g
<1>4. frames' \in Seq(Frame) /\ Len(frames') = n
  BY <1>1, <1>2, <1>3
<1>5. \A i \in 1 .. n : frames'[i] = IF i = n THEN g ELSE frames[i]
  BY <1>1, <1>3
<1>6. frames' # <<>>
  BY <1>1, <1>4
<1>. QED
  BY <1>1, <1>2, <1>4, <1>5, <1>6

LEMMA FramesPop ==
    ASSUME frames \in Seq(Frame), frames # <<>>,
           frames' = SubSeq(frames, 1, Len(frames) - 1)
    PROVE  /\ frames' \in Seq(Frame)
           /\ Len(frames) \in Nat \ {0}
           /\ Len(frames') = Len(frames) - 1
           /\ \A i \in 1 .. Len(frames') : frames'[i] = frames[i]
           /\ frames' = <<>> <=> Len(frames) = 1
           /\ Top = frames[Len(frames)] /\ Top \in Frame
<1>1. Len(frames) \in Nat \ {0} /\ Len(frames) \in 1 .. Len(frames)
  OBVIOUS
<1>2. Top = frames[Len(frames)] /\ Top \in Frame
  BY <1>1 DEF Top
<1>. DEFINE n == Len(frames)
<1>3. n - 1 \in 0 .. Len(frames)
  BY <1>1
<1>4. /\ frames' \in Seq(Frame) /\ Len(frames') = n - 1
      /\ \A i \in 1 .. n - 1 : frames'[i] = frames[i]
  BY <1>3, Cut
<1>5. frames' = <<>> <=> Len(frames') = 0
  BY <1>4, EmptySeq
<1>. QED
  BY <1>1, <1>2, <1>4, <1>5

(* A handler that runs is there, and is one of the handled signals'. *)
LEMMA TopFacts ==
    ASSUME frames \in Seq(Frame), frames # <<>>
    PROVE  Top = frames[Len(frames)] /\ Top \in Frame /\ Len(frames) \in Nat \ {0}
  BY DEF Top

(* One handler begins with the mask it is given. *)
LEMMA DeliverFacts ==
    ASSUME SignalTypes, NEW s \in Signal, Deliver(s)
    PROVE  /\ frames' \in Seq(Frame)
           /\ frames' # <<>>
           /\ Len(frames) \in Nat
           /\ Len(frames') = Len(frames) + 1
           /\ \A i \in 1 .. Len(frames) : frames'[i] = frames[i]
           /\ frames'[Len(frames')].sig = s
           /\ frames'[Len(frames')].do = "run"
           /\ frames'[Len(frames')].saved = IF at = "suspended" THEN Signal ELSE mask
           /\ s \in pending /\ s \notin mask /\ pending' = pending \ {s}
           /\ mask' = mask \cup BlockedInHandler[test][s]
           /\ at # "start"
           /\ delivered' = IF delivered < 2 THEN delivered + 1 ELSE 2
           /\ UNCHANGED <<test, at, sawPending, flag, sent>>
<1>. DEFINE f == [sig |-> s, do |-> "run", saved |-> IF at = "suspended" THEN Signal ELSE mask]
<1>1. f \in Frame
  BY DEF SignalTypes, Frame, Doings
<1>2. frames' = Append(frames, f)
  BY DEF Deliver
<1>3. f.sig = s /\ f.do = "run" /\ f.saved = IF at = "suspended" THEN Signal ELSE mask
  OBVIOUS
<1>. HIDE DEF f
<1>4. frames \in Seq(Frame)
  BY DEF SignalTypes
<1>5. /\ frames' \in Seq(Frame) /\ frames' # <<>> /\ Len(frames) \in Nat
      /\ Len(frames') = Len(frames) + 1
      /\ \A i \in 1 .. Len(frames) : frames'[i] = frames[i]
      /\ frames'[Len(frames')] = f
  BY <1>1, <1>2, <1>4, FramesPush
<1>6. at # "start"
  BY DEF Deliver, SignalTypes
<1>. QED
  BY <1>3, <1>5, <1>6 DEF Deliver

(* A handler does its next thing: what Do(what) and Runs say, and what becomes
   pending. *)
Goes(what, raised) == /\ Runs /\ frames # <<>>
                      /\ Do(what) /\ pending' = pending \cup raised
                      /\ raised \in SUBSET Handled

LEMMA HandlerGoes ==
    ASSUME SignalTypes, HandlerBegins \/ DeferWakes \/ DeferRaisesAgain
    PROVE  \E what \in Doings, raised \in SUBSET Signal :
               /\ Goes(what, raised)
               /\ what = "sleep" => Top.do = "run" /\ flag = 0 /\ test = "defer"
               /\ what = "raise again" => Top.do = "sleep" /\ flag' = 1
               /\ raised # {} /\ Top.do = "sleep" => flag' = 1
               /\ raised # {} => \/ Top.do \in {"sleep", "raise again"}
                                 \/ test \in {"recursion", "recursive"}
               /\ flag' \in {flag, 1}
               /\ UNCHANGED <<test, at, mask, sawPending, sent, delivered>>
<1>1. CASE HandlerBegins
  <2>. DEFINE what == IF test = "defer" /\ flag = 0 THEN "sleep" ELSE "return"
  <2>. DEFINE raised == {s \in Signal : \/ (test = "recursion" /\ s # Top.sig)
                                        \/ (test = "recursive" /\ s = Top.sig)}
  <2>1. what \in Doings /\ raised \in SUBSET Signal
    BY DEF Doings
  <2>2. frames \in Seq(Frame) /\ frames # <<>> /\ Top.do = "run" /\ Runs
    BY <1>1 DEF SignalTypes, HandlerBegins, HandlerRuns
  <2>3. raised \in SUBSET Handled
    <3>1. test = "recursive" => Top.sig = "USR1"
      BY <2>2, TopFacts DEF SignalTypes, Handled
    <3>. QED
      BY <3>1 DEF Handled
  <2>. QED
    BY <1>1, <2>1, <2>2, <2>3 DEF HandlerBegins, Goes
<1>2. CASE DeferWakes
  <2>1. "raise again" \in Doings /\ {"USR1"} \in SUBSET Signal /\ {"USR1"} \in SUBSET Handled
    BY DEF Doings, Signal, Handled
  <2>2. frames # <<>> /\ Top.do = "sleep" /\ Runs
    BY <1>2 DEF DeferWakes, HandlerRuns
  <2>. QED
    BY <1>2, <2>1, <2>2 DEF DeferWakes, Goes
<1>3. CASE DeferRaisesAgain
  <2>1. "return" \in Doings /\ {"USR1"} \in SUBSET Signal /\ {"USR1"} \in SUBSET Handled
    BY DEF Doings, Signal, Handled
  <2>2. frames # <<>> /\ Top.do = "raise again" /\ Runs
    BY <1>3 DEF DeferRaisesAgain, HandlerRuns
  <2>. QED
    BY <1>3, <2>1, <2>2 DEF DeferRaisesAgain, Goes
<1>. QED
  BY <1>1, <1>2, <1>3

-----------------------------------------------------------------------------
(* The places and bounds of SignalTypes. *)
LEMMA SignalTypesKept ==
    ASSUME SignalTypes, [SNext]_svars
    PROVE  SignalTypes'
<1>1. Handled \subseteq Signal /\ "USR1" \in Handled
  BY DEF Handled, Signal
<1>2. Handled' = Handled <=> (test' = test \/ Handled' = Handled)
  BY DEF Handled
<1>3. ASSUME NEW s \in Signal, Send(s)
      PROVE  SignalTypes'
  BY <1>3 DEF Send, SignalTypes, Handled
<1>4. ASSUME NEW s \in Signal, Deliver(s)
      PROVE  SignalTypes'
  <2>1. s \in Handled /\ frames' # <<>> /\ at # "start" /\ test' = test
        /\ pending' \in SUBSET Handled /\ delivered' \in 0 .. 2
    BY <1>4, DeliverFacts DEF SignalTypes
  <2>2. \A t \in Signal : BlockedInHandler[test][t] \in SUBSET Signal
    BY DEF BlockedInHandler, SignalTypes, Signal
  <2>3. mask' \in SUBSET Signal
    BY <1>4, <2>2, DeliverFacts DEF SignalTypes
  <2>4. frames' \in Seq(Frame) /\ \A i \in 1 .. Len(frames') : frames'[i].sig \in Handled
    BY <1>4, <2>1, DeliverFacts DEF SignalTypes
  <2>. QED
    BY <1>4, <2>1, <2>3, <2>4, DeliverFacts DEF SignalTypes, Handled
<1>5. CASE HandlerBegins \/ DeferWakes \/ DeferRaisesAgain
  <2>1. PICK what \in Doings, raised \in SUBSET Signal :
               /\ Goes(what, raised)
               /\ flag' \in {flag, 1}
               /\ UNCHANGED <<test, at, mask, sawPending, sent, delivered>>
    BY <1>5, HandlerGoes
  <2>2. frames # <<>> /\ at # "start"
    BY <2>1 DEF Goes, SignalTypes
  <2>3. frames' \in Seq(Frame) /\ \A i \in 1 .. Len(frames') : frames'[i].sig \in Handled
    BY <2>1, <2>2, FramesDo DEF Goes, SignalTypes
  <2>. QED
    BY <2>1, <2>2, <2>3 DEF Goes, SignalTypes, Handled
<1>6. CASE HandlerReturns
  <2>1. frames # <<>> /\ frames \in Seq(Frame) /\ at # "start"
    BY <1>6 DEF HandlerReturns, HandlerRuns, SignalTypes
  <2>2. /\ frames' \in Seq(Frame) /\ Top \in Frame
        /\ \A i \in 1 .. Len(frames') : frames'[i].sig \in Handled
    BY <1>6, <2>1, FramesPop DEF HandlerReturns, SignalTypes
  <2>3. mask' \in SUBSET Signal
    BY <1>6, <2>2 DEF HandlerReturns, Frame
  <2>4. at' \in Places /\ at' # "start" /\ (test # "mask" => at' \in {"loop", "finish"})
    BY <1>6, <2>1 DEF HandlerReturns, SignalTypes, Places
  <2>. QED
    BY <1>6, <2>1, <2>2, <2>3, <2>4 DEF HandlerReturns, SignalTypes, Handled
<1>7. CASE Begin
  <2>1. at' \in Places /\ at' # "start" /\ (test # "mask" => at' = "loop")
    BY <1>7 DEF Begin, MainGoto, Places
  <2>2. pending' \in SUBSET Handled /\ mask' \in SUBSET Signal
    BY <1>1, <1>7 DEF Begin, SignalTypes
  <2>. QED
    BY <1>7, <2>1, <2>2 DEF Begin, SignalTypes, Handled
<1>8. CASE ReadCompletes \/ Poll \/ TestPending \/ BlockAgain \/ Suspend
  <2>1. at' \in Places /\ at' # "start" /\ at # "start" /\ (test # "mask" => at' \in {"loop", "finish"})
    BY <1>8 DEF ReadCompletes, Poll, TestPending, BlockAgain, Suspend, MainGoto, Places, SignalTypes
  <2>2. mask' \in SUBSET Signal
    BY <1>8 DEF ReadCompletes, Poll, TestPending, BlockAgain, Suspend, SignalTypes, Signal
  <2>3. UNCHANGED <<test, pending, frames, flag, sent, delivered>>
    BY <1>8 DEF ReadCompletes, Poll, TestPending, BlockAgain, Suspend
  <2>. QED
    BY <2>1, <2>2, <2>3 DEF SignalTypes, Handled
<1>9. CASE UNCHANGED svars
  BY <1>9 DEF svars, SignalTypes, Handled
<1>. QED
  BY <1>3, <1>4, <1>5, <1>6, <1>7, <1>8, <1>9 DEF SNext

(* The experiment is the same throughout. *)
LEMMA TestStays == [SNext]_svars => test' = test
BY DEF SNext, svars, Send, Deliver, HandlerBegins, DeferWakes, DeferRaisesAgain, HandlerReturns,
       Begin, ReadCompletes, Poll, TestPending, BlockAgain, Suspend

(* What handlers run with blocked. *)
LEMMA BlockedFacts ==
    ASSUME NEW s \in Signal
    PROVE  /\ BlockedInHandler["recursion"][s] = {s}
           /\ BlockedInHandler["restart"][s] = {s}
           /\ BlockedInHandler["recursive"][s] = {"USR1"}
           /\ BlockedInHandler["defer"][s] = {}
           /\ BlockedInHandler["mask"][s] = {s}
BY DEF BlockedInHandler

(* The steps of main: the stack is empty then. *)
MainSteps == Begin \/ ReadCompletes \/ Poll \/ TestPending \/ BlockAgain \/ Suspend

(* signal_recursion_test. *)
LEMMA RecursionKept ==
    ASSUME SignalTypes, RecursionInv, [SNext]_svars
    PROVE  RecursionInv'
<1>. SUFFICES ASSUME test = "recursion"
              PROVE  RecursionInv'
  BY TestStays DEF RecursionInv
<1>0. frames \in Seq(Frame) /\ Len(frames) \in Nat /\ at # "suspended"
  BY DEF SignalTypes
<1>1. CASE (\E s \in Signal : Send(s)) \/ UNCHANGED svars
  BY <1>1 DEF Send, svars, RecursionInv
<1>2. ASSUME NEW s \in Signal, Deliver(s)
      PROVE  RecursionInv'
  <2>1. /\ at # "start" /\ frames' \in Seq(Frame) /\ Len(frames') = Len(frames) + 1
        /\ \A i \in 1 .. Len(frames) : frames'[i] = frames[i]
        /\ frames'[Len(frames')].sig = s
        /\ frames'[Len(frames')].saved = mask
        /\ s \notin mask /\ mask' = mask \cup {s}
    BY <1>0, <1>2, DeliverFacts DEF BlockedInHandler
  <2>2. /\ Len(frames) <= 2
        /\ mask = {frames[i].sig : i \in 1 .. Len(frames)}
        /\ Len(frames) >= 1 => frames[1].saved = {}
        /\ Len(frames) = 2 => frames[2].sig # frames[1].sig
    BY <2>1 DEF RecursionInv
  <2>3. \A i \in 1 .. Len(frames) : frames[i] \in Frame
    BY <1>0
  <2>4. Len(frames) \in {0, 1}
    <3>1. Len(frames) = 2 => frames[1].sig \in mask /\ frames[2].sig \in mask
      BY <2>2
    <3>2. Len(frames) = 2 => mask = Signal
      BY <2>2, <2>3, <3>1 DEF Frame, Signal
    <3>3. mask # Signal
      BY <2>1
    <3>4. Len(frames) # 2
      BY <3>2, <3>3
    <3>5. Len(frames) \in Nat /\ Len(frames) <= 2
      BY <1>0, <2>2
    <3>6. \A n \in Nat : n <= 2 /\ n # 2 => n \in {0, 1}
      OBVIOUS
    <3>. QED
      BY <3>4, <3>5, <3>6
  <2>5. CASE Len(frames) = 0
    BY <2>1, <2>2, <2>5 DEF RecursionInv
  <2>6. CASE Len(frames) = 1
    <3>1. mask = {frames[1].sig}
      BY <2>2, <2>6
    <3>2. Len(frames') = 2 /\ frames'[1] = frames[1] /\ frames'[2].sig = s /\ frames'[2].saved = mask
      BY <2>1, <2>6
    <3>3. mask' = {frames'[i].sig : i \in 1 .. 2}
      BY <2>1, <3>1, <3>2
    <3>. QED
      BY <2>1, <2>2, <2>6, <3>1, <3>2, <3>3 DEF RecursionInv
  <2>. QED
    BY <2>4, <2>5, <2>6
<1>3. CASE HandlerBegins \/ DeferWakes \/ DeferRaisesAgain
  <2>1. PICK what \in Doings, raised \in SUBSET Signal :
               Goes(what, raised) /\ UNCHANGED <<test, at, mask>>
    BY <1>3, HandlerGoes
  <2>2. /\ Len(frames') = Len(frames)
        /\ \A i \in 1 .. Len(frames) : /\ frames'[i].sig = frames[i].sig
                                       /\ frames'[i].saved = frames[i].saved
    BY <1>0, <2>1, FramesDo DEF Goes
  <2>3. {frames'[i].sig : i \in 1 .. Len(frames')} = {frames[i].sig : i \in 1 .. Len(frames)}
    BY <2>2
  <2>. QED
    BY <1>0, <2>1, <2>2, <2>3 DEF RecursionInv
<1>4. CASE HandlerReturns
  <2>1. frames # <<>> /\ at # "start"
    BY <1>4 DEF HandlerReturns, HandlerRuns, SignalTypes
  <2>2. /\ Len(frames) \in Nat \ {0} /\ Len(frames') = Len(frames) - 1
        /\ \A i \in 1 .. Len(frames') : frames'[i] = frames[i]
        /\ mask' = frames[Len(frames)].saved
    BY <1>0, <1>4, <2>1, FramesPop DEF HandlerReturns
  <2>3. /\ Len(frames) <= 2
        /\ Len(frames) >= 1 => frames[1].saved = {}
        /\ Len(frames) = 2 => frames[2].saved = {frames[1].sig}
    BY <2>1 DEF RecursionInv
  <2>4. mask' = {frames'[i].sig : i \in 1 .. Len(frames')}
    <3>1. CASE Len(frames) = 1
      BY <2>2, <2>3, <3>1
    <3>2. CASE Len(frames) = 2
      BY <2>2, <2>3, <3>2
    <3>. QED
      BY <2>2, <2>3, <3>1, <3>2
  <2>. QED
    BY <2>2, <2>3, <2>4 DEF RecursionInv
<1>5. CASE MainSteps
  <2>1. frames = <<>> /\ frames' = frames
    BY <1>5 DEF MainSteps, Begin, ReadCompletes, Poll, TestPending, BlockAgain, Suspend, MainGoto, MainRuns
  <2>2. mask' = {}
    BY <1>5, <2>1 DEF MainSteps, Begin, ReadCompletes, Poll, TestPending, BlockAgain, Suspend, MainGoto,
                      RecursionInv, SignalTypes
  <2>3. {frames'[i].sig : i \in 1 .. Len(frames')} = {}
    BY <2>1
  <2>. QED
    BY <2>1, <2>2, <2>3 DEF RecursionInv
<1>. QED
  BY <1>1, <1>2, <1>3, <1>4, <1>5 DEF SNext, MainSteps

(* The experiments whose only handler blocks its own signal. *)
LEMMA AloneKept ==
    ASSUME SignalTypes, AloneInv, [SNext]_svars
    PROVE  AloneInv'
<1>. SUFFICES ASSUME test \in {"restart", "recursive"}
              PROVE  AloneInv'
  BY TestStays DEF AloneInv
<1>0. frames \in Seq(Frame) /\ Len(frames) \in Nat /\ at # "suspended" /\ pending \in SUBSET {"USR1"}
      /\ (frames = <<>> <=> Len(frames) = 0)
  BY DEF SignalTypes, Handled
<1>1. CASE (\E s \in Signal : Send(s)) \/ UNCHANGED svars
  BY <1>1 DEF Send, svars, AloneInv
<1>2. ASSUME NEW s \in Signal, Deliver(s)
      PROVE  AloneInv'
  <2>1. /\ at # "start" /\ frames' \in Seq(Frame) /\ Len(frames') = Len(frames) + 1
        /\ frames' # <<>>
        /\ frames'[Len(frames')].saved = mask
        /\ s = "USR1" /\ s \notin mask /\ mask' = mask \cup {s}
    <3>1. BlockedInHandler[test][s] = IF test = "restart" THEN {s} ELSE {"USR1"}
      BY BlockedFacts
    <3>2. s \in pending
      BY <1>2, DeliverFacts
    <3>3. s = "USR1"
      BY <1>0, <3>2
    <3>. QED
      BY <1>0, <1>2, <3>1, <3>3, DeliverFacts
  <2>2. Len(frames) = 0 /\ mask = {}
    BY <1>0, <2>1 DEF AloneInv
  <2>. QED
    BY <2>1, <2>2 DEF AloneInv
<1>3. CASE HandlerBegins \/ DeferWakes \/ DeferRaisesAgain
  <2>1. PICK what \in Doings, raised \in SUBSET Signal :
               Goes(what, raised) /\ UNCHANGED <<test, at, mask>>
    BY <1>3, HandlerGoes
  <2>2. /\ Len(frames') = Len(frames) /\ frames # <<>> /\ frames' # <<>> /\ Len(frames) > 0
        /\ \A i \in 1 .. Len(frames) : frames'[i].saved = frames[i].saved
    BY <1>0, <2>1, FramesDo DEF Goes
  <2>. QED
    BY <1>0, <2>1, <2>2 DEF AloneInv
<1>4. CASE HandlerReturns
  <2>1. frames # <<>> /\ at # "start"
    BY <1>4 DEF HandlerReturns, HandlerRuns, SignalTypes
  <2>2. /\ Len(frames) \in Nat \ {0} /\ Len(frames') = Len(frames) - 1
        /\ frames' = <<>> <=> Len(frames) = 1
        /\ mask' = frames[Len(frames)].saved
    BY <1>0, <1>4, <2>1, FramesPop DEF HandlerReturns
  <2>3. Len(frames) = 1 /\ frames[1].saved = {}
    BY <2>1, <2>2 DEF AloneInv
  <2>4. mask' = {} /\ frames' = <<>> /\ Len(frames') = 0
    BY <2>2, <2>3
  <2>. QED
    BY <2>4 DEF AloneInv
<1>5. CASE MainSteps
  <2>1. frames = <<>> /\ frames' = frames /\ Len(frames') = 0
    BY <1>5 DEF MainSteps, Begin, ReadCompletes, Poll, TestPending, BlockAgain, Suspend, MainGoto, MainRuns
  <2>2. mask' = {}
    BY <1>5, <2>1 DEF MainSteps, Begin, ReadCompletes, Poll, TestPending, BlockAgain, Suspend, MainGoto,
                      AloneInv, SignalTypes
  <2>. QED
    BY <2>1, <2>2 DEF AloneInv
<1>. QED
  BY <1>1, <1>2, <1>3, <1>4, <1>5 DEF SNext, MainSteps

(* sig_defer_test. *)
LEMMA DeferKept ==
    ASSUME SignalTypes, DeferInv, [SNext]_svars
    PROVE  DeferInv'
<1>. SUFFICES ASSUME test = "defer"
              PROVE  DeferInv'
  BY TestStays DEF DeferInv
<1>0. /\ frames \in Seq(Frame) /\ Len(frames) \in Nat /\ at # "suspended" /\ pending \in SUBSET {"USR1"}
      /\ (frames = <<>> <=> Len(frames) = 0) /\ sent \in Nat /\ flag \in {0, 1}
  BY DEF SignalTypes, Handled
<1>w. Waiting \in {0, 1} /\ (pending # {} <=> Waiting = 1)
  BY DEF Waiting
<1>h. /\ mask = {}
      /\ \A i \in 1 .. Len(frames) : /\ frames[i].saved = {}
                                     /\ frames[i].do \in {"sleep", "raise again"} => i <= sent
                                     /\ frames[i].do = "raise again" => flag = 1
      /\ Len(frames) + Waiting <= sent + flag
  BY DEF DeferInv
<1>b. Len(frames) + Waiting <= sent + flag
  BY <1>h
<1>a. /\ Len(frames) + Waiting <= sent + flag
      /\ Len(frames) \in Nat /\ Waiting \in Nat /\ sent \in Nat /\ flag \in {0, 1}
  BY <1>0, <1>w, <1>b
<1>1. ASSUME NEW s \in Signal, Send(s)
      PROVE  DeferInv'
  <2>1. sent' = sent + 1 /\ Waiting' = 1 /\ UNCHANGED <<frames, mask, flag>>
    BY <1>1 DEF Send, Waiting
  <2>2. Len(frames') + Waiting' <= sent' + flag'
    BY <1>a, <1>w, <2>1
  <2>3. \A i \in 1 .. Len(frames) : i <= sent => i <= sent'
    BY <1>a, <2>1
  <2>. QED
    BY <1>h, <2>1, <2>2, <2>3 DEF DeferInv
<1>2. ASSUME NEW s \in Signal, Deliver(s)
      PROVE  DeferInv'
  <2>1. /\ frames' \in Seq(Frame) /\ Len(frames') = Len(frames) + 1
        /\ \A i \in 1 .. Len(frames) : frames'[i] = frames[i]
        /\ frames'[Len(frames')].saved = {}
        /\ frames'[Len(frames')].do = "run"
        /\ s \in pending /\ pending' = pending \ {s} /\ mask' = {}
        /\ UNCHANGED <<sent, flag>>
    BY <1>0, <1>2, <1>h, DeliverFacts, BlockedFacts
  <2>2. Waiting = 1 /\ Waiting' = 0
    BY <1>0, <2>1 DEF Waiting
  <2>3. \A i \in 1 .. Len(frames') : i # Len(frames') => i \in 1 .. Len(frames)
    BY <1>0, <2>1
  <2>4. \A i \in 1 .. Len(frames') : /\ frames'[i].saved = {}
                                     /\ frames'[i].do \in {"sleep", "raise again"} => i <= sent
                                     /\ frames'[i].do = "raise again" => flag' = 1
    BY <1>h, <2>1, <2>3
  <2>5. Len(frames') + Waiting' <= sent' + flag'
    BY <1>a, <2>1, <2>2
  <2>6. UNCHANGED <<sent, flag>> /\ mask' = {}
    BY <2>1
  <2>. QED
    BY <2>4, <2>5, <2>6 DEF DeferInv
<1>3. CASE HandlerBegins \/ DeferWakes \/ DeferRaisesAgain
  <2>1. PICK what \in Doings, raised \in SUBSET Signal :
               /\ Goes(what, raised)
               /\ what = "sleep" => Top.do = "run" /\ flag = 0
               /\ what = "raise again" => Top.do = "sleep" /\ flag' = 1
               /\ raised # {} /\ Top.do = "sleep" => flag' = 1
               /\ raised # {} => Top.do \in {"sleep", "raise again"}
               /\ flag' \in {flag, 1}
               /\ UNCHANGED <<test, at, mask, sawPending, sent, delivered>>
    BY <1>3, HandlerGoes
  <2>2. /\ Len(frames') = Len(frames) /\ Len(frames) \in Nat \ {0}
        /\ \A i \in 1 .. Len(frames) : /\ frames'[i].saved = frames[i].saved
                                       /\ i < Len(frames) => frames'[i].do = frames[i].do
        /\ frames'[Len(frames)].do = what
        /\ pending' = pending \cup raised
        /\ Top = frames[Len(frames)]
    BY <1>0, <2>1, FramesDo, TopFacts DEF Goes
  <2>3. /\ Top.do \in {"sleep", "raise again"} => Len(frames) <= sent
        /\ Top.do = "raise again" => flag = 1
    <3>1. Len(frames) \in 1 .. Len(frames)
      BY <2>2
    <3>2. LET n == Len(frames)
          IN  /\ frames[n].do \in {"sleep", "raise again"} => n <= sent
              /\ frames[n].do = "raise again" => flag = 1
      BY <1>h, <3>1
    <3>. QED
      BY <2>2, <3>2
  <2>4. what \in {"sleep", "raise again"} => Len(frames) <= sent
    <3>1. flag = 0 => Len(frames) <= sent
      BY <1>a
    <3>. QED
      BY <2>1, <2>3, <3>1
  <2>5. \A i \in 1 .. Len(frames') : /\ frames'[i].saved = {}
                                     /\ frames'[i].do \in {"sleep", "raise again"} => i <= sent
                                     /\ frames'[i].do = "raise again" => flag' = 1
    <3>. TAKE i \in 1 .. Len(frames')
    <3>1. i \in 1 .. Len(frames) /\ frames'[i].saved = {}
      BY <1>h, <2>2
    <3>2. CASE i = Len(frames)
      BY <2>1, <2>2, <2>4, <3>1, <3>2
    <3>3. CASE i < Len(frames)
      <4>1. frames'[i].do = frames[i].do
        BY <2>2, <3>1, <3>3
      <4>2. /\ frames[i].do \in {"sleep", "raise again"} => i <= sent
            /\ frames[i].do = "raise again" => flag = 1
        BY <1>h, <3>1
      <4>3. flag = 1 => flag' = 1
        BY <2>1
      <4>. QED
        BY <3>1, <4>1, <4>2, <4>3
    <3>4. i = Len(frames) \/ i < Len(frames)
      BY <2>2, <3>1
    <3>. QED
      BY <3>2, <3>3, <3>4
  <2>6. Len(frames) + Waiting' <= sent + flag'
    <3>1. CASE raised = {}
      <4>1. Waiting' = Waiting
        BY <2>2, <3>1 DEF Waiting
      <4>2. flag' \in {flag, 1}
        BY <2>1
      <4>. QED
        BY <1>a, <4>1, <4>2
    <3>2. CASE raised # {}
      <4>1. Len(frames) <= sent /\ Waiting' = 1
        BY <2>1, <2>2, <2>3, <3>2 DEF Waiting
      <4>2. flag' = 1
        BY <2>1, <2>3, <3>2
      <4>. QED
        BY <1>a, <4>1, <4>2
    <3>. QED
      BY <3>1, <3>2
  <2>. QED
    BY <1>0, <1>h, <2>1, <2>2, <2>5, <2>6 DEF DeferInv
<1>4. CASE HandlerReturns
  <2>1. frames # <<>>
    BY <1>4 DEF HandlerReturns, HandlerRuns
  <2>2. /\ Len(frames) \in Nat \ {0} /\ Len(frames') = Len(frames) - 1
        /\ \A i \in 1 .. Len(frames') : frames'[i] = frames[i]
        /\ mask' = frames[Len(frames)].saved
        /\ UNCHANGED <<sent, flag, pending>>
    BY <1>0, <1>4, <2>1, FramesPop DEF HandlerReturns
  <2>3. mask' = {}
    <3>1. Len(frames) \in 1 .. Len(frames)
      BY <2>2
    <3>. QED
      BY <1>h, <2>2, <3>1
  <2>4. Waiting' = Waiting
    BY <2>2 DEF Waiting
  <2>. QED
    <3>1. Len(frames') + Waiting' <= sent' + flag'
      <4>1. Len(frames') = Len(frames) - 1 /\ Waiting' = Waiting /\ sent' = sent /\ flag' = flag
        BY <2>2, <2>4
      <4>. QED
        BY <1>a, <4>1
    <3>2. \A i \in 1 .. Len(frames') : i \in 1 .. Len(frames)
      BY <2>2
    <3>3. \A i \in 1 .. Len(frames') : /\ frames'[i].saved = {}
                                       /\ frames'[i].do \in {"sleep", "raise again"} => i <= sent'
                                       /\ frames'[i].do = "raise again" => flag' = 1
      BY <1>h, <2>2, <3>2
    <3>. QED
      BY <2>3, <3>1, <3>3 DEF DeferInv
<1>5. CASE MainSteps
  <2>1. UNCHANGED <<frames, sent, flag>>
    BY <1>5 DEF MainSteps, Begin, ReadCompletes, Poll, TestPending, BlockAgain, Suspend
  <2>2. mask' = {} /\ pending' = pending
    BY <1>5, <1>h DEF MainSteps, Begin, ReadCompletes, Poll, TestPending, BlockAgain, Suspend,
                      MainGoto, SignalTypes
  <2>. QED
    BY <1>h, <2>1, <2>2 DEF DeferInv, Waiting
<1>6. CASE UNCHANGED svars
  BY <1>6 DEF svars, DeferInv, Waiting
<1>. QED
  BY <1>1, <1>2, <1>3, <1>4, <1>5, <1>6 DEF SNext, MainSteps

(* sig_mask_tests. *)
LEMMA MaskKept ==
    ASSUME SignalTypes, MaskInv, [SNext]_svars
    PROVE  MaskInv'
<1>. SUFFICES ASSUME test = "mask"
              PROVE  MaskInv'
  BY TestStays DEF MaskInv
<1>0. /\ frames \in Seq(Frame) /\ Len(frames) \in Nat /\ pending \in SUBSET {"USR1"}
      /\ sent \in Nat /\ delivered \in 0 .. 2
      /\ at = "start" => frames = <<>> /\ pending = {}
      /\ test' = test
  BY TestStays DEF SignalTypes, Handled
<1>w. Waiting \in {0, 1} /\ (pending # {} <=> Waiting = 1)
  BY DEF Waiting
<1>e. frames = <<>> <=> Len(frames) = 0
  BY <1>0
<1>a. delivered + Waiting <= sent
  BY DEF MaskInv
<1>1. ASSUME NEW s \in Signal, Send(s)
      PROVE  MaskInv'
  <2>1. /\ Waiting' \in {0, 1} /\ sent' = sent + 1 /\ pending' # {}
        /\ UNCHANGED <<test, at, mask, frames, sawPending, delivered>>
    BY <1>1 DEF Send, Waiting
  <2>2. delivered' + Waiting' <= sent'
    <3>1. delivered' = delivered /\ sent' = sent + 1 /\ Waiting' \in {0, 1}
      BY <2>1
    <3>2. delivered \in Nat /\ sent \in Nat /\ Waiting \in Nat /\ Waiting' \in Nat /\ Waiting' <= 1
      BY <1>0, <1>w, <3>1
    <3>3. \A d, w, n, v \in Nat : d + w <= n /\ v <= 1 => d + v <= n + 1
      OBVIOUS
    <3>4. delivered + Waiting' <= sent + 1
      BY <1>a, <3>2, <3>3
    <3>. QED
      BY <3>1, <3>4
  <2>. QED
    BY <2>1, <2>2 DEF MaskInv
<1>2. ASSUME NEW s \in Signal, Deliver(s)
      PROVE  MaskInv'
  <2>1. /\ frames' \in Seq(Frame) /\ frames' # <<>> /\ Len(frames') = Len(frames) + 1
        /\ frames'[Len(frames')].saved = IF at = "suspended" THEN Signal ELSE mask
        /\ frames'[Len(frames')].do = "run"
        /\ s \in pending /\ s \notin mask /\ pending' = pending \ {s}
        /\ mask' = mask \cup {s}
        /\ at # "start"
        /\ delivered' = IF delivered < 2 THEN delivered + 1 ELSE 2
        /\ UNCHANGED <<test, at, sawPending, sent>>
    BY <1>2, DeliverFacts, BlockedFacts
  <2>2. s = "USR1" /\ Waiting = 1 /\ Waiting' = 0
    BY <1>0, <2>1 DEF Waiting
  <2>3. at \in {"unblocked", "suspended"}
    BY <2>1, <2>2 DEF MaskInv, SignalTypes, Places
  <2>4. frames = <<>> /\ Len(frames) = 0
    BY <1>e, <2>1, <2>2, <2>3 DEF MaskInv, Signal
  <2>5. /\ Len(frames') = 1 /\ frames'[1].saved = IF at = "suspended" THEN Signal ELSE mask
        /\ frames'[1].do \in {"run", "return"}
    BY <2>1, <2>4
  <2>6. delivered' + Waiting' <= sent' /\ delivered' >= 1 /\ (delivered >= 1 => delivered' >= 2)
    BY <1>0, <1>a, <2>1, <2>2
  <2>7. CASE at = "unblocked"
    <3>1. mask = {} /\ mask' = {"USR1"} /\ frames'[1].saved = {}
      BY <2>1, <2>2, <2>4, <2>5, <2>7 DEF MaskInv
    <3>. QED
      BY <2>1, <2>5, <2>6, <2>7, <3>1 DEF MaskInv
  <2>8. CASE at = "suspended"
    <3>1. mask = {"USR2"} /\ mask' = Signal /\ frames'[1].saved = Signal
      BY <2>1, <2>2, <2>4, <2>5, <2>8 DEF MaskInv, Signal
    <3>2. delivered >= 1
      BY <2>4, <2>8 DEF MaskInv
    <3>. QED
      BY <2>1, <2>5, <2>6, <2>8, <3>1, <3>2 DEF MaskInv
  <2>. QED
    BY <2>3, <2>7, <2>8
<1>3. CASE HandlerBegins \/ DeferWakes \/ DeferRaisesAgain
  <2>1. PICK what \in Doings, raised \in SUBSET Signal :
               /\ Goes(what, raised)
               /\ what = "sleep" => test = "defer"
               /\ what = "raise again" => Top.do = "sleep"
               /\ raised # {} => \/ Top.do \in {"sleep", "raise again"}
                                 \/ test \in {"recursion", "recursive"}
               /\ UNCHANGED <<test, at, mask, sawPending, sent, delivered>>
    BY <1>3, HandlerGoes
  <2>2. Do(what) /\ frames # <<>> /\ pending' = pending \cup raised
    BY <2>1 DEF Goes
  <2>3. /\ Len(frames') = Len(frames) /\ frames' # <<>> /\ Len(frames) \in Nat \ {0}
        /\ \A i \in 1 .. Len(frames) : frames'[i].saved = frames[i].saved
        /\ frames'[Len(frames)].do = what
    BY <1>0, <2>2, FramesDo
  <2>4. Len(frames) = 1 /\ frames[1].do \in {"run", "return"}
    BY <2>2, <2>3 DEF MaskInv
  <2>5. Top = frames[1]
    BY <1>0, <2>2, <2>4, TopFacts
  <2>6. frames'[1].do \in {"run", "return"} /\ frames'[1].saved = frames[1].saved
    <3>1. what \in {"run", "return"}
      BY <2>1, <2>4, <2>5 DEF Doings
    <3>2. frames'[1].do = what /\ frames'[1].saved = frames[1].saved
      BY <2>3, <2>4
    <3>. QED
      BY <3>1, <3>2
  <2>7. raised = {}
    BY <2>1, <2>4, <2>5
  <2>8. Waiting' = Waiting /\ pending' = pending
    BY <2>2, <2>7 DEF Waiting
  <2>9. UNCHANGED <<test, at, mask, sawPending, sent, delivered>> /\ Len(frames') = 1
    BY <2>1, <2>3, <2>4
  <2>. QED
    BY <2>2, <2>3, <2>6, <2>8, <2>9 DEF MaskInv
<1>4. CASE HandlerReturns
  <2>1. frames # <<>> /\ at # "start"
    BY <1>0, <1>4 DEF HandlerReturns, HandlerRuns
  <2>2. /\ Len(frames) \in Nat \ {0} /\ Len(frames') = Len(frames) - 1
        /\ frames' = <<>> <=> Len(frames) = 1
        /\ mask' = frames[Len(frames)].saved
        /\ UNCHANGED <<sent, pending, delivered, sawPending>>
        /\ at' = IF frames' = <<>> /\ at = "suspended" THEN "finish" ELSE at
    BY <1>0, <1>4, <2>1, FramesPop DEF HandlerReturns
  <2>3. Len(frames) = 1 /\ frames' = <<>> /\ Len(frames') = 0
    BY <2>2 DEF MaskInv
  <2>4. mask' = frames[1].saved /\ Waiting' = Waiting
    BY <2>2, <2>3 DEF Waiting
  <2>5. at \in {"unblocked", "suspended"}
    BY <2>1 DEF MaskInv, SignalTypes, Places
  <2>6. CASE at = "unblocked"
    BY <2>1, <2>2, <2>3, <2>4, <2>6 DEF MaskInv
  <2>7. CASE at = "suspended"
    <3>1. mask' = Signal /\ delivered = 2 /\ at' = "finish"
      BY <1>0, <2>1, <2>2, <2>3, <2>4, <2>7 DEF MaskInv
    <3>. QED
      BY <2>2, <2>3, <2>4, <3>1 DEF MaskInv
  <2>. QED
    BY <2>5, <2>6, <2>7
<1>5. CASE MainSteps
  <2>1. frames = <<>> /\ UNCHANGED <<frames, pending, sent, delivered>> /\ pending \subseteq mask
    BY <1>5, <1>0 DEF MainSteps, Begin, ReadCompletes, Poll, TestPending, BlockAgain, Suspend, MainGoto,
                      MainRuns, Runs
  <2>2. Waiting' = Waiting /\ Len(frames') <= 1 /\ delivered' + Waiting' <= sent'
    BY <1>a, <1>e, <2>1 DEF Waiting, MaskInv
  <2>3. CASE Begin
    BY <2>1, <2>2, <2>3 DEF Begin, MainGoto, MaskInv
  <2>4. CASE Poll
    <3>1. sawPending' => pending' # {}
      BY <2>1, <2>4 DEF Poll
    <3>. QED
      BY <2>1, <2>2, <2>4, <3>1 DEF Poll, MainGoto, MaskInv
  <2>5. CASE TestPending
    BY <2>1, <2>2, <2>5 DEF TestPending, MainGoto, MaskInv
  <2>6. CASE BlockAgain
    <3>1. delivered >= 1
      BY <2>1, <2>6 DEF BlockAgain, MainGoto, MaskInv
    <3>. QED
      BY <2>1, <2>2, <2>6, <3>1 DEF BlockAgain, MainGoto, MaskInv
  <2>7. CASE Suspend
    <3>1. mask' = {"USR2"}
      BY <2>7 DEF Suspend, Signal
    <3>. QED
      BY <2>1, <2>2, <2>7, <3>1 DEF Suspend, MainGoto, MaskInv
  <2>8. ~ReadCompletes
    BY DEF ReadCompletes
  <2>. QED
    BY <1>5, <2>3, <2>4, <2>5, <2>6, <2>7, <2>8 DEF MainSteps
<1>6. CASE UNCHANGED svars
  BY <1>6 DEF svars, MaskInv, Waiting
<1>. QED
  BY <1>1, <1>2, <1>3, <1>4, <1>5, <1>6 DEF SNext, MainSteps

(* In all experiments the handlers and the mask are as SignalsInv says. *)
THEOREM SignalsInvariant == SSpec => []SignalsInv
<1>1. SInit => SignalsInv
  <2>. SUFFICES ASSUME SInit
                PROVE  SignalsInv
    OBVIOUS
  <2>1. /\ test \in DOMAIN BlockedInHandler /\ at = "start" /\ mask = {} /\ pending = {}
        /\ frames = <<>> /\ sawPending = FALSE /\ flag = 0 /\ sent = 0 /\ delivered = 0
    BY DEF SInit
  <2>2. frames \in Seq(Frame) /\ Len(frames) = 0
    BY <2>1
  <2>3. SignalTypes
    BY <2>1, <2>2 DEF SignalTypes, Places
  <2>. QED
    BY <2>1, <2>2, <2>3 DEF SignalsInv, RecursionInv, AloneInv, DeferInv, MaskInv, Waiting
<1>2. SignalsInv /\ [SNext]_svars => SignalsInv'
  BY SignalTypesKept, RecursionKept, AloneKept, DeferKept, MaskKept DEF SignalsInv
<1>. QED
  BY <1>1, <1>2, PTL DEF SSpec

(* Handlers nest no deeper than what they run with blocked lets them, and
   sig_mask_tests finishes after two deliveries. *)
THEOREM SignalsContained == SSpec => []HandlersContained
<1>1. SignalsInv => HandlersContained
  <2>. SUFFICES ASSUME SignalsInv
                PROVE  HandlersContained
    OBVIOUS
  <2>1. /\ test \in {"recursion", "restart", "recursive", "defer", "mask"}
        /\ Len(frames) \in Nat /\ sent \in Nat /\ flag \in {0, 1} /\ delivered \in 0 .. 2
        /\ at = "start" => Len(frames) = 0
        /\ Waiting \in {0, 1}
    BY DEF SignalsInv, SignalTypes, BlockedInHandler, Waiting
  <2>2. test = "recursion" => Len(frames) <= 2
    BY <2>1 DEF SignalsInv, RecursionInv
  <2>3. test \in {"restart", "recursive", "mask"} => Len(frames) <= 1
    BY <2>1 DEF SignalsInv, AloneInv, MaskInv
  <2>4. test = "defer" => Len(frames) <= sent + 1
    <3>1. test = "defer" => Len(frames) + Waiting <= sent + flag
      BY DEF SignalsInv, DeferInv
    <3>. QED
      BY <2>1, <3>1
  <2>5. test = "mask" /\ at = "finish" => delivered = 2 /\ delivered + Waiting <= sent
    BY DEF SignalsInv, MaskInv
  <2>6. FinishAfterTwo
    BY <2>1, <2>5 DEF FinishAfterTwo
  <2>. QED
    BY <2>1, <2>2, <2>3, <2>4, <2>6 DEF HandlersContained, NestingBounded
<1>. QED
  BY <1>1, SignalsInvariant, PTL
=============================================================================
