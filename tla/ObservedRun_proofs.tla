-------------------------- MODULE ObservedRun_proofs --------------------------
(***************************************************************************)
(* Proofs about the trace and the audit log of a run, for any amounts, any *)
(* number of events, processes, faults and records of the neighbour.       *)
(***************************************************************************)
EXTENDS ObservedRun, SequenceTheorems, FiniteSetTheorems, TLAPS

Kinds   == {"event", "other", "violation", "session_end"}
Abouts  == Kinds \X Nat
Hashes  == Seq(Abouts)
Events  == [about : Abouts, cost : {0, 1}, marked : BOOLEAN]
Records == [about : Abouts, prev_hash : Hashes, hash : Hashes]
Files(S) == [lines : Seq(S \cup {Garbled}), cut : BOOLEAN]

-----------------------------------------------------------------------------
(* Files.                                                                   *)

\* after is before with some text appended that began as the line: either the text ran
\* on in a line that was cut, or it is a line of its own, whole or garbled.
Grown(before, after, line) ==
  LET old == before.lines
      new == after.lines
  IN  /\ new # <<>>
      /\ \/ /\ before.cut
            /\ Len(new) = Len(old)
            /\ new[Len(new)] = Garbled
            /\ \A i \in 1 .. Len(old) : i # Len(old) => new[i] = old[i]
         \/ /\ ~before.cut
            /\ Len(new) = Len(old) + 1
            /\ new[Len(new)] \in {line, Garbled}
            /\ \A i \in 1 .. Len(old) : new[i] = old[i]

LEMMA GarbledIsNoLine ==
  /\ Garbled \notin Events
  /\ Garbled \notin Records
  /\ Garbled.about = <<"garbled", 0>>
BY DEF Garbled, Events, Records, About, Abouts, Kinds

LEMMA FrontProperties ==
  ASSUME NEW S, NEW s \in Seq(S), s # <<>>
  PROVE  /\ Front(s) \in Seq(S)
         /\ Len(Front(s)) + 1 = Len(s)
         /\ \A i \in 1 .. Len(s) : i # Len(s) => Front(s)[i] = s[i]
<1>1. Len(s) \in Nat /\ Len(s) >= 1 /\ \A i \in 1 .. Len(s) : s[i] \in S
  BY EmptySeq, LenProperties
<1> DEFINE n == Len(s) - 1
<1>2. n \in Nat /\ n + 1 = Len(s)
  BY <1>1
<1>3. \A i \in 1 .. n : s[i] \in S
  BY <1>1, <1>2
<1> HIDE DEF n
<1>4. /\ SubSeq(s, 1, n) \in Seq(S)
      /\ Len(SubSeq(s, 1, n)) = IF 1 <= n THEN n - 1 + 1 ELSE 0
      /\ \A i \in 1 .. n - 1 + 1 : SubSeq(s, 1, n)[i] = s[1 + i - 1]
  <2>1. 1 \in Int /\ n \in Int
    BY <1>2
  <2>2. QED
    BY <2>1, <1>3, SubSeqProperties
<1>5. Front(s) = SubSeq(s, 1, n)
  BY DEF Front, n
<1>6. Len(Front(s)) + 1 = Len(s)
  BY <1>2, <1>4, <1>5
<1>7. ASSUME NEW i \in 1 .. Len(s), i # Len(s)
      PROVE  Front(s)[i] = s[i]
  <2>1. i \in 1 .. n - 1 + 1 /\ 1 + i - 1 = i
    BY <1>2, <1>7
  <2>2. QED
    BY <2>1, <1>4, <1>5
<1>8. QED
  BY <1>4, <1>5, <1>6, <1>7

LEMMA ExtendedGrown ==
  ASSUME NEW S, NEW file \in Files(S), file.cut => file.lines # <<>>,
         NEW line \in S \cup {Garbled}, NEW text \in {line, Garbled}, NEW cut \in BOOLEAN
  PROVE  /\ Extended(file, text, cut) \in Files(S)
         /\ Extended(file, text, cut).cut = cut
         /\ Grown(file, Extended(file, text, cut), line)
<1> DEFINE T == S \cup {Garbled}
           e == Extended(file, text, cut)
<1>1. file.lines \in Seq(T) /\ file.cut \in BOOLEAN /\ text \in T /\ Garbled \in T
  BY DEF Files
<1> HIDE DEF T
<1>2. CASE file.cut
  <2> DEFINE f == Front(file.lines)
  <2>1. f \in Seq(T) /\ Len(f) + 1 = Len(file.lines)
        /\ \A i \in 1 .. Len(file.lines) : i # Len(file.lines) => f[i] = file.lines[i]
    BY <1>1, <1>2, FrontProperties
  <2>2. e = [lines |-> Append(f, Garbled), cut |-> cut]
    BY <1>2 DEF Extended
  <2> HIDE DEF f
  <2>3. /\ Append(f, Garbled) \in Seq(T)
        /\ Len(Append(f, Garbled)) = Len(f) + 1
        /\ Append(f, Garbled)[Len(f) + 1] = Garbled
        /\ \A i \in 1 .. Len(f) : Append(f, Garbled)[i] = f[i]
        /\ Append(f, Garbled) # <<>>
        /\ Len(f) \in Nat
    BY <2>1, <1>1
  <2>4. \A i \in 1 .. Len(file.lines) : i # Len(file.lines) => i \in 1 .. Len(f)
    BY <2>1, <2>3
  <2>5. e \in Files(S)
    BY <2>2, <2>3 DEF Files, T
  <2>6. QED
    BY <2>1, <2>2, <2>3, <2>4, <2>5, <1>2 DEF Grown
<1>3. CASE ~file.cut
  <2> DEFINE f == file.lines
  <2>2. e = [lines |-> Append(f, text), cut |-> cut]
    BY <1>3 DEF Extended
  <2>3. /\ Append(f, text) \in Seq(T)
        /\ Len(Append(f, text)) = Len(f) + 1
        /\ Append(f, text)[Len(f) + 1] = text
        /\ \A i \in 1 .. Len(f) : Append(f, text)[i] = f[i]
        /\ Append(f, text) # <<>>
    BY <1>1
  <2>5. e \in Files(S)
    BY <2>2, <2>3 DEF Files, T
  <2>6. QED
    BY <2>2, <2>3, <2>5, <1>3 DEF Grown
<1>4. QED
  BY <1>1, <1>2, <1>3

\* A write appends the whole line; a write that fails leaves the file as it is, or
\* appends the line or a part of it.
LEMMA WrittenGrown ==
  ASSUME NEW S, NEW file \in Files(S), file.cut => file.lines # <<>>, NEW line \in S
  PROVE  /\ Written(file, line) \in Files(S)
         /\ ~Written(file, line).cut
         /\ Grown(file, Written(file, line), line)
BY ExtendedGrown DEF Written

LEMMA TornGrown ==
  ASSUME NEW S, NEW file \in Files(S), file.cut => file.lines # <<>>, NEW line \in S,
         NEW new \in Torn(file, line)
  PROVE  /\ new \in Files(S)
         /\ \/ new = file
            \/ new.cut /\ Grown(file, new, line)
<1>1. \A text \in {line, Garbled} :
        /\ Extended(file, text, TRUE) \in Files(S)
        /\ Extended(file, text, TRUE).cut
        /\ Grown(file, Extended(file, text, TRUE), line)
  BY ExtendedGrown
<1>2. QED
  BY <1>1 DEF Torn

-----------------------------------------------------------------------------
(* The inductive invariant.                                                 *)

\* What the files, the chain and the history hold.
Typed ==
  /\ TypeOK
  /\ trace \in Files(Events)
  /\ audit \in Files(Records)
  /\ prevHash \in [Observers -> Hashes]
  /\ recorded \in Seq(Events)
  /\ \A i \in 1 .. Len(recorded) : recorded[i].about = <<"event", i>>

\* The writes record_event and _end still have to make at each stage.
TodoKept ==
  /\ pc = "telling" =>
       /\ todo \in {<<"trace", "audit">>, <<"audit", "trace">>, <<"trace">>, <<"audit">>}
       /\ recorded # <<>>
  /\ pc = "violated" => todo = <<"violation">>
  /\ pc = "ending" => todo = <<"session_end">>

\* The last event is still to be written to the file.
Awaits(file) == \E i \in 1 .. Len(todo) : todo[i] = file

\* The event in hand has not been judged, the others but those a fault hit have.
JudgedBehind ==
  /\ pc \in {"telling", "told"} => judged < Len(recorded)
  /\ Len(recorded) <= judged + faults + (IF pc \in {"telling", "told"} THEN 1 ELSE 0)

\* The events in a file have numbers below n, or increasing numbers.
Below(file, n) ==
  \A i \in 1 .. Len(file.lines) :
    file.lines[i].about[1] = "event" => file.lines[i].about[2] < n

Ascending(file) ==
  \A i, j \in 1 .. Len(file.lines) :
    i < j /\ file.lines[i].about[1] = "event" /\ file.lines[j].about[1] = "event" =>
      file.lines[i].about[2] < file.lines[j].about[2]

\* An event that is still to be written is in the file not yet.
WrittenBehind ==
  /\ Ascending(trace) /\ Below(trace, Len(recorded) + 1)
  /\ Ascending(audit) /\ Below(audit, Len(recorded) + 1)
  /\ Awaits("trace") => Below(trace, Len(recorded))
  /\ Awaits("audit") => Below(audit, Len(recorded))

\* An observer that is not stale knows the last record, a stale one an earlier record:
\* hashes grow along the chain.
HashesKnown ==
  ~broken =>
    \A o \in Observers :
      /\ Len(prevHash[o]) <= Len(TailHash(audit))
      /\ o \in stale => Len(prevHash[o]) < Len(TailHash(audit))
      /\ o \notin stale /\ ~audit.cut => prevHash[o] = TailHash(audit)

ChainBehind ==
  /\ broken => audit.lines # <<>>
  /\ ChainExact
  /\ HashesKnown

\* What the event that is still to be written to the trace counts there.
AwaitedCost == IF Awaits("trace") /\ Last(recorded).cost = 1 THEN 1 ELSE 0
AwaitedMark == IF Awaits("trace") /\ Last(recorded).marked THEN 1 ELSE 0

\* A trace that can be read counts every event but those a fault kept from it.
TraceBehind ==
  Readable(trace) =>
    /\ TotalOf(trace.lines) + AwaitedCost <= TotalOf(recorded)
    /\ TotalOf(recorded) <= TotalOf(trace.lines) + AwaitedCost + faults
    /\ RejectedOf(trace.lines) + AwaitedMark <= RejectedOf(recorded)
    /\ RejectedOf(recorded) <= RejectedOf(trace.lines) + AwaitedMark + faults

IInv ==
  /\ Typed
  /\ TodoKept
  /\ JudgedBehind
  /\ WrittenBehind
  /\ ChainBehind
  /\ TraceBehind
  /\ CarriedOver

-----------------------------------------------------------------------------
(* A file that grew: the order of its events, their count, and the chain.   *)

LEMMA GrownIndices ==
  ASSUME NEW S, NEW f \in Files(S), NEW g \in Files(S), NEW line \in S, Grown(f, g, line)
  PROVE  /\ Len(f.lines) \in Nat
         /\ Len(g.lines) \in Nat /\ Len(g.lines) >= 1
         /\ g.lines[Len(g.lines)] \in {line, Garbled}
         /\ \A i \in 1 .. Len(g.lines) : i # Len(g.lines) =>
              i \in 1 .. Len(f.lines) /\ g.lines[i] = f.lines[i]
         /\ DOMAIN f.lines = 1 .. Len(f.lines)
         /\ DOMAIN g.lines = 1 .. Len(g.lines)
<1>1. f.lines \in Seq(S \cup {Garbled}) /\ g.lines \in Seq(S \cup {Garbled})
  BY DEF Files
<1>2. /\ Len(f.lines) \in Nat
      /\ Len(g.lines) \in Nat /\ Len(g.lines) >= 1
      /\ DOMAIN f.lines = 1 .. Len(f.lines)
      /\ DOMAIN g.lines = 1 .. Len(g.lines)
  BY <1>1, EmptySeq, LenProperties DEF Grown
<1>3. QED
  BY <1>2 DEF Grown

LEMMA GrownOrder ==
  ASSUME NEW S, \A l \in S : l.about \in Abouts,
         NEW f \in Files(S), NEW g \in Files(S), NEW line \in S, Grown(f, g, line),
         Ascending(f)
  PROVE  /\ \A n \in Nat : Below(f, n) /\ (line.about[1] = "event" => line.about[2] < n)
                             => Below(g, n)
         /\ (line.about[1] = "event" => Below(f, line.about[2])) => Ascending(g)
<1> DEFINE k == Len(g.lines)
<1>1. /\ Len(f.lines) \in Nat /\ k \in Nat /\ k >= 1
      /\ g.lines[k] \in {line, Garbled}
      /\ \A i \in 1 .. k : i # k => i \in 1 .. Len(f.lines) /\ g.lines[i] = f.lines[i]
  BY GrownIndices
<1>2. Garbled.about[1] # "event"
  BY GarbledIsNoLine
<1> HIDE DEF k
<1>3. ASSUME NEW n \in Nat, Below(f, n), line.about[1] = "event" => line.about[2] < n,
             NEW i \in 1 .. k, g.lines[i].about[1] = "event"
      PROVE  g.lines[i].about[2] < n
  <2>1. CASE i = k
    BY <2>1, <1>1, <1>2, <1>3
  <2>2. CASE i # k
    BY <2>2, <1>1, <1>3 DEF Below
  <2>3. QED
    BY <2>1, <2>2
<1>4. ASSUME line.about[1] = "event" => Below(f, line.about[2]),
             NEW i \in 1 .. k, NEW j \in 1 .. k, i < j,
             g.lines[i].about[1] = "event", g.lines[j].about[1] = "event"
      PROVE  g.lines[i].about[2] < g.lines[j].about[2]
  <2>1. i # k /\ i \in 1 .. Len(f.lines) /\ g.lines[i] = f.lines[i]
    BY <1>1, <1>4
  <2>2. CASE j = k
    BY <2>1, <2>2, <1>1, <1>2, <1>4 DEF Below
  <2>3. CASE j # k
    BY <2>1, <2>3, <1>1, <1>4 DEF Ascending
  <2>4. QED
    BY <2>2, <2>3
<1>5. QED
  BY <1>3, <1>4 DEF Below, Ascending, k

\* How many members a set of positions has when one position more is looked at.
LEMMA CountOneMore ==
  ASSUME NEW n \in Nat, NEW A \in SUBSET (1 .. n), NEW B \in SUBSET (1 .. n + 1),
         \A i \in 1 .. n : i \in A <=> i \in B
  PROVE  /\ Cardinality(A) \in Nat
         /\ Cardinality(B) = Cardinality(A) + (IF n + 1 \in B THEN 1 ELSE 0)
<1>0. \A i \in 1 .. n + 1 : i = n + 1 \/ i \in 1 .. n
  OBVIOUS
<1>1. IsFiniteSet(1 .. n)
  BY FS_Interval
<1>2. IsFiniteSet(A)
  BY <1>1, FS_Subset
<1>3. Cardinality(A) \in Nat
  BY <1>2, FS_CardinalityType
<1>4. n + 1 \notin A
  OBVIOUS
<1>5. CASE n + 1 \in B
  <2>1. B = A \cup {n + 1}
    BY <1>0, <1>5
  <2>2. Cardinality(A \cup {n + 1}) = Cardinality(A) + 1
    <3> DEFINE x == n + 1
    <3>1. x \notin A
      BY <1>4
    <3> HIDE DEF x
    <3>2. Cardinality(A \cup {x}) = Cardinality(A) + 1
      BY <3>1, <1>2, FS_AddElement
    <3>3. QED
      BY <3>2 DEF x
  <2>3. QED
    BY <2>1, <2>2, <1>3, <1>5
<1>6. CASE n + 1 \notin B
  <2>1. B = A
    BY <1>0, <1>6
  <2>2. QED
    BY <2>1, <1>3, <1>6
<1>7. QED
  BY <1>3, <1>5, <1>6

LEMMA CountsOneMore ==
  ASSUME NEW s, NEW t, NEW n \in Nat, DOMAIN s = 1 .. n, DOMAIN t = 1 .. n + 1,
         \A i \in 1 .. n : t[i] = s[i]
  PROVE  /\ TotalOf(s) \in Nat /\ RejectedOf(s) \in Nat
         /\ TotalOf(t) = TotalOf(s) + (IF t[n + 1].cost = 1 THEN 1 ELSE 0)
         /\ RejectedOf(t) = RejectedOf(s) + (IF t[n + 1].marked THEN 1 ELSE 0)
<1>1. n + 1 \in 1 .. n + 1
  OBVIOUS
<1>2. TotalOf(s) \in Nat /\ TotalOf(t) = TotalOf(s) + (IF t[n + 1].cost = 1 THEN 1 ELSE 0)
  <2> DEFINE A == {i \in DOMAIN s : s[i].cost = 1}
             B == {i \in DOMAIN t : t[i].cost = 1}
  <2>1. /\ A \in SUBSET (1 .. n) /\ B \in SUBSET (1 .. n + 1)
        /\ \A i \in 1 .. n : i \in A <=> i \in B
        /\ n + 1 \in B <=> t[n + 1].cost = 1
    BY <1>1
  <2> HIDE DEF A, B
  <2>2. /\ Cardinality(A) \in Nat
        /\ Cardinality(B) = Cardinality(A) + (IF n + 1 \in B THEN 1 ELSE 0)
    BY <2>1, CountOneMore
  <2>3. QED
    BY <2>1, <2>2 DEF TotalOf, A, B
<1>3. RejectedOf(s) \in Nat /\ RejectedOf(t) = RejectedOf(s) + (IF t[n + 1].marked THEN 1 ELSE 0)
  <2> DEFINE A == {i \in DOMAIN s : s[i].marked}
             B == {i \in DOMAIN t : t[i].marked}
  <2>1. /\ A \in SUBSET (1 .. n) /\ B \in SUBSET (1 .. n + 1)
        /\ \A i \in 1 .. n : i \in A <=> i \in B
        /\ n + 1 \in B <=> t[n + 1].marked
    BY <1>1
  <2> HIDE DEF A, B
  <2>2. /\ Cardinality(A) \in Nat
        /\ Cardinality(B) = Cardinality(A) + (IF n + 1 \in B THEN 1 ELSE 0)
    BY <2>1, CountOneMore
  <2>3. QED
    BY <2>1, <2>2 DEF RejectedOf, A, B
<1>4. QED
  BY <1>2, <1>3

LEMMA CountsType ==
  ASSUME NEW s, NEW n \in Nat, DOMAIN s = 1 .. n
  PROVE  TotalOf(s) \in Nat /\ RejectedOf(s) \in Nat
<1>1. IsFiniteSet(1 .. n)
  BY FS_Interval
<1>2. IsFiniteSet({i \in DOMAIN s : s[i].cost = 1}) /\ IsFiniteSet({i \in DOMAIN s : s[i].marked})
  BY <1>1, FS_Subset
<1>3. QED
  BY <1>2, FS_CardinalityType DEF TotalOf, RejectedOf

LEMMA GrownCounts ==
  ASSUME NEW f \in Files(Events), NEW g \in Files(Events), NEW line \in Events,
         Grown(f, g, line), Readable(g)
  PROVE  /\ Readable(f)
         /\ TotalOf(g.lines) = TotalOf(f.lines) + (IF line.cost = 1 THEN 1 ELSE 0)
         /\ RejectedOf(g.lines) = RejectedOf(f.lines) + (IF line.marked THEN 1 ELSE 0)
<1> DEFINE n == Len(f.lines)
<1>1. /\ n \in Nat
      /\ Len(g.lines) \in Nat /\ Len(g.lines) >= 1
      /\ DOMAIN f.lines = 1 .. n
      /\ DOMAIN g.lines = 1 .. Len(g.lines)
  BY GrownIndices
<1>2. g.lines[Len(g.lines)] # Garbled
  BY <1>1 DEF Readable
<1>3. /\ Len(g.lines) = n + 1
      /\ g.lines[n + 1] = line
      /\ \A i \in 1 .. n : g.lines[i] = f.lines[i]
  BY <1>2 DEF Grown
<1>4. Readable(f)
  BY <1>1, <1>3 DEF Readable
<1> HIDE DEF n
<1>5. DOMAIN g.lines = 1 .. n + 1
  BY <1>1, <1>3
<1>6. /\ TotalOf(g.lines) = TotalOf(f.lines) + (IF g.lines[n + 1].cost = 1 THEN 1 ELSE 0)
      /\ RejectedOf(g.lines) = RejectedOf(f.lines) + (IF g.lines[n + 1].marked THEN 1 ELSE 0)
  BY ONLY <1>1, <1>3, <1>5, CountsOneMore
<1>7. QED
  BY <1>3, <1>4, <1>6

\* A file stays intact exactly if a whole record that continues it is appended.
LEMMA GrownIntact ==
  ASSUME NEW f \in Files(Records), NEW g \in Files(Records), NEW line \in Records,
         Grown(f, g, line), line.hash = Digest(line.prev_hash, line.about)
  PROVE  /\ g.lines # <<>>
         /\ Intact(g) <=> /\ ~f.cut
                          /\ Last(g.lines) # Garbled
                          /\ f.lines # <<>> => Intact(f)
                          /\ line.prev_hash = TailHash(f)
         /\ Last(g.lines) # Garbled => TailHash(g) = line.hash
<1> DEFINE n == Len(f.lines)
           k == Len(g.lines)
<1>1. /\ n \in Nat /\ k \in Nat /\ k >= 1
      /\ DOMAIN f.lines = 1 .. n /\ DOMAIN g.lines = 1 .. k
      /\ Last(g.lines) = g.lines[k]
      /\ g.lines[k] \in {line, Garbled}
      /\ g.lines # <<>>
      /\ f.lines = <<>> <=> n = 0
  <2>1. f.lines \in Seq(Records \cup {Garbled})
    BY DEF Files
  <2>2. f.lines = <<>> <=> n = 0
    BY <2>1, EmptySeq
  <2>3. QED
    BY <2>2, GrownIndices DEF Last, Grown
<1>2. Last(g.lines) # Garbled => TailHash(g) = line.hash
  BY <1>1 DEF TailHash
<1>3. CASE f.cut \/ Last(g.lines) = Garbled
  <2>1. g.lines[k] = Garbled
    BY <1>1, <1>3 DEF Grown
  <2>2. ~Intact(g)
    BY <2>1, <1>1 DEF Intact, Readable
  <2>3. QED
    BY <2>2, <1>1, <1>2, <1>3
<1>4. CASE ~f.cut /\ Last(g.lines) # Garbled
  <2>1. /\ k = n + 1
        /\ g.lines[n + 1] = line
        /\ \A i \in 1 .. n : g.lines[i] = f.lines[i]
    BY <1>1, <1>4 DEF Grown
  <2>2. line # Garbled
    BY GarbledIsNoLine
  <2>3. Readable(g) <=> Readable(f)
    <3>1. DOMAIN g.lines = 1 .. n + 1 /\ \A i \in 1 .. n + 1 : i = n + 1 \/ i \in 1 .. n
      BY <1>1, <2>1
    <3>2. \A i \in 1 .. n : i \in 1 .. n + 1
      BY <1>1
    <3> HIDE DEF n
    <3>3. Readable(g) <=> \A i \in 1 .. n + 1 : g.lines[i] # Garbled
      BY <3>1 DEF Readable
    <3>4. Readable(f) <=> \A i \in 1 .. n : f.lines[i] # Garbled
      BY <1>1 DEF Readable
    <3>5. QED
      BY ONLY <3>1, <3>2, <3>3, <3>4, <2>1, <2>2
  <2> DEFINE Link(file, i) ==
        /\ file.lines[i].prev_hash = IF i = 1 THEN EmptyHash ELSE file.lines[i - 1].hash
        /\ file.lines[i].hash = Digest(file.lines[i].prev_hash, file.lines[i].about)
  <2>4. \A i \in 1 .. n : Link(g, i) <=> Link(f, i)
    <3>1. \A i \in 1 .. n : i # 1 => i - 1 \in 1 .. n
      BY <1>1
    <3>2. QED
      BY <3>1, <2>1
  <2>5. Link(g, n + 1) <=> line.prev_hash = IF n = 0 THEN EmptyHash ELSE f.lines[n].hash
    <3>1. CASE n = 0
      BY <3>1, <2>1
    <3>2. CASE n # 0
      <4>1. n + 1 # 1 /\ (n + 1) - 1 = n /\ n \in 1 .. n
        BY <3>2, <1>1
      <4>2. QED
        BY <4>1, <3>2, <2>1
    <3>3. QED
      BY <3>1, <3>2
  <2> HIDE DEF Link
  <2>6. Intact(g) <=> Readable(g) /\ \A i \in 1 .. n + 1 : Link(g, i)
    BY <1>1, <2>1 DEF Intact, Link
  <2>7. f.lines # <<>> => (Intact(f) <=> Readable(f) /\ \A i \in 1 .. n : Link(f, i))
    BY <1>1 DEF Intact, Link
  <2>8. f.lines = <<>> => Readable(f) /\ \A i \in 1 .. n : Link(f, i)
    BY <1>1 DEF Readable
  <2>9. Readable(f) => TailHash(f) = IF n = 0 THEN EmptyHash ELSE f.lines[n].hash
    BY <1>1 DEF Readable, TailHash, Last
  <2>10. (\A i \in 1 .. n + 1 : Link(g, i)) <=> Link(g, n + 1) /\ \A i \in 1 .. n : Link(g, i)
    <3>1. /\ n + 1 \in 1 .. n + 1
          /\ \A i \in 1 .. n + 1 : i = n + 1 \/ i \in 1 .. n
          /\ \A i \in 1 .. n : i \in 1 .. n + 1
      BY <1>1
    <3>2. QED
      BY <3>1
  <2>11. (f.lines # <<>> => Intact(f)) <=> Readable(f) /\ \A i \in 1 .. n : Link(f, i)
    BY <2>7, <2>8
  <2>12. QED
    BY <2>3, <2>4, <2>5, <2>6, <2>9, <2>10, <2>11, <1>1, <1>2, <1>4
<1>5. QED
  BY <1>3, <1>4

-----------------------------------------------------------------------------
(* The write at hand.                                                       *)

LEMMA ShortSequences ==
  ASSUME NEW x, NEW y
  PROVE  /\ Head(<<x>>) = x /\ Tail(<<x>>) = <<>> /\ <<x>> # <<>>
         /\ Head(<<x, y>>) = x /\ Tail(<<x, y>>) = <<y>> /\ <<x, y>> # <<>>
         /\ ~\E i \in 1 .. Len(<<>>) : <<>>[i] = y
         /\ (\E i \in 1 .. Len(<<x>>) : <<x>>[i] = y) <=> x = y
         /\ \E i \in 1 .. Len(<<x, y>>) : <<x, y>>[i] = x
         /\ \E i \in 1 .. Len(<<x, y>>) : <<x, y>>[i] = y
<1>1. (\E i \in 1 .. Len(<<x>>) : <<x>>[i] = y) <=> x = y
  <2>1. Len(<<x>>) = 1 /\ 1 .. 1 = {1} /\ <<x>>[1] = x
    OBVIOUS
  <2>2. QED
    BY <2>1
<1>2. \E i \in 1 .. Len(<<x, y>>) : <<x, y>>[i] = x
  <2>1. 1 \in 1 .. Len(<<x, y>>) /\ <<x, y>>[1] = x
    OBVIOUS
  <2>2. QED
    BY <2>1
<1>3. \E i \in 1 .. Len(<<x, y>>) : <<x, y>>[i] = y
  <2>1. 2 \in 1 .. Len(<<x, y>>) /\ <<x, y>>[2] = y
    OBVIOUS
  <2>2. QED
    BY <2>1
<1>4. ~\E i \in 1 .. Len(<<>>) : <<>>[i] = y
  OBVIOUS
<1>5. QED
  BY <1>1, <1>2, <1>3, <1>4

LEMMA TodoTyped ==
  LET Writes == {"trace", "audit", "violation", "session_end"}
  IN  /\ <<>> \in Seq(Writes)
      /\ \A t \in {<<"trace", "audit">>, <<"audit", "trace">>, <<"trace">>, <<"audit">>,
                   <<"violation">>, <<"session_end">>} :
           t \in Seq(Writes) /\ t # <<>>
<1> DEFINE Writes == {"trace", "audit", "violation", "session_end"}
<1>1. ASSUME NEW x \in Writes, NEW y \in Writes
      PROVE  <<x>> \in Seq(Writes) /\ <<x>> # <<>> /\ <<x, y>> \in Seq(Writes) /\ <<x, y>> # <<>>
  <2> HIDE DEF Writes
  <2>1. QED
    OBVIOUS
<1>2. "trace" \in Writes /\ "audit" \in Writes /\ "violation" \in Writes /\ "session_end" \in Writes
  OBVIOUS
<1> HIDE DEF Writes
<1>3. <<>> \in Seq(Writes)
  OBVIOUS
<1>4. QED
  BY <1>1, <1>2, <1>3 DEF Writes

LEMMA AtHand ==
  ASSUME Typed, TodoKept, todo # <<>>
  PROVE  /\ pc \in {"telling", "violated", "ending"}
         /\ pc = "telling" <=> Head(todo) \in {"trace", "audit"}
         /\ pc = "telling" => Tail(todo) \in {<<>>, <<"trace">>, <<"audit">>}
         /\ pc # "telling" => Tail(todo) = <<>> /\ Head(todo) \in {"violation", "session_end"}
         /\ \A file \in {"trace", "audit"} :
              /\ Head(todo) = file => Awaits(file)
              /\ (\E i \in 1 .. Len(Tail(todo)) : Tail(todo)[i] = file)
                   <=> Awaits(file) /\ Head(todo) # file
<1>1. ASSUME NEW x \in {"trace", "audit", "violation", "session_end"}, todo = <<x>>
      PROVE  /\ Head(todo) = x /\ Tail(todo) = <<>>
             /\ \A file : Awaits(file) <=> x = file
             /\ \A file : ~\E i \in 1 .. Len(Tail(todo)) : Tail(todo)[i] = file
  BY <1>1, ShortSequences DEF Awaits
<1>2. ASSUME NEW x \in {"trace", "audit"}, NEW y \in {"trace", "audit"}, x # y, todo = <<x, y>>
      PROVE  /\ Head(todo) = x /\ Tail(todo) = <<y>>
             /\ Awaits(x) /\ Awaits(y)
             /\ \A file : (\E i \in 1 .. Len(Tail(todo)) : Tail(todo)[i] = file) <=> y = file
  BY <1>2, ShortSequences DEF Awaits
<1>3. CASE pc = "telling"
  <2>1. CASE \E x \in {"trace", "audit"} : todo = <<x>>
    BY <1>1, <1>3, <2>1
  <2>2. CASE \E x, y \in {"trace", "audit"} : x # y /\ todo = <<x, y>>
    BY <1>2, <1>3, <2>2
  <2>3. QED
    BY <1>3, <2>1, <2>2 DEF TodoKept
<1>4. CASE pc # "telling"
  <2>1. pc \in {"violated", "ending"}
    BY <1>4 DEF Typed, TypeOK
  <2>2. \E x \in {"violation", "session_end"} : todo = <<x>>
    BY <2>1 DEF TodoKept
  <2>3. QED
    BY <1>1, <1>4, <2>1, <2>2
<1>5. QED
  BY <1>3, <1>4

\* Between two calls nothing is still to be written.
LEMMA NothingAwaited ==
  ASSUME todo = <<>> \/ todo = <<"violation">> \/ todo = <<"session_end">>
  PROVE  ~Awaits("trace") /\ ~Awaits("audit")
BY DEF Awaits

LEMMA LastRecorded ==
  ASSUME Typed, recorded # <<>>
  PROVE  /\ Len(recorded) \in Nat /\ Len(recorded) >= 1
         /\ Last(recorded) \in Events
         /\ Last(recorded).about = <<"event", Len(recorded)>>
<1>1. Len(recorded) \in Nat /\ Len(recorded) >= 1
  BY EmptySeq, LenProperties DEF Typed
<1>2. QED
  BY <1>1, ElementOfSeq DEF Typed, Last

LEMMA RecordTyped ==
  ASSUME NEW prev \in Hashes, NEW about \in Abouts
  PROVE  /\ Record(prev, about) \in Records
         /\ Record(prev, about).about = about
         /\ Record(prev, about).prev_hash = prev
         /\ Record(prev, about).hash = Digest(prev, about)
         /\ Digest(prev, about) \in Hashes
         /\ Len(Digest(prev, about)) = Len(prev) + 1
         /\ Len(prev) \in Nat
BY DEF Record, Records, Digest, Hashes

LEMMA LineAtHand ==
  ASSUME Typed, TodoKept, todo # <<>>
  PROVE  /\ Head(todo) = "trace" =>
              /\ Line(Head(todo)) = Last(recorded)
              /\ Line(Head(todo)) \in Events
              /\ Line(Head(todo)).about = <<"event", Len(recorded)>>
         /\ Head(todo) # "trace" =>
              \E about \in Abouts :
                /\ Line(Head(todo)) = Record(prevHash.run, about)
                /\ Head(todo) = "audit" => about = <<"event", Len(recorded)>>
                /\ Head(todo) # "audit" => about[1] # "event"
<1>1. CASE Head(todo) \in {"trace", "audit"}
  <2>1. recorded # <<>>
    BY <1>1, AtHand DEF TodoKept
  <2>2. /\ Last(recorded) \in Events
        /\ Last(recorded).about = <<"event", Len(recorded)>>
    BY <2>1, LastRecorded
  <2>3. Last(recorded).about \in Abouts
    BY <2>2 DEF Events
  <2>4. CASE Head(todo) = "trace"
    BY <2>2, <2>4 DEF Line
  <2>5. CASE Head(todo) = "audit"
    BY <2>2, <2>3, <2>5 DEF Line
  <2>6. QED
    BY <1>1, <2>4, <2>5
<1>2. CASE Head(todo) \notin {"trace", "audit"}
  <2>1. Head(todo) \in {"violation", "session_end"}
    BY <1>2, AtHand
  <2> DEFINE about == <<Head(todo), 0>>
  <2>2. about \in Abouts /\ about[1] # "event"
    BY <2>1 DEF Abouts, Kinds
  <2>3. Line(Head(todo)) = Record(prevHash.run, about)
    BY <2>1 DEF Line, About
  <2>4. QED
    BY <2>1, <2>2, <2>3
<1>3. QED
  BY <1>1, <1>2

-----------------------------------------------------------------------------
(* One record more in the audit file.                                       *)

LEMMA TailHashTyped ==
  ASSUME Typed
  PROVE  TailHash(audit) \in Hashes /\ Len(TailHash(audit)) \in Nat
<1>1. audit.lines \in Seq(Records \cup {Garbled})
  BY DEF Typed, Files
<1>2. EmptyHash \in Hashes
  BY DEF EmptyHash, Hashes
<1>3. ASSUME audit.lines # <<>>, Last(audit.lines) # Garbled
      PROVE  Last(audit.lines).hash \in Hashes
  <2>1. Len(audit.lines) \in 1 .. Len(audit.lines)
    BY <1>1, <1>3, EmptySeq, LenProperties
  <2>2. Last(audit.lines) \in Records \cup {Garbled}
    BY <1>1, <2>1, ElementOfSeq DEF Last
  <2>3. QED
    BY <1>3, <2>2 DEF Records
<1>4. TailHash(audit) \in Hashes
  BY <1>2, <1>3 DEF TailHash
<1>5. QED
  BY <1>4 DEF Hashes

LEMMA ChainWritten ==
  ASSUME Typed, ChainBehind, NEW o \in Observers, NEW about \in Abouts,
         audit' \in Files(Records), audit' # audit,
         Grown(audit, audit', Record(prevHash[o], about)), NoteAudit(o),
         \/ audit'.cut /\ prevHash' = prevHash
         \/ prevHash' = [prevHash EXCEPT ![o] = Record(prevHash[o], about).hash]
  PROVE  ChainBehind'
<1> DEFINE line == Record(prevHash[o], about)
           t == TailHash(audit)
<1>1. prevHash[o] \in Hashes /\ prevHash \in [Observers -> Hashes] /\ audit \in Files(Records)
  BY DEF Typed
<1>2. /\ line \in Records
      /\ line.prev_hash = prevHash[o]
      /\ line.hash = Digest(prevHash[o], about)
      /\ line.hash = Digest(line.prev_hash, line.about)
      /\ Len(line.hash) = Len(prevHash[o]) + 1
  BY <1>1, RecordTyped
<1>3. t \in Hashes /\ Len(t) \in Nat
  BY TailHashTyped
<1>4. \A p \in Observers : prevHash[p] \in Hashes /\ Len(prevHash[p]) \in Nat
  BY <1>1 DEF Hashes
<1>5. Grown(audit, audit', line)
  OBVIOUS
<1> HIDE DEF line, t
<1>6. /\ audit'.lines # <<>>
      /\ Intact(audit') <=> /\ ~audit.cut
                            /\ Last(audit'.lines) # Garbled
                            /\ audit.lines # <<>> => Intact(audit)
                            /\ line.prev_hash = t
      /\ Last(audit'.lines) # Garbled => TailHash(audit') = line.hash
  BY <1>1, <1>2, <1>5, GrownIntact DEF t
<1>7. CASE broken \/ o \in stale \/ audit.cut \/ Last(audit'.lines) = Garbled
  <2>1. broken'
    BY <1>7 DEF NoteAudit
  <2>2. broken => ~Intact(audit')
    BY <1>6 DEF ChainBehind, ChainExact
  <2>3. ASSUME ~broken, o \in stale
        PROVE  ~Intact(audit')
    <3>1. Len(prevHash[o]) < Len(t)
      BY <2>3 DEF ChainBehind, HashesKnown, t
    <3>2. prevHash[o] # t
      BY <3>1, <1>3
    <3>3. QED
      BY <3>2, <1>2, <1>6
  <2>4. ~Intact(audit')
    BY <2>2, <2>3, <1>6, <1>7
  <2>5. QED
    BY <2>1, <2>4, <1>6 DEF ChainBehind, ChainExact, HashesKnown
<1>8. CASE ~(broken \/ o \in stale \/ audit.cut \/ Last(audit'.lines) = Garbled)
  <2>1. ~broken' /\ stale' = stale \cup (Observers \ {o})
    BY <1>8 DEF NoteAudit
  <2>2. prevHash[o] = t /\ \A p \in Observers : Len(prevHash[p]) <= Len(t)
    BY <1>8 DEF ChainBehind, HashesKnown, t
  <2>3. Intact(audit')
    BY <2>2, <1>2, <1>6, <1>8 DEF ChainBehind, ChainExact
  <2>4. TailHash(audit') = line.hash /\ Len(line.hash) = Len(t) + 1
    BY <2>2, <1>2, <1>6, <1>8
  <2>5. ASSUME NEW p \in Observers
        PROVE  /\ Len(prevHash'[p]) <= Len(line.hash)
               /\ p \in stale' => Len(prevHash'[p]) < Len(line.hash)
               /\ p \notin stale' /\ ~audit'.cut => prevHash'[p] = line.hash
    <3>1. CASE p = o
      <4>1. o \notin stale'
        BY <2>1, <1>8
      <4>2. prevHash'[o] = line.hash \/ (audit'.cut /\ prevHash'[o] = t)
        BY <2>2, <1>1 DEF line
      <4>3. QED
        BY <4>1, <4>2, <2>4, <1>3, <3>1
    <3>2. CASE p # o
      <4>1. prevHash'[p] = prevHash[p] /\ p \in stale'
        BY <3>2, <2>1, <1>1
      <4>2. Len(prevHash[p]) < Len(line.hash)
        BY <2>2, <2>4, <1>3, <1>4
      <4>3. QED
        BY <4>1, <4>2, <2>4, <1>3, <1>4
    <3>3. QED
      BY <3>1, <3>2
  <2>6. HashesKnown'
    BY <2>4, <2>5 DEF HashesKnown
  <2>7. QED
    BY <2>1, <2>3, <2>6 DEF ChainBehind, ChainExact
<1>9. QED
  BY <1>7, <1>8

LEMMA ChainOpened ==
  ASSUME Typed, ChainBehind, NEW o \in Observers,
         prevHash' = [prevHash EXCEPT ![o] = TailHash(audit)], stale' = stale \ {o},
         audit' = audit, broken' = broken
  PROVE  ChainBehind' /\ prevHash' \in [Observers -> Hashes]
<1>1. prevHash \in [Observers -> Hashes] /\ TailHash(audit) \in Hashes /\ Len(TailHash(audit)) \in Nat
  BY TailHashTyped DEF Typed
<1>2. HashesKnown'
  <2>1. ASSUME ~broken, NEW p \in Observers
        PROVE  /\ Len(prevHash'[p]) <= Len(TailHash(audit))
               /\ p \in stale' => Len(prevHash'[p]) < Len(TailHash(audit))
               /\ p \notin stale' /\ ~audit.cut => prevHash'[p] = TailHash(audit)
    <3>1. CASE p = o
      BY <3>1, <1>1
    <3>2. CASE p # o
      BY <3>2, <2>1, <1>1 DEF ChainBehind, HashesKnown
    <3>3. QED
      BY <3>1, <3>2
  <2>2. QED
    BY <2>1 DEF HashesKnown
<1>3. QED
  BY <1>1, <1>2 DEF ChainBehind, ChainExact

LEMMA ChainKept ==
  ASSUME ChainBehind, UNCHANGED <<audit, prevHash, stale, broken>>
  PROVE  ChainBehind'
BY DEF ChainBehind, ChainExact, HashesKnown

-----------------------------------------------------------------------------
(* What a step leaves of the order of a file and of the count of the trace.  *)

LEMMA AboutsTyped ==
  /\ \A l \in Events : l.about \in Abouts
  /\ \A l \in Records : l.about \in Abouts
BY DEF Events, Records

\* The event the line is about, if any, has been awaited and is not awaited any more.
LEMMA FileOrdered ==
  ASSUME NEW S, \A l \in S : l.about \in Abouts,
         NEW f \in Files(S), NEW g \in Files(S), NEW line \in S, Grown(f, g, line),
         NEW n \in Nat, NEW before \in BOOLEAN, NEW after \in BOOLEAN, after => before,
         Ascending(f), Below(f, n + 1), before => Below(f, n),
         line.about[1] = "event" => before /\ ~after /\ line.about[2] = n
  PROVE  Ascending(g) /\ Below(g, n + 1) /\ (after => Below(g, n))
<1>1. /\ \A m \in Nat : Below(f, m) /\ (line.about[1] = "event" => line.about[2] < m)
                             => Below(g, m)
      /\ (line.about[1] = "event" => Below(f, line.about[2])) => Ascending(g)
  BY GrownOrder
<1>2. n + 1 \in Nat /\ n < n + 1
  OBVIOUS
<1>3. Below(g, n + 1)
  BY <1>1, <1>2
<1>4. after => Below(g, n)
  BY <1>1
<1>5. Ascending(g)
  BY <1>1
<1>6. QED
  BY <1>3, <1>4, <1>5

LEMMA CountsTyped ==
  ASSUME Typed
  PROVE  /\ TotalOf(recorded) \in Nat /\ RejectedOf(recorded) \in Nat
         /\ TotalOf(trace.lines) \in Nat /\ RejectedOf(trace.lines) \in Nat
         /\ faults \in Nat
         /\ AwaitedCost \in {0, 1} /\ AwaitedMark \in {0, 1}
<1>1. DOMAIN recorded = 1 .. Len(recorded) /\ Len(recorded) \in Nat
  BY LenProperties DEF Typed
<1>2. DOMAIN trace.lines = 1 .. Len(trace.lines) /\ Len(trace.lines) \in Nat
  BY LenProperties DEF Typed, Files
<1>3. faults \in Nat
  BY RunAssumption DEF Typed, TypeOK
<1>4. QED
  BY <1>1, <1>2, <1>3, CountsType DEF AwaitedCost, AwaitedMark

\* The event that was awaited has been written, in whole or in part.
LEMMA TraceWritten ==
  ASSUME Typed, TraceBehind, Awaits("trace"), recorded # <<>>,
         trace' \in Files(Events), Grown(trace, trace', Last(recorded)),
         recorded' = recorded, ~Awaits("trace")', faults' \in {faults, faults + 1}
  PROVE  TraceBehind'
<1>1. SUFFICES ASSUME Readable(trace')
               PROVE  /\ TotalOf(trace'.lines) <= TotalOf(recorded)
                      /\ TotalOf(recorded) <= TotalOf(trace'.lines) + faults'
                      /\ RejectedOf(trace'.lines) <= RejectedOf(recorded)
                      /\ RejectedOf(recorded) <= RejectedOf(trace'.lines) + faults'
  <2>1. AwaitedCost' = 0 /\ AwaitedMark' = 0
    BY DEF AwaitedCost, AwaitedMark
  <2>2. ASSUME trace' \in Files(Events)
        PROVE TotalOf(trace'.lines) \in Nat /\ RejectedOf(trace'.lines) \in Nat
    <3>1. DOMAIN trace'.lines = 1 .. Len(trace'.lines) /\ Len(trace'.lines) \in Nat
      BY LenProperties DEF Files
    <3>2. QED
      BY <3>1, CountsType
  <2>3. QED
    BY <2>1, <2>2, <1>1 DEF TraceBehind
<1>2. Last(recorded) \in Events /\ trace \in Files(Events)
  BY LastRecorded DEF Typed
<1>3. /\ Readable(trace)
      /\ TotalOf(trace'.lines) = TotalOf(trace.lines) + AwaitedCost
      /\ RejectedOf(trace'.lines) = RejectedOf(trace.lines) + AwaitedMark
  BY <1>1, <1>2, GrownCounts DEF AwaitedCost, AwaitedMark
<1>4. /\ TotalOf(trace'.lines) <= TotalOf(recorded)
      /\ TotalOf(recorded) <= TotalOf(trace'.lines) + faults
      /\ RejectedOf(trace'.lines) <= RejectedOf(recorded)
      /\ RejectedOf(recorded) <= RejectedOf(trace'.lines) + faults
  BY <1>3 DEF TraceBehind
<1>5. /\ TotalOf(trace'.lines) \in Nat /\ RejectedOf(trace'.lines) \in Nat
      /\ TotalOf(recorded) \in Nat /\ RejectedOf(recorded) \in Nat /\ faults \in Nat
  BY <1>3, CountsTyped
<1>6. QED
  BY <1>4, <1>5

\* The trace stays as it is; a fault may end the wait for the event.
LEMMA TraceKept ==
  ASSUME Typed, TraceBehind, trace' = trace, recorded' = recorded,
         \/ (Awaits("trace")' <=> Awaits("trace")) /\ faults' = faults
         \/ ~Awaits("trace")' /\ faults' = faults + 1
  PROVE  TraceBehind'
<1>1. SUFFICES ASSUME Readable(trace)
               PROVE  /\ TotalOf(trace.lines) + AwaitedCost' <= TotalOf(recorded)
                      /\ TotalOf(recorded) <= TotalOf(trace.lines) + AwaitedCost' + faults'
                      /\ RejectedOf(trace.lines) + AwaitedMark' <= RejectedOf(recorded)
                      /\ RejectedOf(recorded) <= RejectedOf(trace.lines) + AwaitedMark' + faults'
  BY DEF TraceBehind
<1>2. /\ TotalOf(trace.lines) + AwaitedCost <= TotalOf(recorded)
      /\ TotalOf(recorded) <= TotalOf(trace.lines) + AwaitedCost + faults
      /\ RejectedOf(trace.lines) + AwaitedMark <= RejectedOf(recorded)
      /\ RejectedOf(recorded) <= RejectedOf(trace.lines) + AwaitedMark + faults
  BY <1>1 DEF TraceBehind
<1>3. /\ TotalOf(trace.lines) \in Nat /\ RejectedOf(trace.lines) \in Nat
      /\ TotalOf(recorded) \in Nat /\ RejectedOf(recorded) \in Nat /\ faults \in Nat
      /\ AwaitedCost \in {0, 1} /\ AwaitedMark \in {0, 1}
  BY CountsTyped
<1>4. CASE (Awaits("trace")' <=> Awaits("trace")) /\ faults' = faults
  <2>1. AwaitedCost' = AwaitedCost /\ AwaitedMark' = AwaitedMark
    BY <1>4 DEF AwaitedCost, AwaitedMark
  <2>2. QED
    BY <2>1, <1>2, <1>4
<1>5. CASE ~Awaits("trace")' /\ faults' = faults + 1
  <2>1. AwaitedCost' = 0 /\ AwaitedMark' = 0
    BY <1>5 DEF AwaitedCost, AwaitedMark
  <2>2. QED
    BY <2>1, <1>2, <1>3, <1>5
<1>6. QED
  BY <1>4, <1>5

-----------------------------------------------------------------------------
(* The steps.                                                               *)

LEMMA InitIInv == Init => IInv
<1> SUFFICES ASSUME Init
             PROVE  IInv
  OBVIOUS
<1>1. todo = <<>> /\ Len(todo) = 0 /\ recorded = <<>> /\ Len(recorded) = 0 /\ trace.lines = <<>> /\ audit.lines = <<>>
      /\ Len(trace.lines) = 0 /\ ~trace.cut /\ ~audit.cut /\ pc = "down"
  BY DEF Init, NoFile
<1>2. NoFile \in Files(Events) /\ NoFile \in Files(Records)
  BY DEF NoFile, Files
<1>3. EmptyHash \in Hashes /\ Len(EmptyHash) = 0
  BY DEF EmptyHash, Hashes
<1>4. Typed
  <2>1. 0 \in 0 .. MaxProcesses /\ 0 \in 0 .. MaxForeign /\ 0 \in 0 .. MaxFaults /\ 0 <= MaxEvents
    BY RunAssumption
  <2>2. judged \in 0 .. Len(recorded) /\ Len(recorded) <= MaxEvents
    BY <1>1, <2>1 DEF Init
  <2>3. DOMAIN prevHash = Observers /\ DOMAIN NoFile = {"lines", "cut"} /\ NoFile.cut = FALSE
    BY DEF Init, NoFile
  <2>4. trace = NoFile /\ audit = NoFile /\ processes = 0 /\ foreign = 0 /\ faults = 0
        /\ total = 0 /\ rejected = 0 /\ stale = {} /\ broken = FALSE
        /\ order \in {<<"trace", "audit">>, <<"audit", "trace">>}
    BY DEF Init
  <2>5. todo \in Seq({"trace", "audit", "violation", "session_end"})
    BY <1>1
  <2>6. TypeOK
    BY ONLY <1>1, <2>1, <2>2, <2>3, <2>4, <2>5 DEF TypeOK, Stages
  <2>7. QED
    BY <1>1, <1>2, <1>3, <2>6 DEF Typed, Init
<1>5. TodoKept
  BY <1>1 DEF TodoKept
<1>6. JudgedBehind
  BY <1>1 DEF JudgedBehind, Init
<1>7. ~Awaits("trace") /\ ~Awaits("audit")
  BY <1>1 DEF Awaits
<1>8. WrittenBehind
  BY <1>1, <1>7 DEF WrittenBehind, Ascending, Below
<1>9. ChainBehind
  <2>1. TailHash(audit) = EmptyHash
    BY <1>1 DEF TailHash
  <2>2. HashesKnown
    BY <2>1, <1>3 DEF HashesKnown, Init
  <2>3. QED
    BY <2>2, <1>1 DEF ChainBehind, ChainExact, Init
<1>10. TraceBehind
  <2>1. AwaitedCost = 0 /\ AwaitedMark = 0
    BY <1>7 DEF AwaitedCost, AwaitedMark
  <2>2. TotalOf(<<>>) = 0 /\ RejectedOf(<<>>) = 0
    <3>1. {i \in DOMAIN <<>> : <<>>[i].cost = 1} = {} /\ {i \in DOMAIN <<>> : <<>>[i].marked} = {}
      OBVIOUS
    <3>2. QED
      BY <3>1, FS_EmptySet DEF TotalOf, RejectedOf
  <2>3. faults = 0
    BY DEF Init
  <2>4. QED
    BY <1>1, <2>1, <2>2, <2>3 DEF TraceBehind
<1>11. CarriedOver
  BY <1>1 DEF CarriedOver
<1>12. QED
  BY <1>4, <1>5, <1>6, <1>8, <1>9, <1>10, <1>11 DEF IInv

\* Where nothing was awaited and nothing has been written or recorded, all but the stage,
\* the totals and what the observers know stays as it is.
LEMMA FilesKept ==
  ASSUME IInv, UNCHANGED <<files, recorded>>,
         \/ (\A file \in {"trace", "audit"} : Awaits(file)' <=> Awaits(file)) /\ faults' = faults
         \/ (\A file \in {"trace", "audit"} : ~Awaits(file)') /\ faults' = faults + 1
  PROVE  WrittenBehind' /\ TraceBehind'
<1>1. TraceBehind'
  BY TraceKept DEF IInv, files
<1>2. WrittenBehind'
  BY DEF IInv, files, WrittenBehind, Ascending, Below
<1>3. QED
  BY <1>1, <1>2

LEMMA OpenStep == IInv /\ Open => IInv'
<1> SUFFICES ASSUME IInv, Open
             PROVE  IInv'
  OBVIOUS
<1>0. Typed /\ TypeOK
  BY DEF IInv, Typed
<1>1. UNCHANGED <<files, recorded, faults, todo, judged, broken>>
  BY DEF Open, Restored, files
<1>2. todo = <<>>
  BY <1>0 DEF Open, TypeOK
<1>3. \A file \in {"trace", "audit"} : Awaits(file)' <=> Awaits(file)
  BY <1>1 DEF Awaits
<1>4. WrittenBehind' /\ TraceBehind'
  BY <1>1, <1>3, FilesKept
<1>5. ChainBehind' /\ prevHash' \in [Observers -> Hashes]
  <2>1. "run" \in Observers
    BY DEF Observers
  <2>2. /\ prevHash' = [prevHash EXCEPT !["run"] = TailHash(audit)]
        /\ stale' = stale \ {"run"}
        /\ audit' = audit
        /\ broken' = broken
    BY DEF Open
  <2>3. QED
    BY <2>1, <2>2, ChainOpened DEF IInv
<1>6. pc' \in {"down", "ready"} /\ pc = "down"
  BY DEF Open
<1>7. total' \in Nat /\ rejected' \in Nat
  BY <1>0, CountsTyped DEF Open, TypeOK
<1>8. Typed'
  <2>1. processes' \in 0 .. MaxProcesses
    BY <1>0, RunAssumption DEF Open, TypeOK
  <2>2. DOMAIN prevHash' = Observers
    BY <1>5
  <2>3. stale' \subseteq Observers
    BY <1>0 DEF Open, TypeOK
  <2>4. TypeOK'
    BY <1>0, <1>1, <1>2, <1>6, <1>7, <2>1, <2>2, <2>3 DEF TypeOK, Open, Stages, files
  <2>5. QED
    BY <1>0, <1>1, <1>5, <2>4 DEF Typed, files
<1>9. TodoKept'
  BY <1>6 DEF TodoKept
<1>10. JudgedBehind'
  BY <1>1, <1>6 DEF IInv, JudgedBehind
<1>11. CarriedOver'
  <2>1. SUFFICES ASSUME pc' # "down"
                 PROVE  /\ total' <= TotalOf(recorded)
                        /\ TotalOf(recorded) <= total' + faults
                        /\ rejected' <= RejectedOf(recorded)
                        /\ RejectedOf(recorded) <= rejected' + faults
    BY <1>1 DEF CarriedOver
  <2>2. Readable(trace) /\ total' = TotalOf(trace.lines) /\ rejected' = RejectedOf(trace.lines)
    BY <1>6, <2>1 DEF Open
  <2>3. AwaitedCost = 0 /\ AwaitedMark = 0
    BY <1>2, NothingAwaited DEF AwaitedCost, AwaitedMark
  <2>4. QED
    BY <2>2, <2>3, <1>0, CountsTyped DEF IInv, TraceBehind
<1>12. QED
  BY <1>4, <1>5, <1>8, <1>9, <1>10, <1>11 DEF IInv

LEMMA EndStep == IInv /\ End => IInv'
<1> SUFFICES ASSUME IInv, End
             PROVE  IInv'
  OBVIOUS
<1>0. Typed /\ TypeOK /\ pc = "ready"
  BY DEF IInv, Typed, End
<1>1. UNCHANGED <<files, order, prevHash, processes, foreign, faults, recorded, judged, stale, broken>>
  BY DEF End, history
<1>2. todo = <<>>
  BY <1>0 DEF TypeOK
<1>3. \/ pc' = "ending" /\ todo' = <<"session_end">> /\ UNCHANGED <<total, rejected>>
      \/ pc' = "down" /\ total' = 0 /\ rejected' = 0 /\ todo' = <<>>
  BY <1>2 DEF End, Forget
<1>4. \A file \in {"trace", "audit"} : Awaits(file)' <=> Awaits(file)
  <2>1. \A file \in {"trace", "audit"} : ~Awaits(file)
    BY <1>2, ShortSequences DEF Awaits
  <2>2. \A file \in {"trace", "audit"} : ~Awaits(file)'
    BY <1>3, ShortSequences DEF Awaits
  <2>3. QED
    BY <2>1, <2>2
<1>5. WrittenBehind' /\ TraceBehind'
  BY <1>1, <1>4, FilesKept
<1>6. ChainBehind'
  BY <1>1, ChainKept DEF IInv, files
<1>7. Typed'
  <2>1. /\ todo' \in Seq({"trace", "audit", "violation", "session_end"})
        /\ todo' # <<>> <=> pc' \in {"telling", "violated", "ending"}
    BY <1>3, TodoTyped
  <2>4. total' \in Nat /\ rejected' \in Nat
    BY <1>0, <1>3 DEF TypeOK
  <2>2. TypeOK'
    BY <1>0, <1>1, <1>3, <2>1, <2>4 DEF TypeOK, Stages, files
  <2>3. QED
    BY <1>0, <1>1, <2>2 DEF Typed, files
<1>8. TodoKept'
  BY <1>3 DEF TodoKept
<1>9. JudgedBehind'
  BY <1>0, <1>1, <1>3 DEF IInv, JudgedBehind
<1>10. CarriedOver'
  BY <1>0, <1>1, <1>3 DEF IInv, CarriedOver
<1>11. QED
  BY <1>5, <1>6, <1>7, <1>8, <1>9, <1>10 DEF IInv

LEMMA JudgeStep == IInv /\ Judge => IInv'
<1> SUFFICES ASSUME IInv, Judge
             PROVE  IInv'
  OBVIOUS
<1>0. Typed /\ TypeOK /\ pc = "told" /\ Len(recorded) \in Nat /\ judged \in Nat /\ faults \in Nat
  BY LenProperties, CountsTyped DEF IInv, Typed, TypeOK, Judge
<1>1. UNCHANGED <<files, total, rejected, order, prevHash, processes, foreign, faults, recorded, stale, broken>>
  BY DEF Judge
<1>2. todo = <<>>
  BY <1>0 DEF TypeOK
<1>3. \/ pc' = "ready" /\ todo' = <<>>
      \/ pc' = "violated" /\ todo' = <<"violation">>
  BY <1>2 DEF Judge
<1>4. \A file \in {"trace", "audit"} : Awaits(file)' <=> Awaits(file)
  <2>1. \A file \in {"trace", "audit"} : ~Awaits(file)
    BY <1>2, ShortSequences DEF Awaits
  <2>2. \A file \in {"trace", "audit"} : ~Awaits(file)'
    BY <1>3, ShortSequences DEF Awaits
  <2>3. QED
    BY <2>1, <2>2
<1>5. WrittenBehind' /\ TraceBehind'
  BY <1>1, <1>4, FilesKept
<1>6. ChainBehind'
  BY <1>1, ChainKept DEF IInv, files
<1>7. judged' \in 0 .. Len(recorded) /\ JudgedBehind'
  <2>1. judged' = judged + 1 /\ judged < Len(recorded) /\ Len(recorded) <= judged + faults + 1
    BY <1>0 DEF IInv, JudgedBehind, Judge
  <2>2. judged' \in 0 .. Len(recorded) /\ Len(recorded) <= judged' + faults + 0
    BY ONLY <1>0, <2>1
  <2>3. QED
    BY <2>2, <1>1, <1>3 DEF JudgedBehind
<1>8. Typed'
  <2>1. /\ todo' \in Seq({"trace", "audit", "violation", "session_end"})
        /\ todo' # <<>> <=> pc' \in {"telling", "violated", "ending"}
    BY <1>0, <1>3, TodoTyped DEF TypeOK
  <2>2. TypeOK'
    BY <1>0, <1>1, <1>3, <1>7, <2>1 DEF TypeOK, Stages, files
  <2>3. QED
    BY <1>0, <1>1, <2>2 DEF Typed, files
<1>9. TodoKept'
  BY <1>3 DEF TodoKept
<1>10. CarriedOver'
  BY <1>0, <1>1, <1>3 DEF IInv, CarriedOver
<1>11. QED
  BY <1>5, <1>6, <1>7, <1>8, <1>9, <1>10 DEF IInv

LEMMA BeginStep == ASSUME IInv, NEW amount \in Amounts, Begin(amount) PROVE IInv'
<1> DEFINE n == Len(recorded)
           event == Sanitized(n + 1, amount)
<1>0. Typed /\ TypeOK /\ n \in Nat /\ recorded \in Seq(Events)
  BY LenProperties DEF IInv, Typed
<1>1. /\ pc = "ready" /\ pc' = "telling" /\ todo' = order
      /\ n < MaxEvents
      /\ recorded' = Append(recorded, event)
      /\ total' = total + event.cost
      /\ rejected' = rejected + (IF event.marked THEN 1 ELSE 0)
      /\ UNCHANGED <<files, order, prevHash, processes, foreign, faults, judged, stale, broken>>
  BY DEF Begin
<1>2. todo = <<>>
  BY <1>0, <1>1 DEF TypeOK
<1>3. /\ event \in Events
      /\ event.about = <<"event", n + 1>>
      /\ event.cost \in {0, 1} /\ event.marked \in BOOLEAN
  BY <1>0 DEF Sanitized, About, Events, Abouts, Kinds
<1> HIDE DEF event, n
<1>4. /\ recorded' \in Seq(Events)
      /\ Len(recorded') = n + 1
      /\ recorded' # <<>>
      /\ recorded'[n + 1] = event
      /\ \A i \in 1 .. n : recorded'[i] = recorded[i]
      /\ Last(recorded') = event
      /\ DOMAIN recorded = 1 .. n
      /\ DOMAIN recorded' = 1 .. n + 1
  <2>1. /\ Append(recorded, event) \in Seq(Events)
        /\ Len(Append(recorded, event)) = n + 1
        /\ Append(recorded, event) # <<>>
        /\ Append(recorded, event)[n + 1] = event
        /\ \A i \in 1 .. n : Append(recorded, event)[i] = recorded[i]
    BY <1>0, <1>3 DEF n
  <2>2. DOMAIN recorded = 1 .. n /\ DOMAIN Append(recorded, event) = 1 .. n + 1
    BY <2>1, <1>0, LenProperties DEF n
  <2>3. QED
    BY <2>1, <2>2, <1>1 DEF Last
<1>5. \A i \in 1 .. Len(recorded') : recorded'[i].about = <<"event", i>>
  <2>1. \A i \in 1 .. n + 1 : i = n + 1 \/ i \in 1 .. n
    BY <1>0
  <2>2. QED
    BY <2>1, <1>0, <1>3, <1>4 DEF Typed, n
<1>6. order \in {<<"trace", "audit">>, <<"audit", "trace">>}
  BY <1>0 DEF TypeOK
<1>7. Awaits("trace")' /\ ~Awaits("trace")
  <2>1. Awaits("trace")'
    BY <1>1, <1>6, ShortSequences DEF Awaits
  <2>2. QED
    BY <2>1, <1>2, NothingAwaited
<1>8. judged \in Nat /\ judged <= n /\ faults \in Nat
  BY <1>0, CountsTyped DEF TypeOK, n
<1>9. Typed'
  <2>1. /\ todo' \in Seq({"trace", "audit", "violation", "session_end"})
        /\ todo' # <<>>
    BY <1>1, <1>6, TodoTyped
  <2>2. judged' \in 0 .. Len(recorded') /\ Len(recorded') <= MaxEvents
    <3>1. MaxEvents \in Nat
      BY RunAssumption
    <3>2. judged \in 0 .. n + 1 /\ n + 1 <= MaxEvents
      BY ONLY <3>1, <1>0, <1>1, <1>8
    <3>3. QED
      BY <3>2, <1>1, <1>4
  <2>3. total' \in Nat /\ rejected' \in Nat
    BY <1>0, <1>1, <1>3 DEF TypeOK
  <2>4. TypeOK'
    BY <1>0, <1>1, <2>1, <2>2, <2>3 DEF TypeOK, Stages, files
  <2>5. QED
    BY <1>0, <1>1, <1>4, <1>5, <2>4 DEF Typed, files
<1>10. TodoKept'
  BY <1>1, <1>4, <1>6 DEF TodoKept
<1>11. JudgedBehind'
  <2>1. n <= judged + faults + 0
    BY <1>1 DEF IInv, JudgedBehind, n
  <2>2. judged < n + 1 /\ n + 1 <= judged + faults + 1
    BY ONLY <2>1, <1>0, <1>8
  <2>3. QED
    BY <2>2, <1>1, <1>4 DEF JudgedBehind
<1>12. WrittenBehind'
  <2>1. Ascending(trace) /\ Below(trace, n + 1) /\ Ascending(audit) /\ Below(audit, n + 1)
    BY DEF IInv, WrittenBehind, n
  <2>2. Typed => \A file \in {trace, audit} : \A i \in 1 .. Len(file.lines) :
          file.lines[i].about[1] = "event" => file.lines[i].about[2] \in Nat
    <3>1. ASSUME Typed, NEW file \in {trace, audit}, NEW i \in 1 .. Len(file.lines)
          PROVE  file.lines[i].about[1] = "event" => file.lines[i].about[2] \in Nat
      <4>1. file.lines[i] \in Events \cup Records \cup {Garbled}
        BY <3>1, ElementOfSeq DEF Typed, Files
      <4>2. QED
        BY <4>1, GarbledIsNoLine, AboutsTyped DEF Abouts
    <3>2. QED
      BY <3>1
  <2>3. Below(trace, n + 1 + 1) /\ Below(audit, n + 1 + 1)
    BY <2>1, <2>2, <1>0 DEF Below
  <2>4. trace' = trace /\ audit' = audit /\ Len(recorded') = n + 1
    BY <1>1, <1>4 DEF files
  <2>5. Ascending(trace') /\ Below(trace', n + 1 + 1) /\ Ascending(audit') /\ Below(audit', n + 1 + 1)
    BY <2>1, <2>3, <2>4
  <2>6. Below(trace', n + 1) /\ Below(audit', n + 1)
    BY <2>1, <2>4
  <2>7. QED
    BY <2>4, <2>5, <2>6 DEF WrittenBehind, Ascending, Below
<1>13. ChainBehind'
  BY <1>1, ChainKept DEF IInv, files
<1>14. /\ TotalOf(recorded') = TotalOf(recorded) + (IF event.cost = 1 THEN 1 ELSE 0)
       /\ RejectedOf(recorded') = RejectedOf(recorded) + (IF event.marked THEN 1 ELSE 0)
  BY <1>0, <1>4, CountsOneMore
<1>15. TraceBehind'
  <2>1. SUFFICES ASSUME Readable(trace)
                 PROVE  /\ TotalOf(trace.lines) + AwaitedCost' <= TotalOf(recorded')
                        /\ TotalOf(recorded') <= TotalOf(trace.lines) + AwaitedCost' + faults
                        /\ RejectedOf(trace.lines) + AwaitedMark' <= RejectedOf(recorded')
                        /\ RejectedOf(recorded') <= RejectedOf(trace.lines) + AwaitedMark' + faults
    BY <1>1 DEF TraceBehind, files
  <2>2. AwaitedCost = 0 /\ AwaitedMark = 0
    BY <1>7 DEF AwaitedCost, AwaitedMark
  <2>3. /\ AwaitedCost' = IF event.cost = 1 THEN 1 ELSE 0
        /\ AwaitedMark' = IF event.marked THEN 1 ELSE 0
    BY <1>4, <1>7 DEF AwaitedCost, AwaitedMark
  <2>4. /\ TotalOf(trace.lines) <= TotalOf(recorded)
        /\ TotalOf(recorded) <= TotalOf(trace.lines) + faults
        /\ RejectedOf(trace.lines) <= RejectedOf(recorded)
        /\ RejectedOf(recorded) <= RejectedOf(trace.lines) + faults
    BY <2>1, <2>2, <1>0, CountsTyped DEF IInv, TraceBehind
  <2>5. /\ TotalOf(trace.lines) \in Nat /\ RejectedOf(trace.lines) \in Nat
        /\ TotalOf(recorded) \in Nat /\ RejectedOf(recorded) \in Nat
    BY <1>0, CountsTyped
  <2>6. QED
    BY <2>3, <2>4, <2>5, <1>8, <1>14
<1>16. CarriedOver'
  <2>1. /\ total <= TotalOf(recorded) /\ TotalOf(recorded) <= total + faults
        /\ rejected <= RejectedOf(recorded) /\ RejectedOf(recorded) <= rejected + faults
    BY <1>1 DEF IInv, CarriedOver
  <2>2. event.cost = IF event.cost = 1 THEN 1 ELSE 0
    BY <1>3
  <2>3. total \in Nat /\ rejected \in Nat /\ TotalOf(recorded) \in Nat /\ RejectedOf(recorded) \in Nat
    BY <1>0, CountsTyped DEF TypeOK
  <2>4. total' <= TotalOf(recorded') /\ TotalOf(recorded') <= total' + faults
    <3> DEFINE m == event.cost
    <3>1. m \in {0, 1} /\ total' = total + m /\ TotalOf(recorded') = TotalOf(recorded) + m
      BY <2>2, <1>1, <1>3, <1>14
    <3> HIDE DEF m
    <3>2. /\ total + m <= TotalOf(recorded) + m
          /\ TotalOf(recorded) + m <= total + m + faults
      BY <3>1, <2>1, <2>3, <1>8
    <3>3. QED
      BY <3>1, <3>2
  <2>5. rejected' <= RejectedOf(recorded') /\ RejectedOf(recorded') <= rejected' + faults
    <3> DEFINE m == IF event.marked THEN 1 ELSE 0
    <3>1. m \in {0, 1} /\ rejected' = rejected + m /\ RejectedOf(recorded') = RejectedOf(recorded) + m
      BY <1>1, <1>14
    <3> HIDE DEF m
    <3>2. /\ rejected + m <= RejectedOf(recorded) + m
          /\ RejectedOf(recorded) + m <= rejected + m + faults
      BY <3>1, <2>1, <2>3, <1>8
    <3>3. QED
      BY <3>1, <3>2
  <2>6. QED
    BY <2>4, <2>5, <1>1 DEF CarriedOver
<1>17. QED
  BY <1>9, <1>10, <1>11, <1>12, <1>13, <1>15, <1>16 DEF IInv

LEMMA WrittenDiffers ==
  ASSUME NEW S, NEW file \in Files(S), file.cut => file.lines # <<>>, NEW line \in S
  PROVE  Written(file, line) # file
<1>1. /\ Written(file, line) \in Files(S)
      /\ ~Written(file, line).cut
      /\ Grown(file, Written(file, line), line)
  BY WrittenGrown
<1>2. Len(file.lines) \in Nat
  BY LenProperties DEF Files
<1>3. QED
  BY <1>1, <1>2 DEF Grown

LEMMA TraceOrdered ==
  ASSUME Typed, WrittenBehind, Awaits("trace"), recorded # <<>>,
         trace' \in Files(Events), Grown(trace, trace', Last(recorded))
  PROVE  Ascending(trace') /\ Below(trace', Len(recorded) + 1)
<1>1. /\ trace \in Files(Events)
      /\ Len(recorded) \in Nat
      /\ Last(recorded) \in Events
      /\ Last(recorded).about = <<"event", Len(recorded)>>
  BY LastRecorded DEF Typed
<1>2. Ascending(trace) /\ Below(trace, Len(recorded) + 1) /\ Below(trace, Len(recorded))
  BY DEF WrittenBehind
<1>3. TRUE \in BOOLEAN /\ FALSE \in BOOLEAN /\ (FALSE => TRUE)
  OBVIOUS
<1>4. Last(recorded).about[1] = "event" => TRUE /\ ~FALSE /\ Last(recorded).about[2] = Len(recorded)
  BY <1>1
<1>5. QED
  BY <1>1, <1>2, <1>3, <1>4, AboutsTyped, FileOrdered

LEMMA AuditOrdered ==
  ASSUME Typed, WrittenBehind, NEW prev \in Hashes, NEW about \in Abouts,
         audit' \in Files(Records), Grown(audit, audit', Record(prev, about)),
         Awaits("audit")' => Awaits("audit"),
         about[1] = "event" =>
           Awaits("audit") /\ ~Awaits("audit")' /\ about[2] = Len(recorded)
  PROVE  /\ Ascending(audit') /\ Below(audit', Len(recorded) + 1)
         /\ Awaits("audit")' => Below(audit', Len(recorded))
<1> DEFINE n == Len(recorded)
           line == Record(prev, about)
<1>1. audit \in Files(Records) /\ n \in Nat
  BY LenProperties DEF Typed
<1>2. line \in Records /\ line.about = about
  BY RecordTyped
<1>3. Ascending(audit) /\ Below(audit, n + 1) /\ (Awaits("audit") => Below(audit, n))
  BY DEF WrittenBehind
<1>4. \A l \in Records : l.about \in Abouts
  BY AboutsTyped
<1>5. about[1] = "event" => about[2] = n
  OBVIOUS
<1> HIDE DEF n, line
<1>6. Grown(audit, audit', line)
  BY DEF line
<1>7. CASE Awaits("audit") /\ ~Awaits("audit")'
  <2>1. Ascending(audit') /\ Below(audit', n + 1)
    <3>1. TRUE \in BOOLEAN /\ FALSE \in BOOLEAN /\ (TRUE => Below(audit, n))
      BY <1>3, <1>7
    <3>2. QED
      BY <3>1, <1>1, <1>2, <1>3, <1>4, <1>5, <1>6, FileOrdered
  <2>2. QED
    BY <2>1, <1>7 DEF n
<1>8. CASE Awaits("audit")'
  <2>1. about[1] # "event" /\ Below(audit, n)
    BY <1>3, <1>8
  <2>2. Ascending(audit') /\ Below(audit', n + 1) /\ Below(audit', n)
    BY <2>1, <1>1, <1>2, <1>3, <1>4, <1>6, FileOrdered
  <2>3. QED
    BY <2>2 DEF n
<1>9. CASE ~Awaits("audit")
  <2>1. about[1] # "event" /\ ~Awaits("audit")'
    BY <1>9
  <2>2. Ascending(audit') /\ Below(audit', n + 1)
    BY <2>1, <1>1, <1>2, <1>3, <1>4, <1>6, FileOrdered
  <2>3. QED
    BY <2>1, <2>2 DEF n
<1>10. QED
  BY <1>7, <1>8, <1>9

\* Where record_event or _end stands after a write.
LEMMA WriteStage ==
  ASSUME Typed, TodoKept, Write
  PROVE  /\ pc # "down"
         /\ pc' \in {"telling", "told", "ready", "down"}
         /\ pc' = "telling" => todo' \in {<<"trace">>, <<"audit">>}
         /\ pc' # "telling" => todo' = <<>>
         /\ pc' \in {"telling", "told"} <=> pc = "telling"
         /\ \A file \in {"trace", "audit"} : Awaits(file)' <=> Awaits(file) /\ Head(todo) # file
         /\ IF pc' = "down" THEN total' = 0 /\ rejected' = 0 ELSE UNCHANGED <<total, rejected>>
<1>1. /\ todo # <<>>
      /\ todo' = Tail(todo)
      /\ pc' = IF Tail(todo) = <<>> THEN After(pc) ELSE pc
      /\ Forget(pc' = "down")
  BY DEF Write
<1>2. /\ pc \in {"telling", "violated", "ending"}
      /\ pc = "telling" => Tail(todo) \in {<<>>, <<"trace">>, <<"audit">>}
      /\ pc # "telling" => Tail(todo) = <<>>
      /\ \A file \in {"trace", "audit"} :
           (\E i \in 1 .. Len(Tail(todo)) : Tail(todo)[i] = file) <=> Awaits(file) /\ Head(todo) # file
  BY <1>1, AtHand
<1>3. \A file \in {"trace", "audit"} : Awaits(file)' <=> Awaits(file) /\ Head(todo) # file
  BY <1>1, <1>2 DEF Awaits
<1>4. /\ After("telling") = "told" /\ After("violated") = "ready" /\ After("ending") = "down"
      /\ <<"trace">> # <<>> /\ <<"audit">> # <<>>
  BY TodoTyped DEF After
<1>5. CASE pc = "telling"
  BY <1>1, <1>2, <1>3, <1>4, <1>5 DEF Forget
<1>6. CASE pc \in {"violated", "ending"}
  BY <1>1, <1>2, <1>3, <1>4, <1>6 DEF Forget
<1>7. QED
  BY <1>2, <1>5, <1>6

\* What TypeOK says of the files.
Shaped == \A file \in {trace, audit} : file.cut => file.lines # <<>>

LEMMA TypedAfter ==
  ASSUME Typed, trace' \in Files(Events), audit' \in Files(Records), Shaped',
         prevHash' \in [Observers -> Hashes], UNCHANGED <<order, recorded, judged>>,
         pc' \in Stages,
         todo' \in {<<>>, <<"trace">>, <<"audit">>},
         todo' # <<>> <=> pc' \in {"telling", "violated", "ending"},
         total' \in Nat, rejected' \in Nat,
         processes' \in 0 .. MaxProcesses, foreign' \in 0 .. MaxForeign, faults' \in 0 .. MaxFaults,
         stale' \subseteq Observers, broken' \in BOOLEAN
  PROVE  Typed'
<1>1. todo' \in Seq({"trace", "audit", "violation", "session_end"})
  BY TodoTyped
<1>2. \A file \in {trace', audit'} : DOMAIN file = {"lines", "cut"} /\ file.cut \in BOOLEAN
  BY DEF Files
<1>3. DOMAIN prevHash' = Observers
  OBVIOUS
<1>4. TypeOK'
  BY <1>1, <1>2, <1>3 DEF Typed, TypeOK, Shaped
<1>5. QED
  BY <1>4 DEF Typed

LEMMA NotedTyped ==
  ASSUME Typed, NEW o \in Observers, NoteAudit(o)
  PROVE  stale' \subseteq Observers /\ broken' \in BOOLEAN
BY DEF NoteAudit, Typed, TypeOK

LEMMA WriteStep == IInv /\ Write => IInv'
<1> SUFFICES ASSUME IInv, Write
             PROVE  IInv'
  OBVIOUS
<1>0. /\ Typed /\ TypeOK /\ TodoKept /\ WrittenBehind /\ ChainBehind /\ TraceBehind
      /\ todo # <<>>
      /\ prevHash \in [Observers -> Hashes] /\ prevHash.run \in Hashes
      /\ Shaped
  BY DEF IInv, Typed, TypeOK, Write, Observers, Shaped
<1> DEFINE line == Line(Head(todo))
<1>1. UNCHANGED <<order, processes, foreign, faults, recorded, judged>>
  BY DEF Write
<1>2. /\ pc # "down"
      /\ pc' \in {"telling", "told", "ready", "down"}
      /\ pc' = "telling" => todo' \in {<<"trace">>, <<"audit">>}
      /\ pc' # "telling" => todo' = <<>>
      /\ pc' \in {"telling", "told"} <=> pc = "telling"
      /\ \A file \in {"trace", "audit"} : Awaits(file)' <=> Awaits(file) /\ Head(todo) # file
      /\ IF pc' = "down" THEN total' = 0 /\ rejected' = 0 ELSE UNCHANGED <<total, rejected>>
  BY <1>0, WriteStage
<1>3. /\ trace' \in Files(Events) /\ audit' \in Files(Records) /\ Shaped'
      /\ prevHash' \in [Observers -> Hashes]
      /\ stale' \subseteq Observers /\ broken' \in BOOLEAN
      /\ WrittenBehind' /\ ChainBehind' /\ TraceBehind'
  <2>1. CASE Head(todo) = "trace"
    <3>1. trace' = Written(trace, line) /\ UNCHANGED <<audit, prevHash, stale, broken>>
      BY <2>1 DEF Write
    <3>2. pc = "telling" /\ recorded # <<>> /\ Awaits("trace") /\ ~Awaits("trace")'
      BY <2>1, <1>0, <1>2, AtHand DEF TodoKept
    <3>3. line = Last(recorded) /\ line \in Events
      BY <2>1, <1>0, LineAtHand
    <3>4. trace \in Files(Events) /\ audit \in Files(Records) /\ (trace.cut => trace.lines # <<>>)
      BY <1>0 DEF Typed, Shaped
    <3> HIDE DEF line
    <3>5. trace' \in Files(Events) /\ ~trace'.cut /\ Grown(trace, trace', line)
      BY <3>1, <3>3, <3>4, WrittenGrown
    <3>6. Ascending(trace') /\ Below(trace', Len(recorded) + 1)
      BY <3>2, <3>3, <3>5, <1>0, TraceOrdered
    <3>7. WrittenBehind'
      BY <3>1, <3>2, <3>6, <1>0, <1>1, <1>2 DEF WrittenBehind, Ascending, Below
    <3>8. TraceBehind'
      BY <3>2, <3>3, <3>5, <1>0, <1>1, TraceWritten
    <3>9. ChainBehind'
      BY <3>1, <1>0, ChainKept
    <3>10. QED
      BY <3>1, <3>4, <3>5, <3>7, <3>8, <3>9, <1>0 DEF Shaped, TypeOK
  <2>2. CASE Head(todo) # "trace"
    <3>1. /\ audit' = Written(audit, line) /\ UNCHANGED trace
          /\ prevHash' = [prevHash EXCEPT !.run = line.hash]
          /\ NoteAudit("run")
      BY <2>2 DEF Write, PrevHashAfter
    <3>2. PICK about \in Abouts :
            /\ line = Record(prevHash.run, about)
            /\ Head(todo) = "audit" => about = <<"event", Len(recorded)>>
            /\ Head(todo) # "audit" => about[1] # "event"
      BY <2>2, <1>0, LineAtHand
    <3>3. line \in Records /\ line.hash \in Hashes
      BY <3>2, <1>0, RecordTyped
    <3>4. trace \in Files(Events) /\ audit \in Files(Records) /\ (audit.cut => audit.lines # <<>>)
      BY <1>0 DEF Typed, Shaped
    <3> HIDE DEF line
    <3>5. audit' \in Files(Records) /\ ~audit'.cut /\ Grown(audit, audit', line) /\ audit' # audit
      BY <3>1, <3>3, <3>4, WrittenGrown, WrittenDiffers
    <3>6. Awaits("trace")' <=> Awaits("trace")
      BY <2>2, <1>2
    <3>7. Head(todo) = "audit" => Awaits("audit") /\ ~Awaits("audit")'
      BY <1>0, <1>2, AtHand
    <3>8. /\ Ascending(audit') /\ Below(audit', Len(recorded) + 1)
          /\ Awaits("audit")' => Below(audit', Len(recorded))
      <4>1. Awaits("audit")' => Awaits("audit")
        BY <1>2
      <4>2. about[1] = "event" => Awaits("audit") /\ ~Awaits("audit")' /\ about[2] = Len(recorded)
        BY <3>2, <3>7
      <4>3. QED
        BY <3>2, <3>5, <4>1, <4>2, <1>0, AuditOrdered
    <3>9. WrittenBehind'
      BY <3>1, <3>6, <3>8, <1>0, <1>1 DEF WrittenBehind, Ascending, Below
    <3>10. TraceBehind'
      BY <3>1, <3>6, <1>0, <1>1, TraceKept
    <3>11. "run" \in Observers
      BY DEF Observers
    <3>12. ChainBehind'
      BY <3>1, <3>2, <3>5, <3>11, <1>0, ChainWritten
    <3>13. stale' \subseteq Observers /\ broken' \in BOOLEAN
      BY <3>1, <3>11, <1>0, NotedTyped
    <3>14. prevHash' \in [Observers -> Hashes]
      BY <3>1, <3>3, <1>0
    <3>15. QED
      BY <3>1, <3>4, <3>5, <3>9, <3>10, <3>12, <3>13, <3>14, <1>0 DEF Shaped
  <2>3. QED
    BY <2>1, <2>2
<1>4. Typed'
  <2>1. /\ pc' \in Stages /\ todo' \in {<<>>, <<"trace">>, <<"audit">>}
        /\ todo' # <<>> <=> pc' \in {"telling", "violated", "ending"}
    BY <1>2, TodoTyped DEF Stages
  <2>2. total' \in Nat /\ rejected' \in Nat
    BY <1>0, <1>2 DEF TypeOK
  <2>3. /\ processes' \in 0 .. MaxProcesses /\ foreign' \in 0 .. MaxForeign
        /\ faults' \in 0 .. MaxFaults
    BY <1>0, <1>1 DEF TypeOK
  <2>4. QED
    BY <2>1, <2>2, <2>3, <1>0, <1>1, <1>3, TypedAfter
<1>5. TodoKept'
  <2>1. pc = "telling" => recorded # <<>>
    BY <1>0 DEF TodoKept
  <2>2. QED
    BY <2>1, <1>1, <1>2 DEF TodoKept
<1>6. JudgedBehind'
  <2>1. pc \in {"telling", "told"} <=> pc = "telling"
    BY <1>0 DEF TypeOK
  <2>2. QED
    BY <2>1, <1>1, <1>2 DEF IInv, JudgedBehind
<1>7. CarriedOver'
  BY <1>1, <1>2 DEF IInv, CarriedOver
<1>8. QED
  BY <1>3, <1>4, <1>5, <1>6, <1>7 DEF IInv

\* A write that stops half-way leaves everything but the event in hand in place.
LEMMA BreakKeeps ==
  ASSUME IInv, todo # <<>>, Break, todo' = <<>>, faults' = faults + 1,
         UNCHANGED <<prevHash, recorded>>
  PROVE  /\ trace' \in Files(Events) /\ audit' \in Files(Records) /\ Shaped'
         /\ stale' \subseteq Observers /\ broken' \in BOOLEAN
         /\ WrittenBehind' /\ ChainBehind' /\ TraceBehind'
<1>0. /\ Typed /\ TypeOK /\ TodoKept /\ WrittenBehind /\ ChainBehind /\ TraceBehind
      /\ prevHash \in [Observers -> Hashes] /\ prevHash.run \in Hashes
      /\ Shaped
      /\ trace \in Files(Events) /\ audit \in Files(Records)
      /\ (trace.cut => trace.lines # <<>>) /\ (audit.cut => audit.lines # <<>>)
  BY DEF IInv, Typed, TypeOK, Observers, Shaped
<1>1. ~Awaits("trace")' /\ ~Awaits("audit")'
  BY ShortSequences DEF Awaits
<1> DEFINE line == Line(Head(todo))
<1>2. CASE Head(todo) = "trace"
  <2>1. trace' \in Torn(trace, line) /\ UNCHANGED <<audit, stale, broken>>
    BY <1>2 DEF Break
  <2>2. recorded # <<>> /\ Awaits("trace")
    BY <1>0, <1>2, AtHand DEF TodoKept
  <2>3. line = Last(recorded) /\ line \in Events
    BY <1>0, <1>2, LineAtHand
  <2> HIDE DEF line
  <2>4. trace' \in Files(Events) /\ (trace' = trace \/ (trace'.cut /\ Grown(trace, trace', line)))
    BY <2>1, <2>3, <1>0, TornGrown
  <2>5. ChainBehind'
    BY <2>1, <1>0, ChainKept
  <2>6. Shaped' /\ stale' \subseteq Observers /\ broken' \in BOOLEAN
    BY <2>1, <2>4, <1>0 DEF Shaped, TypeOK, Grown
  <2>7. Ascending(trace') /\ Below(trace', Len(recorded) + 1)
    BY <2>2, <2>3, <2>4, <1>0, TraceOrdered DEF WrittenBehind
  <2>8. WrittenBehind'
    BY <2>1, <2>7, <1>0, <1>1 DEF WrittenBehind, Ascending, Below
  <2>9. TraceBehind'
    <3>1. CASE trace' = trace
      BY <3>1, <1>0, <1>1, TraceKept
    <3>2. CASE Grown(trace, trace', line)
      BY <3>2, <2>2, <2>3, <2>4, <1>0, <1>1, TraceWritten
    <3>3. QED
      BY <2>4, <3>1, <3>2
  <2>10. QED
    BY <2>1, <2>4, <2>5, <2>6, <2>8, <2>9, <1>0
<1>3. CASE Head(todo) # "trace"
  <2>1. audit' \in Torn(audit, line) /\ NoteAudit("run") /\ UNCHANGED trace
    BY <1>3 DEF Break
  <2>2. PICK about \in Abouts :
          /\ line = Record(prevHash.run, about)
          /\ Head(todo) = "audit" => about = <<"event", Len(recorded)>>
          /\ Head(todo) # "audit" => about[1] # "event"
    BY <1>0, <1>3, LineAtHand
  <2>3. line \in Records
    BY <2>2, <1>0, RecordTyped
  <2> HIDE DEF line
  <2>4. audit' \in Files(Records) /\ (audit' = audit \/ (audit'.cut /\ Grown(audit, audit', line)))
    BY <2>1, <2>3, <1>0, TornGrown
  <2>5. "run" \in Observers
    BY DEF Observers
  <2>6. stale' \subseteq Observers /\ broken' \in BOOLEAN
    BY <2>1, <2>5, <1>0, NotedTyped
  <2>7. Shaped'
    BY <2>1, <2>4, <1>0 DEF Shaped, Grown
  <2>8. TraceBehind'
    BY <2>1, <1>0, <1>1, TraceKept
  <2>9. ChainBehind'
    <3>1. CASE audit' = audit
      <4>1. UNCHANGED <<audit, prevHash, stale>> /\ broken' = broken
        BY <2>1, <3>1, <1>0 DEF NoteAudit, TypeOK
      <4>2. QED
        BY <4>1, <1>0, ChainKept
    <3>2. CASE audit' # audit
      BY <3>2, <2>1, <2>2, <2>4, <2>5, <1>0, ChainWritten
    <3>3. QED
      BY <3>1, <3>2
  <2>10. Ascending(audit') /\ Below(audit', Len(recorded) + 1)
    <3>1. CASE audit' = audit
      BY <3>1, <1>0 DEF WrittenBehind
    <3>2. CASE Grown(audit, audit', line)
      <4>1. about[1] = "event" => Awaits("audit") /\ ~Awaits("audit")' /\ about[2] = Len(recorded)
        BY <2>2, <1>0, <1>1, AtHand
      <4>2. Awaits("audit")' => Awaits("audit")
        BY <1>1
      <4>3. QED
        BY <3>2, <2>2, <2>4, <4>1, <4>2, <1>0, AuditOrdered
    <3>3. QED
      BY <2>4, <3>1, <3>2
  <2>11. WrittenBehind'
    BY <2>1, <2>10, <1>0, <1>1 DEF WrittenBehind, Ascending, Below
  <2>12. QED
    BY <2>1, <2>4, <2>6, <2>7, <2>8, <2>9, <2>11, <1>0
<1>4. QED
  BY <1>2, <1>3

\* What Fail and Crash have in common: a fault ends what was going on.
LEMMA FaultStep ==
  ASSUME IInv, pc # "down", faults < MaxFaults, faults' = faults + 1,
         IF todo # <<>> THEN Break ELSE UNCHANGED <<files, stale, broken>>,
         todo' = <<>>, pc' \in {"down", "ready"}, Forget(pc' = "down"),
         UNCHANGED <<order, prevHash, processes, foreign, recorded, judged>>
  PROVE  IInv'
<1>0. /\ Typed /\ TypeOK
      /\ prevHash \in [Observers -> Hashes] /\ Shaped
      /\ trace \in Files(Events) /\ audit \in Files(Records)
      /\ Len(recorded) \in Nat /\ judged \in Nat /\ faults \in Nat
  BY LenProperties, CountsTyped DEF IInv, Typed, TypeOK, Shaped
<1>1. /\ trace' \in Files(Events) /\ audit' \in Files(Records) /\ Shaped'
      /\ stale' \subseteq Observers /\ broken' \in BOOLEAN
      /\ WrittenBehind' /\ ChainBehind' /\ TraceBehind'
  <2>1. CASE todo # <<>>
    BY <2>1, BreakKeeps
  <2>2. CASE todo = <<>>
    <3>1. UNCHANGED <<files, stale, broken>>
      BY <2>2
    <3>2. \A file \in {"trace", "audit"} : ~Awaits(file)'
      BY ShortSequences DEF Awaits
    <3>3. WrittenBehind' /\ TraceBehind'
      BY <3>1, <3>2, FilesKept
    <3>4. ChainBehind'
      BY <3>1, ChainKept DEF IInv, files
    <3>5. QED
      BY <3>1, <3>3, <3>4, <1>0 DEF files, Shaped, TypeOK
  <2>3. QED
    BY <2>1, <2>2
<1>2. Typed'
  <2>1. /\ pc' \in Stages /\ todo' \in {<<>>, <<"trace">>, <<"audit">>}
        /\ todo' # <<>> <=> pc' \in {"telling", "violated", "ending"}
    BY DEF Stages
  <2>2. total' \in Nat /\ rejected' \in Nat
    BY <1>0 DEF TypeOK, Forget
  <2>3. faults' \in 0 .. MaxFaults
    BY <1>0, RunAssumption
  <2>4. processes' \in 0 .. MaxProcesses /\ foreign' \in 0 .. MaxForeign
    BY <1>0 DEF TypeOK
  <2>5. QED
    BY <2>1, <2>2, <2>3, <2>4, <1>0, <1>1, TypedAfter
<1>3. TodoKept'
  BY DEF TodoKept
<1>4. JudgedBehind'
  <2>1. Len(recorded) <= judged + faults + 1
    <3>1. Len(recorded) <= judged + faults + (IF pc \in {"telling", "told"} THEN 1 ELSE 0)
      BY DEF IInv, JudgedBehind
    <3>2. QED
      BY <3>1, <1>0
  <2>2. Len(recorded) <= judged + (faults + 1) + 0
    BY ONLY <2>1, <1>0
  <2>3. QED
    BY <2>2 DEF JudgedBehind
<1>5. CarriedOver'
  <2>1. CASE pc' = "down"
    BY <2>1 DEF CarriedOver
  <2>2. CASE pc' # "down"
    <3>1. /\ total <= TotalOf(recorded) /\ TotalOf(recorded) <= total + faults
          /\ rejected <= RejectedOf(recorded) /\ RejectedOf(recorded) <= rejected + faults
      BY DEF IInv, CarriedOver
    <3>2. /\ total \in Nat /\ rejected \in Nat
          /\ TotalOf(recorded) \in Nat /\ RejectedOf(recorded) \in Nat
      BY <1>0, CountsTyped DEF TypeOK
    <3>3. TotalOf(recorded) <= total + (faults + 1) /\ RejectedOf(recorded) <= rejected + (faults + 1)
      BY ONLY <3>1, <3>2, <1>0
    <3>4. UNCHANGED <<total, rejected>>
      BY <2>2 DEF Forget
    <3>5. QED
      BY <3>1, <3>3, <3>4 DEF CarriedOver
  <2>3. QED
    BY <2>1, <2>2
<1>6. QED
  BY <1>1, <1>2, <1>3, <1>4, <1>5 DEF IInv

LEMMA FailStep == IInv /\ Fail => IInv'
<1> SUFFICES ASSUME IInv, Fail
             PROVE  IInv'
  OBVIOUS
<1>1. /\ todo # <<>> /\ faults < MaxFaults /\ faults' = faults + 1 /\ Break /\ todo' = <<>>
      /\ pc' = IF pc = "ending" THEN "down" ELSE "ready"
      /\ Forget(pc = "ending")
      /\ UNCHANGED <<order, prevHash, processes, foreign, recorded, judged>>
  BY DEF Fail
<1>2. pc # "down"
  BY <1>1, AtHand DEF IInv
<1>3. Forget(pc' = "down")
  BY <1>1 DEF Forget
<1>4. QED
  BY <1>1, <1>2, <1>3, FaultStep

LEMMA CrashStep == IInv /\ Crash => IInv'
<1> SUFFICES ASSUME IInv, Crash
             PROVE  IInv'
  OBVIOUS
<1>1. Forget(pc' = "down")
  BY DEF Crash, Forget
<1>2. QED
  BY <1>1, FaultStep DEF Crash

LEMMA ForeignOpenStep == IInv /\ ForeignOpen => IInv'
<1> SUFFICES ASSUME IInv, ForeignOpen
             PROVE  IInv'
  OBVIOUS
<1>0. Typed /\ TypeOK
  BY DEF IInv, Typed
<1>1. UNCHANGED <<files, memory, order, processes, foreign, faults, recorded, judged, broken>>
  BY DEF ForeignOpen
<1>2. \A file \in {"trace", "audit"} : Awaits(file)' <=> Awaits(file)
  BY <1>1 DEF Awaits, memory
<1>3. WrittenBehind' /\ TraceBehind'
  BY <1>1, <1>2, FilesKept
<1>4. ChainBehind' /\ prevHash' \in [Observers -> Hashes]
  <2>1. "neighbour" \in Observers
    BY DEF Observers
  <2>2. /\ prevHash' = [prevHash EXCEPT !["neighbour"] = TailHash(audit)]
        /\ stale' = stale \ {"neighbour"}
        /\ audit' = audit
        /\ broken' = broken
    BY DEF ForeignOpen, files
  <2>3. QED
    BY <2>1, <2>2, ChainOpened DEF IInv
<1>5. Typed'
  <2>1. stale' \subseteq Observers /\ DOMAIN prevHash' = Observers
    BY <1>0, <1>4 DEF ForeignOpen, TypeOK
  <2>2. TypeOK'
    BY <1>0, <1>1, <2>1 DEF TypeOK, files, memory
  <2>3. QED
    BY <1>0, <1>1, <1>4, <2>2 DEF Typed, files
<1>6. TodoKept' /\ JudgedBehind' /\ CarriedOver'
  BY <1>1 DEF IInv, TodoKept, JudgedBehind, CarriedOver, memory
<1>7. QED
  BY <1>3, <1>4, <1>5, <1>6 DEF IInv

LEMMA ForeignWriteStep == IInv /\ ForeignWrite => IInv'
<1> SUFFICES ASSUME IInv, ForeignWrite
             PROVE  IInv'
  OBVIOUS
<1> DEFINE about == <<"other", 0>>
           line == Record(prevHash["neighbour"], about)
<1>0. /\ Typed /\ TypeOK /\ WrittenBehind /\ ChainBehind /\ TraceBehind
      /\ "neighbour" \in Observers
      /\ prevHash \in [Observers -> Hashes] /\ prevHash["neighbour"] \in Hashes
      /\ audit \in Files(Records) /\ (audit.cut => audit.lines # <<>>)
      /\ about \in Abouts /\ about[1] # "event"
  BY DEF IInv, Typed, TypeOK, Observers, Abouts, Kinds
<1>1. /\ audit' = Written(audit, line)
      /\ prevHash' = [prevHash EXCEPT !["neighbour"] = line.hash]
      /\ NoteAudit("neighbour")
      /\ foreign < MaxForeign /\ foreign' = foreign + 1
      /\ UNCHANGED <<trace, memory, order, processes, faults, recorded, judged>>
  BY DEF ForeignWrite, About
<1>2. line \in Records /\ line.hash \in Hashes
  BY <1>0, RecordTyped
<1> HIDE DEF about
<1>3. audit' \in Files(Records) /\ ~audit'.cut /\ Grown(audit, audit', line) /\ audit' # audit
  <2> HIDE DEF line
  <2>1. QED
    BY <1>0, <1>1, <1>2, WrittenGrown, WrittenDiffers
<1>4. \A file \in {"trace", "audit"} : Awaits(file)' <=> Awaits(file)
  BY <1>1 DEF Awaits, memory
<1>5. TraceBehind'
  BY <1>0, <1>1, <1>4, TraceKept
<1>6. ChainBehind'
  BY <1>0, <1>1, <1>3, ChainWritten
<1>7. WrittenBehind'
  <2>1. /\ Ascending(audit') /\ Below(audit', Len(recorded) + 1)
        /\ Awaits("audit")' => Below(audit', Len(recorded))
    BY <1>0, <1>3, <1>4, AuditOrdered
  <2>2. QED
    BY <2>1, <1>0, <1>1, <1>4 DEF WrittenBehind, Ascending, Below
<1>8. Typed'
  <2>1. stale' \subseteq Observers /\ broken' \in BOOLEAN
    BY <1>0, <1>1, NotedTyped
  <2>2. prevHash' \in [Observers -> Hashes] /\ DOMAIN prevHash' = Observers
    BY <1>0, <1>1, <1>2
  <2>3. foreign' \in 0 .. MaxForeign
    BY <1>0, <1>1, RunAssumption DEF TypeOK
  <2>4. DOMAIN audit' = {"lines", "cut"} /\ audit'.cut \in BOOLEAN /\ (audit'.cut => audit'.lines # <<>>)
    BY <1>3 DEF Files
  <2>5. TypeOK'
    BY <1>0, <1>1, <2>1, <2>2, <2>3, <2>4 DEF TypeOK, memory
  <2>6. QED
    BY <1>0, <1>1, <1>3, <2>2, <2>5 DEF Typed
<1>9. TodoKept' /\ JudgedBehind' /\ CarriedOver'
  BY <1>1 DEF IInv, TodoKept, JudgedBehind, CarriedOver, memory
<1>10. QED
  BY <1>5, <1>6, <1>7, <1>8, <1>9 DEF IInv

LEMMA StutterStep == IInv /\ UNCHANGED vars => IInv'
<1> SUFFICES ASSUME IInv, UNCHANGED vars
             PROVE  IInv'
  OBVIOUS
<1>1. /\ UNCHANGED <<trace, audit, order, pc, todo, total, rejected, prevHash>>
      /\ UNCHANGED <<processes, foreign, faults, recorded, judged, stale, broken>>
  BY DEF vars, files, memory, history
<1>2. \A file \in {"trace", "audit"} : Awaits(file)' <=> Awaits(file)
  BY <1>1 DEF Awaits
<1>3. WrittenBehind' /\ TraceBehind'
  BY <1>1, <1>2, FilesKept DEF files
<1>4. ChainBehind'
  BY <1>1, ChainKept DEF IInv
<1>5. Typed'
  BY <1>1 DEF IInv, Typed, TypeOK
<1>6. TodoKept' /\ JudgedBehind' /\ CarriedOver'
  BY <1>1 DEF IInv, TodoKept, JudgedBehind, CarriedOver
<1>7. QED
  BY <1>3, <1>4, <1>5, <1>6 DEF IInv

LEMMA NextIInv == IInv /\ [Next]_vars => IInv'
<1> SUFFICES ASSUME IInv, [Next]_vars
             PROVE  IInv'
  OBVIOUS
<1>1. CASE Open
  BY <1>1, OpenStep
<1>2. CASE End
  BY <1>2, EndStep
<1>3. CASE \E amount \in Amounts : Begin(amount)
  BY <1>3, BeginStep
<1>4. CASE Write
  BY <1>4, WriteStep
<1>5. CASE Fail
  BY <1>5, FailStep
<1>6. CASE Crash
  BY <1>6, CrashStep
<1>7. CASE Judge
  BY <1>7, JudgeStep
<1>8. CASE ForeignOpen
  BY <1>8, ForeignOpenStep
<1>9. CASE ForeignWrite
  BY <1>9, ForeignWriteStep
<1>10. CASE UNCHANGED vars
  BY <1>10, StutterStep
<1>11. QED
  BY <1>1, <1>2, <1>3, <1>4, <1>5, <1>6, <1>7, <1>8, <1>9, <1>10 DEF Next

LEMMA RunInvariant == Spec => []IInv
BY InitIInv, NextIInv, PTL DEF Spec

-----------------------------------------------------------------------------

\* However many processes wrote to it, crashed or tore a record, verify_audit_log accepts
\* the audit file exactly if no observer wrote to it behind another's back and no record
\* was torn (audit.py).
THEOREM RunChainExact == Spec => []ChainExact
<1>1. IInv => ChainExact
  BY DEF IInv, ChainBehind
<1>2. QED
  BY <1>1, RunInvariant, PTL

\* Each restart knows every cost and every rejected amount of the run but those of one
\* event for every crash or failed write (session.py, trace.py).
THEOREM RunCarriedOver == Spec => []CarriedOver
<1>1. IInv => CarriedOver
  BY DEF IInv
<1>2. QED
  BY <1>1, RunInvariant, PTL

\* No event is in the trace or the audit file twice or out of order, whichever observer
\* is told first and wherever a write fails.
THEOREM RunWrittenOnce == Spec => []WrittenOnce
<1>1. ASSUME IInv
      PROVE  WrittenOnce
  <2>1. DOMAIN trace.lines = 1 .. Len(trace.lines) /\ DOMAIN audit.lines = 1 .. Len(audit.lines)
    BY <1>1, LenProperties DEF IInv, Typed, Files
  <2>2. Ascending(trace) /\ Ascending(audit)
    BY <1>1 DEF IInv, WrittenBehind
  <2>3. ASSUME NEW file \in {trace, audit}, NEW i \in DOMAIN file.lines, NEW j \in DOMAIN file.lines,
               i < j, file.lines[i].about[1] = "event", file.lines[j].about[1] = "event"
        PROVE  file.lines[i].about[2] < file.lines[j].about[2]
    BY <2>1, <2>2, <2>3 DEF Ascending
  <2>4. QED
    BY <2>3 DEF WrittenOnce
<1>2. QED
  BY <1>1, RunInvariant, PTL

\* The clauses miss at most one event for every crash or failed write, the one in hand
\* apart (session.py, record_event).
THEOREM RunJudgedUnlessFault == Spec => []JudgedUnlessFault
<1>1. ASSUME IInv
      PROVE  JudgedUnlessFault
  <2> DEFINE inHand == IF pc \in {"telling", "told"} THEN 1 ELSE 0
  <2>1. Len(recorded) <= judged + faults + inHand
    BY <1>1 DEF IInv, JudgedBehind
  <2>2. Len(recorded) \in Nat /\ judged \in Nat /\ faults \in Nat /\ inHand \in {0, 1}
    BY <1>1, LenProperties, CountsTyped DEF IInv, Typed, TypeOK
  <2> HIDE DEF inHand
  <2>3. Len(recorded) - judged <= faults + inHand
    BY ONLY <2>1, <2>2
  <2>4. QED
    BY <2>3 DEF JudgedUnlessFault, inHand
<1>2. QED
  BY <1>1, RunInvariant, PTL
=============================================================================
