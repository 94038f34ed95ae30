-------------------------- MODULE FrameParserProofs --------------------------
(***************************************************************************)
(* What holds of the parser for any delimiters and escapes, any messages   *)
(* and any notifications: that unstuffing recovers what was stuffed, the   *)
(* types, what a stream without losses cannot do to the parser, and that   *)
(* what it returns are the frames that arrived intact, whatever was lost.  *)
(***************************************************************************)
EXTENDS FrameParser, SequenceTheorems, FoldFacts

-----------------------------------------------------------------------------
(* Which bytes are escaped.                                                *)

\* flags says of each byte of data from first on whether it is escaped.
Flags(flags, data, first) ==
    flags = [i \in first..(Len(data) + 1) |->
                i > first /\ data[i - 1] \in EscapePrefixes /\ ~flags[i - 1]]

FlagsAre(flags, data, first) ==
    /\ flags \in [first..(Len(data) + 1) -> BOOLEAN]
    /\ ~flags[first]
    /\ \A i \in (first + 1)..(Len(data) + 1) :
         flags[i] <=> data[i - 1] \in EscapePrefixes /\ ~flags[i - 1]

LEMMA EscapedIs ==
    ASSUME NEW data \in Seq(Byte), NEW first \in 1..(Len(data) + 1)
    PROVE  FlagsAre(Escaped(data, first), data, first)
<1> DEFINE n == Len(data) + 1 - first
           step == [p \in BOOLEAN \X (1..n) |-> data[first + p[2] - 1] \in EscapePrefixes /\ ~p[1]]
           escaped == CHOOSE escaped : Flags(escaped, data, first)
<1>1. Escaped(data, first) = escaped
  BY Zenon DEF Escaped, Flags
<1>2. n \in Nat /\ step \in [BOOLEAN \X (1..n) -> BOOLEAN]
  OBVIOUS
<1>3. PICK run \in [0..n -> BOOLEAN] : RunsBy(run, n, FALSE, step)
  <2> DEFINE base == FALSE
  <2>1. base \in BOOLEAN
    OBVIOUS
  <2> HIDE DEF n, step, base
  <2>2. \E run \in [0..n -> BOOLEAN] : RunsBy(run, n, base, step)
    BY <1>2, <2>1, RunExists
  <2> QED BY <2>2 DEF base
<1> DEFINE flags == [i \in first..(Len(data) + 1) |-> run[i - first]]
<1>4. \A i \in first..(Len(data) + 1) : i - first \in 0..n
  OBVIOUS
<1>5. flags[first] = FALSE
  BY <1>3 DEF RunsBy
<1>6. ASSUME NEW i \in (first + 1)..(Len(data) + 1)
      PROVE  flags[i] = (data[i - 1] \in EscapePrefixes /\ ~flags[i - 1])
  <2>1. i - first \in 1..n /\ i - first - 1 \in 0..n
    OBVIOUS
  <2>2. run[i - first] = step[<<run[i - first - 1], i - first>>]
    BY <1>3, <2>1 DEF RunsBy
  <2>3. run[i - first - 1] \in BOOLEAN /\ first + (i - first) - 1 = i - 1
    BY <1>3, <2>1
  <2>4. run[i - first] = (data[i - 1] \in EscapePrefixes /\ ~run[i - first - 1])
    <3> HIDE DEF n
    <3> QED BY <2>1, <2>2, <2>3
  <2>5. /\ i \in first..(Len(data) + 1) /\ i - 1 \in first..(Len(data) + 1)
        /\ i - 1 - first = i - first - 1
    OBVIOUS
  <2> QED BY <2>4, <2>5
<1> HIDE DEF flags
<1>7. flags = [i \in first..(Len(data) + 1) |-> flags[i]]
  BY DEF flags
<1>8. \A i \in first..(Len(data) + 1) :
        flags[i] = (i > first /\ data[i - 1] \in EscapePrefixes /\ ~flags[i - 1])
  <2> TAKE i \in first..(Len(data) + 1)
  <2>1. CASE i = first
    <3>1. flags[i] = FALSE /\ ~(i > first)
      BY <1>5, <2>1
    <3> QED BY <3>1, Zenon
  <2>2. CASE i # first
    <3>1. i \in (first + 1)..(Len(data) + 1) /\ i > first
      BY <2>2
    <3> QED BY <1>6, <3>1
  <2> QED BY <2>1, <2>2
<1>9. Flags(flags, data, first)
  BY <1>7, <1>8 DEF Flags
<1>10. Flags(escaped, data, first)
  <2> HIDE DEF escaped
  <2>1. \E e : Flags(e, data, first)
    BY <1>9
  <2> QED BY <2>1, Zenon DEF escaped
<1> HIDE DEF escaped
<1>11. /\ DOMAIN escaped = first..(Len(data) + 1)
       /\ \A i \in first..(Len(data) + 1) :
            escaped[i] = (i > first /\ data[i - 1] \in EscapePrefixes /\ ~escaped[i - 1])
  BY <1>10 DEF Flags
<1>12. \A i \in first..(Len(data) + 1) : escaped[i] \in BOOLEAN
  BY <1>11
<1>13. escaped[first] = FALSE
  BY <1>11
<1>14. \A i \in (first + 1)..(Len(data) + 1) :
         i \in first..(Len(data) + 1) /\ i > first
  OBVIOUS
<1>15. escaped = [i \in first..(Len(data) + 1) |-> escaped[i]]
  BY <1>10 DEF Flags
<1>16. escaped \in [first..(Len(data) + 1) -> BOOLEAN]
  BY <1>12, <1>15
<1>17. FlagsAre(escaped, data, first)
  BY <1>11, <1>13, <1>14, <1>16 DEF FlagsAre
<1> QED BY <1>1, <1>17

\* m bytes from p on in data are those from q on in more, or escaped as those.
SameBytes(data, p, more, q, m) == \A j \in 0..(m - 1) : data[p + j] = more[q + j]

SameFlags(flags, p, others, q, m) == \A j \in 0..m : flags[p + j] <=> others[q + j]

\* Equal bytes are escaped alike, if the first of them are, wherever they stand.
LEMMA FlagsAgree ==
    ASSUME NEW data \in Seq(Byte), NEW a \in 1..(Len(data) + 1), NEW p \in a..(Len(data) + 1),
           NEW more \in Seq(Byte), NEW b \in 1..(Len(more) + 1), NEW q \in b..(Len(more) + 1),
           NEW m \in Nat, p + m =< Len(data) + 1, q + m =< Len(more) + 1,
           SameBytes(data, p, more, q, m),
           Escaped(data, a)[p] <=> Escaped(more, b)[q]
    PROVE  SameFlags(Escaped(data, a), p, Escaped(more, b), q, m)
<1> DEFINE f == Escaped(data, a)
           g == Escaped(more, b)
           I == {j \in 0..m : f[p + j] <=> g[q + j]}
<1>1. FlagsAre(f, data, a) /\ FlagsAre(g, more, b)
  BY EscapedIs
<1> HIDE DEF f, g
<1>2. 0 \in I
  BY DEF f, g
<1>3. ASSUME NEW j \in 1..m, j - 1 \in I PROVE j \in I
  <2>1. p + j \in (a + 1)..(Len(data) + 1) /\ q + j \in (b + 1)..(Len(more) + 1)
    OBVIOUS
  <2>2. /\ f[p + j] <=> data[p + j - 1] \in EscapePrefixes /\ ~f[p + j - 1]
        /\ g[q + j] <=> more[q + j - 1] \in EscapePrefixes /\ ~g[q + j - 1]
    BY <1>1, <2>1 DEF FlagsAre
  <2>3. p + (j - 1) = p + j - 1 /\ q + (j - 1) = q + j - 1 /\ j - 1 \in 0..(m - 1)
    OBVIOUS
  <2>4. data[p + j - 1] = more[q + j - 1]
    BY <2>3 DEF SameBytes
  <2>5. f[p + j - 1] <=> g[q + j - 1]
    BY <1>3, <2>3
  <2>6. f[p + j] <=> g[q + j]
    BY <2>2, <2>4, <2>5
  <2> QED BY <2>6
<1> HIDE DEF I
<1>4. 0..m \subseteq I
  BY <1>2, <1>3, CountingUp
<1>5. \A j \in 0..m : f[p + j] <=> g[q + j]
  BY <1>4 DEF I
<1> QED BY <1>5 DEF SameFlags, f, g

-----------------------------------------------------------------------------
(* Where a frame ends.                                                     *)

\* Byte i delimits a frame whose bytes begin at first.
Delimits(data, first, i) == data[i] \in {Start, End} /\ ~Escaped(data, first)[i]

EndsAt(data, first, e) ==
    /\ e = 0 \/ (e \in first..Len(data) /\ Delimits(data, first, e))
    /\ e = 0 => \A i \in first..Len(data) : ~Delimits(data, first, i)
    /\ \A i \in first..(e - 1) : ~Delimits(data, first, i)

LEMMA FrameEndIs ==
    ASSUME NEW data \in Seq(Byte), NEW first \in 1..(Len(data) + 1)
    PROVE  EndsAt(data, first, FrameEnd(data, first))
<1> DEFINE found == {i \in first..Len(data) : Delimits(data, first, i)}
           e == FrameEnd(data, first)
<1>1. e = IF found = {} THEN 0 ELSE Min(found)
  BY Zenon DEF FrameEnd, Delimits
<1>2. found # {} => Min(found) \in found /\ \A i \in found : Min(found) =< i
  <2>1. found \in SUBSET Nat
    OBVIOUS
  <2> HIDE DEF found
  <2> QED BY <2>1, LeastIsMin
<1>3. CASE found = {}
  <2>1. e = 0 /\ \A i \in first..Len(data) : ~Delimits(data, first, i)
    BY <1>1, <1>3, Zenon
  <2> HIDE DEF e
  <2>2. EndsAt(data, first, e)
    BY <2>1 DEF EndsAt
  <2> QED BY <2>2 DEF e
<1>4. CASE found # {}
  <2>1. e \in found /\ \A i \in found : e =< i
    BY <1>1, <1>2, <1>4, Zenon
  <2>2. e \in first..Len(data) /\ Delimits(data, first, e)
    BY <2>1
  <2>3. ASSUME NEW i \in first..(e - 1) PROVE ~Delimits(data, first, i)
    <3> HIDE DEF e
    <3>1. i \in first..Len(data) /\ ~(e =< i)
      BY <2>2, <2>3
    <3> QED BY <2>1, <3>1
  <2> HIDE DEF e
  <2>4. e # 0
    BY <2>2
  <2>5. EndsAt(data, first, e)
    BY <2>2, <2>3, <2>4 DEF EndsAt
  <2> QED BY <2>5 DEF e
<1> QED BY <1>3, <1>4

LEMMA FirstDelimiter ==
    ASSUME NEW data \in Seq(Byte), NEW first \in 1..(Len(data) + 1),
           NEW e \in first..Len(data), Delimits(data, first, e),
           \A i \in first..(e - 1) : ~Delimits(data, first, i)
    PROVE  FrameEnd(data, first) = e
<1> DEFINE f == FrameEnd(data, first)
<1>1. EndsAt(data, first, f)
  BY FrameEndIs
<1> HIDE DEF f
<1>2. f # 0
  BY <1>1 DEF EndsAt
<1>3. f \notin first..(e - 1) /\ e \notin first..(f - 1)
  BY <1>1, <1>2 DEF EndsAt
<1>4. f = e
  BY <1>1, <1>2, <1>3 DEF EndsAt
<1> QED BY <1>4 DEF f

LEMMA Shifted == \A x, y \in Int : x + 1 + (y - 1) = x + y
OBVIOUS

\* Where a frame ends depends on its own bytes only.
LEMMA FrameEndAgrees ==
    ASSUME NEW data \in Seq(Byte), NEW more \in Seq(Byte), NEW a \in Nat, NEW b \in Nat,
           NEW m \in Nat, a + m =< Len(data), b + m =< Len(more),
           \A j \in 1..m : data[a + j] = more[b + j],
           FrameEnd(data, a + 1) \in (a + 1)..(a + m)
    PROVE  FrameEnd(more, b + 1) = FrameEnd(data, a + 1) - a + b
<1> DEFINE e == FrameEnd(data, a + 1)
           f == e - a + b
<1>1. a + 1 \in 1..(Len(data) + 1) /\ b + 1 \in 1..(Len(more) + 1)
  OBVIOUS
<1>2. /\ e \in (a + 1)..(a + m) /\ Delimits(data, a + 1, e)
      /\ \A i \in (a + 1)..(e - 1) : ~Delimits(data, a + 1, i)
  <2>1. EndsAt(data, a + 1, e) /\ e \in (a + 1)..(a + m)
    BY <1>1, FrameEndIs
  <2> HIDE DEF e
  <2> QED BY <2>1 DEF EndsAt
<1> HIDE DEF e
<1>3. \A j \in 0..m : Escaped(data, a + 1)[a + 1 + j] <=> Escaped(more, b + 1)[b + 1 + j]
  <2>1. ~Escaped(data, a + 1)[a + 1] /\ ~Escaped(more, b + 1)[b + 1]
    BY <1>1, EscapedIs DEF FlagsAre
  <2>2. \A j \in 0..(m - 1) : data[a + 1 + j] = more[b + 1 + j]
    <3> TAKE j \in 0..(m - 1)
    <3>1. j + 1 \in 1..m /\ a + (j + 1) = a + 1 + j /\ b + (j + 1) = b + 1 + j
      OBVIOUS
    <3>2. data[a + (j + 1)] = more[b + (j + 1)]
      BY <3>1
    <3> QED BY <3>1, <3>2
  <2>3. SameBytes(data, a + 1, more, b + 1, m)
    BY <2>2 DEF SameBytes
  <2> DEFINE p == a + 1
             q == b + 1
  <2>4. /\ p \in 1..(Len(data) + 1) /\ p \in p..(Len(data) + 1)
        /\ q \in 1..(Len(more) + 1) /\ q \in q..(Len(more) + 1)
        /\ p + m =< Len(data) + 1 /\ q + m =< Len(more) + 1
    OBVIOUS
  <2>5. SameBytes(data, p, more, q, m) /\ (Escaped(data, p)[p] <=> Escaped(more, q)[q])
    BY <2>1, <2>3
  <2> HIDE DEF p, q
  <2>6. SameFlags(Escaped(data, p), p, Escaped(more, q), q, m)
    BY <2>4, <2>5, FlagsAgree
  <2> QED BY <2>6 DEF SameFlags, p, q
<1>4. ASSUME NEW j \in 1..m
      PROVE  Delimits(data, a + 1, a + j) <=> Delimits(more, b + 1, b + j)
  <2>1. j - 1 \in 0..m /\ a + 1 + (j - 1) = a + j /\ b + 1 + (j - 1) = b + j
    <3>1. \A x, y \in Int : x + 1 + (y - 1) = x + y
      BY Shifted
    <3>2. j \in 1..m /\ j \in Int /\ j - 1 \in 0..m /\ a \in Int /\ b \in Int
      OBVIOUS
    <3> QED BY <3>1, <3>2, Zenon
  <2>2. Escaped(data, a + 1)[a + j] <=> Escaped(more, b + 1)[b + j]
    BY <1>3, <2>1
  <2>3. data[a + j] = more[b + j]
    OBVIOUS
  <2> QED BY <2>2, <2>3 DEF Delimits
<1>5. f \in (b + 1)..(b + m) /\ Delimits(more, b + 1, f)
  <2>1. e - a \in 1..m /\ a + (e - a) = e /\ b + (e - a) = f
    BY <1>2
  <2>2. Delimits(more, b + 1, b + (e - a))
    BY <1>2, <1>4, <2>1
  <2> QED BY <2>1, <2>2
<1>6. ASSUME NEW i \in (b + 1)..(f - 1) PROVE ~Delimits(more, b + 1, i)
  <2>1. i - b \in 1..m /\ b + (i - b) = i /\ a + (i - b) \in (a + 1)..(e - 1)
    BY SMTT(30), <1>2
  <2>2. ~Delimits(data, a + 1, a + (i - b))
    BY <1>2, <2>1
  <2>3. ~Delimits(more, b + 1, b + (i - b))
    BY <1>4, <2>1, <2>2
  <2> QED BY <2>1, <2>3
<1>7. f \in (b + 1)..Len(more)
  BY <1>5
<1> HIDE DEF f
<1>8. FrameEnd(more, b + 1) = f
  BY <1>1, <1>5, <1>6, <1>7, FirstDelimiter
<1> QED BY <1>8 DEF f, e

\* Where no frame ends, none begins that does.
LEMMA NoneEnds ==
    ASSUME NEW data \in Seq(Byte), NEW first \in 1..(Len(data) + 1), FrameEnd(data, first) = 0,
           NEW i \in first..Len(data), data[i] = Start
    PROVE  FrameEnd(data, i + 1) = 0
<1> DEFINE e == FrameEnd(data, i + 1)
<1> DEFINE f == Escaped(data, first)
           q == i + 1
           g == Escaped(data, q)
<1>1. \A k \in first..Len(data) : ~Delimits(data, first, k)
  BY FrameEndIs DEF EndsAt
<1>2. f[i] /\ q \in 1..(Len(data) + 1)
  BY <1>1 DEF Delimits
<1>3. ~f[q]
  <2>1. q \in (first + 1)..(Len(data) + 1) /\ q - 1 = i
    OBVIOUS
  <2>2. FlagsAre(f, data, first)
    BY EscapedIs
  <2> HIDE DEF f, q
  <2> QED BY <1>2, <2>1, <2>2 DEF FlagsAre
<1>4. ~g[q]
  BY <1>2, EscapedIs DEF FlagsAre
<1>5. SameFlags(f, q, g, q, Len(data) - i)
  <2>1. /\ q \in first..(Len(data) + 1) /\ q \in q..(Len(data) + 1)
        /\ Len(data) - i \in Nat /\ q + (Len(data) - i) =< Len(data) + 1
    OBVIOUS
  <2>2. SameBytes(data, q, data, q, Len(data) - i)
    BY DEF SameBytes
  <2>3. f[q] <=> g[q]
    BY <1>3, <1>4
  <2> HIDE DEF q
  <2> QED BY <1>2, <2>1, <2>2, <2>3, FlagsAgree
<1> HIDE DEF f, g
<1>6. ASSUME e # 0 PROVE FALSE
  <2>1. e \in q..Len(data) /\ Delimits(data, q, e)
    BY <1>2, <1>6, FrameEndIs DEF EndsAt
  <2> HIDE DEF e
  <2>2. e - i - 1 \in 0..(Len(data) - i) /\ q + (e - i - 1) = e
    BY <2>1
  <2>3. f[e] <=> g[e]
    BY <1>5, <2>2 DEF SameFlags
  <2>4. Delimits(data, first, e)
    BY <2>1, <2>3 DEF Delimits, f, g
  <2> QED BY <1>1, <2>1, <2>4
<1> QED BY <1>6

-----------------------------------------------------------------------------
(* Stuffing and unstuffing, byte by byte.                                  *)

LEMMA ByteFacts ==
    /\ Start \in Byte /\ End \in Byte /\ Flag \in Byte /\ Literal \in Byte
    /\ Start - 1 \in Byte /\ End - 1 \in Byte /\ Noise \subseteq Byte /\ Alphabet \subseteq Byte
    /\ {Start, End} \cap (EscapePrefixes \cup {Flag, Literal}) = {}
    /\ Start # End /\ Flag # Literal
<1>1. {Start, End, Flag, Literal, Start - 1, End - 1} \cup Noise \cup Alphabet \subseteq Byte
  BY ByteAssumption
<1>2. {Start, End} \cap {Start - 1, End - 1, Flag, Literal} = {} /\ Start # End /\ Flag # Literal
  BY ByteAssumption
<1> QED BY <1>1, <1>2 DEF EscapePrefixes

\* The byte that byte i stands for, if it is not an escape code.
Meant(data, i) ==
    IF data[i] \in EscapePrefixes /\ data[i + 1] = Flag THEN data[i] + 1 ELSE data[i]

LEMMA MeantIsByte ==
    ASSUME NEW data \in Seq(Byte), NEW i \in 1..Len(data)
    PROVE  Meant(data, i) \in Byte
<1>1. data[i] \in Byte
  OBVIOUS
<1>2. data[i] \in EscapePrefixes => data[i] + 1 \in {Start, End}
  BY <1>1, ByteFacts DEF EscapePrefixes, Byte
<1> QED BY <1>1, <1>2, ByteFacts DEF Meant

\* run has what is made of the first k bytes of data.
Unstuffs(run, data) ==
    /\ run \in [0..Len(data) -> Seq(Byte)] /\ run[0] = <<>>
    /\ \A k \in 1..Len(data) :
         run[k] = IF Escaped(data, 1)[k] THEN run[k - 1]
                  ELSE Append(run[k - 1], Meant(data, k))

LEMMA UnstuffIs ==
    ASSUME NEW data \in Seq(Byte)
    PROVE  \E run : Unstuffs(run, data) /\ Unstuff(data) = run[Len(data)]
<1> DEFINE n == Len(data)
           D == DOMAIN data
           S == Seq(Byte)
           base == <<>>
           flags == Escaped(data, 1)
           Op(out, i) == IF flags[i] THEN out ELSE Append(out, Meant(data, i))
           step == [p \in S \X (1..n) |-> Op(p[1], p[2])]
           Folds(g) == g = [s \in SUBSET D |->
                      IF s = {} THEN base
                      ELSE Op(g[s \ {Max(s)}], [i \in DOMAIN data |-> i][Max(s)])]
           iter == CHOOSE iter : Folds(iter)
<1>1. Unstuff(data) = iter[D]
  BY DEF Unstuff, FoldLeftDomain, FoldLeft, MapThenFoldSet, Meant
<1>2. D = 1..n /\ n \in Nat /\ base \in S
  OBVIOUS
<1>3. step \in [S \X (1..n) -> S]
  <2>1. \A p \in S \X (1..n) : Op(p[1], p[2]) \in S
    <3> TAKE p \in S \X (1..n)
    <3>1. p[1] \in S /\ p[2] \in 1..n
      OBVIOUS
    <3>2. Meant(data, p[2]) \in Byte
      BY <3>1, MeantIsByte
    <3>3. Append(p[1], Meant(data, p[2])) \in S
      BY <3>1, <3>2
    <3> QED BY <3>1, <3>3
  <2> HIDE DEF S, Op
  <2> QED BY <2>1
<1>4. PICK g \in [SUBSET (1..n) -> S] : FoldsLeft(g, n, base, step)
  <2> HIDE DEF n, step, S, base
  <2> QED BY <1>2, <1>3, LeftFoldExists
<1>5. ASSUME NEW s \in (SUBSET D) \ {{}}
      PROVE  g[s] = Op(g[s \ {Max(s)}], [i \in DOMAIN data |-> i][Max(s)])
  <2>1. Max(s) \in 1..n
    <3>1. s \in SUBSET (0..n) /\ s # {}
      BY <1>2
    <3> QED BY <1>2, <3>1, GreatestOf
  <2>2. g[s \ {Max(s)}] \in S
    BY <1>2, <1>4
  <2>3. g[s] = step[<<g[s \ {Max(s)}], Max(s)>>]
    BY <1>2, <1>4 DEF FoldsLeft
  <2>4. [i \in DOMAIN data |-> i][Max(s)] = Max(s)
    BY <1>2, <2>1
  <2> HIDE DEF S, n, Op
  <2> QED BY <2>1, <2>2, <2>3, <2>4
<1>6. Folds(g)
  <2>1. g = [s \in SUBSET D |-> g[s]] /\ g[{}] = base
    BY <1>2, <1>4 DEF FoldsLeft
  <2>2. \A s \in SUBSET D :
          g[s] = IF s = {} THEN base
                 ELSE Op(g[s \ {Max(s)}], [i \in DOMAIN data |-> i][Max(s)])
    BY <1>5, <2>1
  <2> HIDE DEF Op
  <2> QED BY <2>1, <2>2
<1> HIDE DEF Folds
<1>7. Folds(iter)
  BY <1>6
<1> HIDE DEF iter
<1>8. \A s \in SUBSET D :
        iter[s] = IF s = {} THEN base
                  ELSE Op(iter[s \ {Max(s)}], [i \in DOMAIN data |-> i][Max(s)])
  <2> HIDE DEF Op
  <2> QED BY <1>7 DEF Folds
<1> DEFINE run == [k \in 0..n |-> iter[1..k]]
<1>9. run[0] = base
  <2>1. 1..0 = {} /\ 0 \in 0..n
    OBVIOUS
  <2> QED BY <1>8, <2>1
<1>10. ASSUME NEW k \in 1..n PROVE run[k] = Op(run[k - 1], k)
  <2>1. 1..k \in SUBSET D /\ k \in 0..n /\ k - 1 \in 0..n
    BY <1>2
  <2>2. 1..k # {} /\ Max(1..k) = k /\ (1..k) \ {k} = 1..(k - 1)
    BY SMTT(30), <1>2, PrefixStep
  <2>3. [i \in DOMAIN data |-> i][k] = k
    BY <1>2
  <2>4. iter[1..k] = Op(iter[1..(k - 1)], k)
    <3> HIDE DEF Op, D
    <3> QED BY <1>8, <2>1, <2>2, <2>3
  <2> HIDE DEF Op
  <2> QED BY <2>1, <2>4
<1> HIDE DEF run, Op
<1>11. \A k \in 0..n : run[k] \in S
  <2> DEFINE I == {k \in 0..n : run[k] \in S}
  <2>1. 0 \in I
    <3> HIDE DEF S, base
    <3> QED BY <1>2, <1>9
  <2>2. ASSUME NEW k \in 1..n, k - 1 \in I PROVE k \in I
    <3>1. run[k] = step[<<run[k - 1], k>>] /\ run[k - 1] \in S
      BY <1>10, <2>2
    <3> HIDE DEF step, S
    <3> QED BY <1>3, <2>2, <3>1
  <2> HIDE DEF I, n
  <2>3. 0..n \subseteq I
    BY <1>2, <2>1, <2>2, CountingUp
  <2> QED BY <2>3 DEF I
<1>12. Unstuffs(run, data)
  <2>1. run = [k \in 0..n |-> run[k]]
    BY DEF run
  <2>2. run \in [0..Len(data) -> Seq(Byte)]
    BY <1>11, <2>1
  <2>3. \A k \in 1..Len(data) :
          run[k] = IF Escaped(data, 1)[k] THEN run[k - 1]
                   ELSE Append(run[k - 1], Meant(data, k))
    BY <1>10 DEF Op
  <2> QED BY <1>9, <2>2, <2>3 DEF Unstuffs
<1>13. run[n] = iter[D]
  BY <1>2 DEF run
<1> QED BY <1>1, <1>12, <1>13

\* run has what the first k bytes of data become.
Stuffs(run, data) ==
    /\ run \in [0..Len(data) -> Seq(Byte)] /\ run[0] = <<>>
    /\ \A k \in 1..Len(data) : run[k] = run[k - 1] \o StuffByte(data[k])

LEMMA StuffByteType ==
    ASSUME NEW b \in Byte
    PROVE  StuffByte(b) \in Seq(Byte)
BY ByteFacts DEF StuffByte

LEMMA StuffIs ==
    ASSUME NEW data \in Seq(Byte)
    PROVE  \E run : Stuffs(run, data) /\ Stuff(data) = run[Len(data)]
<1> DEFINE n == Len(data)
           S == Seq(Byte)
           base == <<>>
           seqs == [i \in DOMAIN data |-> StuffByte(data[i])]
           step == [p \in S \X (1..n) |-> p[1] \o seqs[p[2]]]
           Flattens(g) == g = [i \in 1..Len(seqs) |-> IF i = 1 THEN seqs[i] ELSE g[i - 1] \o seqs[i]]
           flatten == CHOOSE flatten : Flattens(flatten)
<1>1. Stuff(data) = IF Len(seqs) = 0 THEN seqs ELSE flatten[Len(seqs)]
  BY Zenon DEF Stuff, FlattenSeq
<1>2. n \in Nat /\ base \in S /\ \A i \in 1..n : data[i] \in Byte
  OBVIOUS
<1>3. Len(seqs) = n /\ \A i \in 1..n : seqs[i] = StuffByte(data[i]) /\ seqs[i] \in S
  BY StuffByteType
<1> HIDE DEF seqs
<1>4. step \in [S \X (1..n) -> S]
  BY <1>3
<1>5. PICK run \in [0..n -> S] : RunsBy(run, n, base, step)
  <2> HIDE DEF n, S, base, step
  <2> QED BY <1>2, <1>4, RunExists
<1>6. run[0] = base /\ \A k \in 0..n : run[k] \in S
  BY <1>5 DEF RunsBy
<1>7. ASSUME NEW k \in 1..n PROVE run[k] = run[k - 1] \o seqs[k]
  <2>1. run[k] = step[<<run[k - 1], k>>]
    BY <1>5 DEF RunsBy
  <2>2. run[k - 1] \in S
    BY <1>6
  <2> HIDE DEF S, n
  <2> QED BY <2>1, <2>2
<1>8. Stuffs(run, data)
  BY <1>3, <1>5, <1>6, <1>7 DEF Stuffs
<1>9. CASE n = 0
  <2>1. Stuff(data) = seqs /\ DOMAIN data = {}
    BY <1>1, <1>3, <1>9
  <2>2. seqs = <<>>
    BY <2>1 DEF seqs
  <2> QED BY <1>6, <1>8, <1>9, <2>1, <2>2
<1> HIDE DEF n, S, base, step
<1>10. CASE n # 0
  <2> DEFINE g == [i \in 1..n |-> run[i]]
  <2>1. ASSUME NEW i \in 1..n
        PROVE  g[i] = IF i = 1 THEN seqs[i] ELSE g[i - 1] \o seqs[i]
    <3>1. CASE i = 1
      <4>1. run[1] = run[0] \o seqs[1] /\ seqs[1] \in S
        <5>1. 1 \in 1..n /\ 1 - 1 = 0
          BY <3>1
        <5> QED BY <1>3, <1>7, <5>1
      <4>2. run[1] = seqs[1]
        BY <1>6, <4>1 DEF S, base
      <4> QED BY <3>1, <4>2
    <3>2. CASE i # 1
      <4>1. i - 1 \in 1..n
        BY <1>2, <3>2
      <4> QED BY <1>7, <3>2, <4>1
    <3> QED BY <3>1, <3>2
  <2> HIDE DEF g
  <2>2. Flattens(g)
    <3>1. g = [i \in 1..n |-> g[i]]
      BY Zenon DEF g
    <3> QED BY <1>3, <2>1, <3>1
  <2> HIDE DEF Flattens
  <2>3. Flattens(flatten)
    BY <2>2
  <2> HIDE DEF flatten
  <2>4. \A i \in 1..n : flatten[i] = IF i = 1 THEN seqs[i] ELSE flatten[i - 1] \o seqs[i]
    BY <1>3, <2>3 DEF Flattens
  <2> DEFINE I == {k \in 0..n : k = 0 \/ flatten[k] = run[k]}
  <2>5. 0 \in I
    BY <1>2
  <2>6. ASSUME NEW k \in 1..n, k - 1 \in I PROVE k \in I
    <3>1. CASE k = 1
      <4>1. run[1] = g[1] /\ g[1] = seqs[1] /\ flatten[1] = seqs[1]
        BY <2>1, <2>4, <3>1 DEF g
      <4> QED BY <3>1, <4>1
    <3>2. CASE k # 1
      <4>1. flatten[k] = flatten[k - 1] \o seqs[k]
        BY <2>4, <3>2
      <4>2. flatten[k - 1] = run[k - 1]
        BY <1>2, <2>6, <3>2
      <4>3. flatten[k] = run[k]
        BY <1>7, <4>1, <4>2
      <4> QED BY <4>3
    <3> QED BY <3>1, <3>2
  <2> HIDE DEF I
  <2>7. 0..n \subseteq I
    BY <1>2, <2>5, <2>6, CountingUp
  <2>8. flatten[n] = run[n]
    BY <1>2, <1>10, <2>7 DEF I
  <2> QED BY <1>1, <1>3, <1>8, <1>10, <2>8 DEF n
<1> QED BY <1>9, <1>10

\* What stuffing makes of d: no delimiter, no escape left open, at most two
\* bytes for one, and d again when it is undone.
Neat(s, d) ==
    /\ s \in Seq(Byte) /\ WellEscaped(s)
    /\ \A i \in DOMAIN s : s[i] \notin {Start, End}
    /\ Unstuff(s) = d /\ Len(s) =< 2 * Len(d)

\* What unstuffing made of s is what it makes of those bytes with more behind.
LEMMA UnstuffBefore ==
    ASSUME NEW s \in Seq(Byte), WellEscaped(s), NEW t \in Seq(Byte),
           Len(s) =< Len(t), \A i \in 1..Len(s) : t[i] = s[i],
           NEW rs, Unstuffs(rs, s), NEW rt, Unstuffs(rt, t)
    PROVE  /\ rt[Len(s)] = rs[Len(s)]
           /\ SameFlags(Escaped(s, 1), 1, Escaped(t, 1), 1, Len(s))
<1> DEFINE n == Len(s)
           f == Escaped(s, 1)
           g == Escaped(t, 1)
<1>1. n \in Nat /\ FlagsAre(f, s, 1) /\ FlagsAre(g, t, 1) /\ ~f[n + 1]
  BY EscapedIs DEF WellEscaped
<1>2. SameFlags(f, 1, g, 1, n)
  <2> DEFINE p == 1
  <2>1. /\ p \in 1..(Len(s) + 1) /\ p \in p..(Len(s) + 1) /\ p + n =< Len(s) + 1
        /\ p \in 1..(Len(t) + 1) /\ p \in p..(Len(t) + 1) /\ p + n =< Len(t) + 1
    OBVIOUS
  <2>2. SameBytes(s, p, t, p, n)
    BY DEF SameBytes
  <2>3. f[p] <=> g[p]
    BY <1>1 DEF FlagsAre
  <2> HIDE DEF p, n
  <2>4. SameFlags(Escaped(s, p), p, Escaped(t, p), p, n)
    BY <1>1, <2>1, <2>2, <2>3, FlagsAgree DEF p
  <2> QED BY <2>4 DEF p
<1> HIDE DEF f, g
<1>3. \A k \in 1..(n + 1) : f[k] <=> g[k]
  <2> TAKE k \in 1..(n + 1)
  <2>1. k - 1 \in 0..n /\ 1 + (k - 1) = k
    BY <1>1
  <2> QED BY <1>2, <2>1 DEF SameFlags
<1>4. ASSUME NEW k \in 1..n, ~f[k] PROVE Meant(s, k) = Meant(t, k)
  <2>1. t[k] = s[k]
    OBVIOUS
  <2>2. CASE s[k] \in EscapePrefixes
    <3>1. k + 1 \in (1 + 1)..(Len(s) + 1) /\ (k + 1) - 1 = k
      BY <1>1
    <3>2. f[k + 1]
      <4> DEFINE next == k + 1
      <4>1. next \in (1 + 1)..(Len(s) + 1) /\ next - 1 = k
        BY <3>1
      <4> HIDE DEF next, n, f, g
      <4>2. f[next]
        BY <1>1, <1>4, <2>2, <4>1, Zenon DEF FlagsAre
      <4> QED BY <4>2 DEF next
    <3>3. k + 1 \in 1..n
      BY <1>1, <3>2
    <3>4. t[k + 1] = s[k + 1]
      BY <3>3
    <3> QED BY <2>1, <3>4 DEF Meant
  <2>3. CASE s[k] \notin EscapePrefixes
    BY <2>1, <2>3 DEF Meant
  <2> QED BY <2>2, <2>3
<1> DEFINE I == {k \in 0..n : rt[k] = rs[k]}
<1>5. 0 \in I
  BY <1>1 DEF Unstuffs
<1>6. ASSUME NEW k \in 1..n, k - 1 \in I PROVE k \in I
  <2>1. rs[k] = IF f[k] THEN rs[k - 1] ELSE Append(rs[k - 1], Meant(s, k))
    BY DEF Unstuffs, f
  <2>2. k \in 1..Len(t) /\ k \in 1..(n + 1)
    BY <1>1
  <2>3. rt[k] = IF g[k] THEN rt[k - 1] ELSE Append(rt[k - 1], Meant(t, k))
    BY <2>2 DEF Unstuffs, g
  <2>4. rt[k - 1] = rs[k - 1] /\ (f[k] <=> g[k])
    BY <1>3, <1>6, <2>2
  <2>5. rt[k] = rs[k]
    BY <1>4, <2>1, <2>3, <2>4
  <2> QED BY <2>5
<1> HIDE DEF I, n
<1>7. 0..n \subseteq I
  BY <1>1, <1>5, <1>6, CountingUp
<1>8. rt[n] = rs[n]
  BY <1>1, <1>7 DEF I
<1> QED BY <1>2, <1>8 DEF n, f, g

LEMMA StuffOne ==
    ASSUME NEW s, NEW d \in Seq(Byte), Neat(s, d), NEW b \in Byte
    PROVE  Neat(s \o StuffByte(b), Append(d, b))
<1> DEFINE n == Len(s)
           c == StuffByte(b)
           t == s \o c
           g == Escaped(t, 1)
<1>1. s \in Seq(Byte) /\ n \in Nat /\ WellEscaped(s) /\ Unstuff(s) = d
  BY DEF Neat
<1>2. c \in Seq(Byte) /\ Len(c) \in 1..2
  BY StuffByteType DEF StuffByte
<1> HIDE DEF c
<1>3. /\ t \in Seq(Byte) /\ Len(t) = n + Len(c)
      /\ \A i \in 1..n : t[i] = s[i]
      /\ \A i \in 1..Len(c) : t[n + i] = c[i]
  BY <1>1, <1>2
<1>4. PICK rs : Unstuffs(rs, s) /\ d = rs[n]
  BY <1>1, UnstuffIs
<1>5. PICK rt : Unstuffs(rt, t) /\ Unstuff(t) = rt[Len(t)]
  BY <1>3, UnstuffIs
<1> HIDE DEF t
<1>6. rt[n] = d /\ SameFlags(Escaped(s, 1), 1, g, 1, n)
  <2>1. Len(s) =< Len(t) /\ \A i \in 1..Len(s) : t[i] = s[i]
    BY <1>1, <1>2, <1>3
  <2> HIDE DEF n, g
  <2>2. /\ rt[Len(s)] = rs[Len(s)]
        /\ SameFlags(Escaped(s, 1), 1, Escaped(t, 1), 1, Len(s))
    BY <1>1, <1>3, <1>4, <1>5, <2>1, UnstuffBefore
  <2> QED BY <1>4, <2>2 DEF n, g
<1>7. FlagsAre(g, t, 1)
  BY <1>3, EscapedIs
<1> HIDE DEF g, n
<1>8. ~g[n + 1] /\ \A i \in 1..n : g[i] => t[i] \in {Flag, Literal}
  <2>1. \A k \in 1..(n + 1) : Escaped(s, 1)[k] <=> g[k]
    <3> TAKE k \in 1..(n + 1)
    <3>1. k - 1 \in 0..n /\ 1 + (k - 1) = k
      BY <1>1
    <3> QED BY <1>6, <3>1 DEF SameFlags
  <2>2. ~Escaped(s, 1)[n + 1] /\ \A i \in 1..n : Escaped(s, 1)[i] => s[i] \in {Flag, Literal}
    BY <1>1 DEF WellEscaped, n
  <2>3. n + 1 \in 1..(n + 1) /\ \A i \in 1..n : i \in 1..(n + 1)
    BY <1>1
  <2> QED BY <1>3, <2>1, <2>2, <2>3
<1>9. \A k \in 1..Len(t) :
        rt[k] = IF g[k] THEN rt[k - 1] ELSE Append(rt[k - 1], Meant(t, k))
  BY <1>5 DEF Unstuffs, g
<1>10. CASE Len(c) = 1
  <2>1. c[1] = b /\ b \notin EscapePrefixes /\ b \notin {Start, End}
    BY <1>10 DEF c, StuffByte
  <2>2. t[n + 1] = b /\ Len(t) = n + 1
    BY <1>3, <1>10, <2>1
  <2>3. ~g[n + 2]
    <3>1. n + 2 \in (1 + 1)..(Len(t) + 1) /\ (n + 2) - 1 = n + 1
      BY <1>1, <2>2
    <3>2. g[n + 2] <=> t[n + 1] \in EscapePrefixes /\ ~g[n + 1]
      BY <1>7, <3>1 DEF FlagsAre
    <3> QED BY <2>1, <2>2, <3>2
  <2>4. rt[n + 1] = Append(d, b)
    <3>1. n + 1 \in 1..Len(t) /\ (n + 1) - 1 = n
      BY <1>1, <2>2
    <3>2. rt[n + 1] = Append(rt[n], Meant(t, n + 1))
      BY <1>8, <1>9, <3>1
    <3>3. Meant(t, n + 1) = b
      BY <2>1, <2>2 DEF Meant
    <3> QED BY <1>6, <3>2, <3>3
  <2>5. WellEscaped(t) /\ Unstuff(t) = Append(d, b)
    <3>1. DOMAIN t = 1..(n + 1) /\ \A i \in 1..(n + 1) : i = n + 1 \/ i \in 1..n
      BY <1>1, <1>3, <2>2
    <3>2. ~g[Len(t) + 1] /\ \A i \in DOMAIN t : g[i] => t[i] \in {Flag, Literal}
      BY <1>1, <1>8, <2>2, <2>3, <3>1
    <3> QED BY <1>5, <2>2, <2>4, <3>2 DEF WellEscaped, g
  <2>6. \A i \in DOMAIN t : t[i] \notin {Start, End}
    <3>1. \A i \in DOMAIN t : i = n + 1 \/ i \in 1..n
      BY <1>1, <1>3, <2>2
    <3>2. \A i \in 1..n : s[i] \notin {Start, End}
      BY <1>1 DEF Neat, n
    <3> QED BY <1>3, <2>1, <2>2, <3>1, <3>2
  <2>7. Len(t) =< 2 * Len(Append(d, b))
    BY <1>1, <2>2 DEF Neat, n
  <2> QED BY <1>3, <2>5, <2>6, <2>7 DEF Neat, t, c
<1>11. CASE Len(c) = 2
  <2>1. /\ c[1] \in EscapePrefixes /\ c[2] \in {Flag, Literal}
        /\ b = IF c[2] = Flag THEN c[1] + 1 ELSE c[1]
    <3>1. CASE b \in {Start, End}
      <4>1. c = <<b - 1, Flag>>
        BY <3>1, ByteFacts DEF c, StuffByte
      <4> QED BY <3>1, <4>1, ByteFacts DEF EscapePrefixes, Byte
    <3>2. CASE b \in EscapePrefixes
      <4>1. c = <<b, Literal>>
        BY <3>2, ByteFacts DEF c, StuffByte
      <4> QED BY <3>2, <4>1, ByteFacts
    <3>3. CASE b \notin {Start, End} \cup EscapePrefixes
      BY <1>11, <3>3 DEF c, StuffByte
    <3> QED BY <3>1, <3>2, <3>3
  <2>2. t[n + 1] = c[1] /\ t[n + 2] = c[2] /\ Len(t) = n + 2
    BY <1>3, <1>11
  <2>3. g[n + 2] /\ ~g[n + 3]
    <3>1. /\ n + 2 \in (1 + 1)..(Len(t) + 1) /\ (n + 2) - 1 = n + 1
          /\ n + 3 \in (1 + 1)..(Len(t) + 1) /\ (n + 3) - 1 = n + 2
      BY <1>1, <2>2
    <3>2. /\ g[n + 2] <=> t[n + 1] \in EscapePrefixes /\ ~g[n + 1]
          /\ g[n + 3] <=> t[n + 2] \in EscapePrefixes /\ ~g[n + 2]
      BY <1>7, <3>1 DEF FlagsAre
    <3> QED BY <1>8, <2>1, <2>2, <3>2
  <2>4. rt[n + 2] = Append(d, b)
    <3>1. /\ n + 1 \in 1..Len(t) /\ (n + 1) - 1 = n
          /\ n + 2 \in 1..Len(t) /\ (n + 2) - 1 = n + 1
      BY <1>1, <2>2
    <3>2. rt[n + 1] = Append(rt[n], Meant(t, n + 1)) /\ rt[n + 2] = rt[n + 1]
      BY <1>8, <1>9, <2>3, <3>1
    <3>3. Meant(t, n + 1) = b
      <4>1. (n + 1) + 1 = n + 2
        BY <1>1
      <4> QED BY <2>1, <2>2, <4>1 DEF Meant
    <3> QED BY <1>6, <3>2, <3>3
  <2>5. WellEscaped(t) /\ Unstuff(t) = Append(d, b)
    <3>1. DOMAIN t = 1..(n + 2) /\ \A i \in 1..(n + 2) : i = n + 2 \/ i = n + 1 \/ i \in 1..n
      BY <1>1, <1>3, <2>2
    <3>2. ~g[Len(t) + 1] /\ \A i \in DOMAIN t : g[i] => t[i] \in {Flag, Literal}
      BY <1>1, <1>8, <2>1, <2>2, <2>3, <3>1
    <3> QED BY <1>5, <2>2, <2>4, <3>2 DEF WellEscaped, g
  <2>6. \A i \in DOMAIN t : t[i] \notin {Start, End}
    <3>1. \A i \in DOMAIN t : i = n + 2 \/ i = n + 1 \/ i \in 1..n
      BY <1>1, <1>3, <2>2
    <3>2. \A i \in 1..n : s[i] \notin {Start, End}
      BY <1>1 DEF Neat, n
    <3>3. c[1] \notin {Start, End} /\ c[2] \notin {Start, End}
      BY <2>1, ByteFacts
    <3> QED BY <1>3, <2>2, <3>1, <3>2, <3>3
  <2>7. Len(t) =< 2 * Len(Append(d, b))
    BY <1>1, <2>2 DEF Neat, n
  <2> QED BY <1>3, <2>5, <2>6, <2>7 DEF Neat, t, c
<1> QED BY <1>2, <1>10, <1>11

\* What is stuffed has no delimiter in it, and unstuffing gives it back.
THEOREM StuffingIsUndone ==
    ASSUME NEW data \in Seq(Byte)
    PROVE  Neat(Stuff(data), data)
<1> DEFINE n == Len(data)
<1>1. n \in Nat
  OBVIOUS
<1>2. PICK run : Stuffs(run, data) /\ Stuff(data) = run[n]
  BY StuffIs
<1> DEFINE J == {k \in 0..n : Neat(run[k], SubSeq(data, 1, k))}
<1>3. Neat(<<>>, <<>>)
  <2> DEFINE e == <<>>
  <2>1. e \in Seq(Byte) /\ Len(e) = 0 /\ DOMAIN e = {}
    OBVIOUS
  <2>2. PICK rs : Unstuffs(rs, e) /\ Unstuff(e) = rs[Len(e)]
    BY <2>1, UnstuffIs
  <2>3. Unstuff(e) = e
    BY <2>1, <2>2 DEF Unstuffs
  <2> HIDE DEF e
  <2>4. 1 \in 1..(Len(e) + 1) /\ Len(e) + 1 = 1
    BY <2>1
  <2>5. FlagsAre(Escaped(e, 1), e, 1)
    BY <2>1, <2>4, EscapedIs
  <2>6. WellEscaped(e)
    BY <2>1, <2>4, <2>5 DEF WellEscaped, FlagsAre
  <2>7. Neat(e, e)
    BY <2>1, <2>3, <2>6 DEF Neat
  <2> QED BY <2>7 DEF e
<1>4. 0 \in J
  <2>1. run[0] = <<>> /\ SubSeq(data, 1, 0) = <<>> /\ 0 \in 0..n
    BY <1>1, <1>2 DEF Stuffs
  <2> QED BY <1>3, <2>1, Zenon
<1>5. ASSUME NEW k \in 1..n, k - 1 \in J PROVE k \in J
  <2>1. data[k] \in Byte
    OBVIOUS
  <2>2. run[k] = run[k - 1] \o StuffByte(data[k])
    BY <1>2, Zenon DEF Stuffs
  <2> DEFINE d == SubSeq(data, 1, k - 1)
  <2>3. d \in Seq(Byte) /\ Append(d, data[k]) = SubSeq(data, 1, k)
    OBVIOUS
  <2>4. Neat(run[k - 1], d)
    BY <1>5
  <2> HIDE DEF d
  <2>5. Neat(run[k], SubSeq(data, 1, k))
    BY <2>1, <2>2, <2>3, <2>4, StuffOne
  <2> QED BY <2>5
<1> HIDE DEF J
<1> HIDE DEF n
<1>6. 0..n \subseteq J
  BY <1>1, <1>4, <1>5, CountingUp
<1>7. Neat(run[n], SubSeq(data, 1, n))
  BY <1>1, <1>6 DEF J
<1>8. SubSeq(data, 1, n) = data
  BY DEF n
<1> QED BY <1>2, <1>7, <1>8

-----------------------------------------------------------------------------
(* Whole frames.                                                           *)

LEMMA CrcIs ==
    ASSUME NEW data \in Seq(Byte)
    PROVE  Crc(data) \in Seq(Byte) /\ Len(Crc(data)) = 1
<1> DEFINE n == Len(data)
           D == DOMAIN data
           Op(sum, b) == (sum + b) % 256
           step == [p \in Byte \X (1..n) |-> Op(p[1], data[p[2]])]
           Folds(g) == g = [s \in SUBSET D |->
                      IF s = {} THEN 0 ELSE Op(g[s \ {Max(s)}], data[Max(s)])]
           iter == CHOOSE iter : Folds(iter)
<1>1. Crc(data) = <<iter[D]>>
  BY DEF Crc, FoldLeft, MapThenFoldSet
<1>2. D = 1..n /\ n \in Nat /\ 0 \in Byte /\ \A k \in 1..n : data[k] \in Byte
  <2>1. D = 1..n /\ n \in Nat /\ \A k \in 1..n : data[k] \in Byte
    OBVIOUS
  <2>2. 0 \in Byte
    BY DEF Byte
  <2> QED BY <2>1, <2>2
<1>3. \A sum \in Byte, b \in Byte : Op(sum, b) \in Byte
  BY DEF Byte
<1> HIDE DEF Op
<1>4. step \in [Byte \X (1..n) -> Byte]
  BY <1>2, <1>3
<1>5. PICK g \in [SUBSET (1..n) -> Byte] : FoldsLeft(g, n, 0, step)
  <2> HIDE DEF n, step
  <2> QED BY <1>2, <1>4, LeftFoldExists
<1>6. ASSUME NEW s \in (SUBSET D) \ {{}}
      PROVE  g[s] = Op(g[s \ {Max(s)}], data[Max(s)])
  <2>1. Max(s) \in 1..n
    <3>1. s \in SUBSET (0..n) /\ s # {}
      BY <1>2
    <3> QED BY <1>2, <3>1, GreatestOf
  <2>2. g[s \ {Max(s)}] \in Byte
    BY <1>2, <1>5
  <2>3. g[s] = step[<<g[s \ {Max(s)}], Max(s)>>]
    BY <1>2, <1>5 DEF FoldsLeft
  <2> HIDE DEF n
  <2> QED BY <2>1, <2>2, <2>3
<1>7. Folds(g)
  <2>1. g = [s \in SUBSET D |-> g[s]] /\ g[{}] = 0
    BY <1>2, <1>5 DEF FoldsLeft
  <2>2. \A s \in SUBSET D :
          g[s] = IF s = {} THEN 0 ELSE Op(g[s \ {Max(s)}], data[Max(s)])
    BY <1>6, <2>1
  <2> QED BY <2>1, <2>2
<1> HIDE DEF Folds
<1>8. Folds(iter)
  BY <1>7
<1> HIDE DEF iter
<1>9. \A s \in SUBSET D :
        iter[s] = IF s = {} THEN 0 ELSE Op(iter[s \ {Max(s)}], data[Max(s)])
  BY <1>8 DEF Folds
<1> DEFINE I == {k \in 0..n : iter[1..k] \in Byte}
<1>10. 0 \in I
  <2>1. 1..0 = {} /\ 0 \in 0..n
    OBVIOUS
  <2> QED BY <1>2, <1>9, <2>1
<1>11. ASSUME NEW k \in 1..n, k - 1 \in I PROVE k \in I
  <2>1. 1..k \in SUBSET D
    BY <1>2
  <2>2. 1..k # {} /\ Max(1..k) = k /\ (1..k) \ {k} = 1..(k - 1)
    BY SMTT(30), PrefixStep
  <2>3. iter[1..k] = Op(iter[1..(k - 1)], data[k])
    <3> HIDE DEF D
    <3> QED BY <1>9, <2>1, <2>2
  <2>4. iter[1..k] \in Byte
    BY <1>2, <1>3, <1>11, <2>3
  <2> QED BY <2>4
<1> HIDE DEF I, n
<1>12. 0..n \subseteq I
  BY <1>2, <1>10, <1>11, CountingUp
<1>13. iter[D] \in Byte
  BY <1>2, <1>12 DEF I
<1> QED BY <1>1, <1>13

\* A payload the device may send.
Sendable(payload) == payload \in Seq(Byte) /\ Len(payload) =< MaxPayload

LEMMA BodyIs ==
    ASSUME NEW payload, Sendable(payload)
    PROVE  LET b == Body(payload)
               n == Len(payload) + 2
           IN  /\ b \in Seq(Byte) /\ Len(b) = n /\ b[1] = Len(payload)
               /\ Crc(SubSeq(b, 1, n - 1)) = SubSeq(b, n, n)
<1> DEFINE covered == <<Len(payload)>> \o payload
           n == Len(payload) + 2
           c == Crc(covered)
<1>1. payload \in Seq(Byte) /\ Len(payload) \in Byte
  <2>1. payload \in Seq(Byte) /\ Len(payload) \in Nat /\ Len(payload) =< MaxPayload
    BY DEF Sendable
  <2>2. MaxPayload \in 0..255
    BY MessageAssumption DEF Byte
  <2> DEFINE l == Len(payload)
  <2> HIDE DEF l
  <2>3. l \in Nat /\ l =< MaxPayload
    BY <2>1 DEF l
  <2>4. l \in 0..255
    BY <2>2, <2>3
  <2>5. Len(payload) \in 0..255
    BY <2>4 DEF l
  <2> QED BY <2>1, <2>5 DEF Byte
<1>2. /\ covered \in Seq(Byte) /\ Len(covered) = n - 1 /\ covered[1] = Len(payload)
      /\ n \in Nat /\ n >= 2
  BY <1>1
<1>3. c \in Seq(Byte) /\ Len(c) = 1
  BY <1>2, CrcIs
<1>4. Body(payload) = covered \o c
  BY DEF Body
<1> HIDE DEF covered, c, n
<1>5. /\ covered \o c \in Seq(Byte) /\ Len(covered \o c) = n
      /\ (covered \o c)[1] = covered[1] /\ SubSeq(covered \o c, 1, n - 1) = covered
      /\ SubSeq(covered \o c, n, n) = c
  <2> DEFINE b == covered \o c
  <2>1. /\ b \in Seq(Byte) /\ Len(b) = Len(covered) + Len(c)
        /\ \A i \in 1..Len(b) : b[i] = IF i =< Len(covered) THEN covered[i] ELSE c[i - Len(covered)]
    <3>1. covered \in Seq(Byte)
       BY <1>2
    <3>2. c \in Seq(Byte)
       BY <1>3
    <3>3. b \in Seq(Byte)
       BY <3>1, <3>2
    <3> QED BY <3>1, <3>2, ConcatProperties
  <2> HIDE DEF b
  <2>2. b \in Seq(Byte) /\ Len(b) = n
    BY <1>2, <1>3, <2>1
  <2>3. \A i \in 1..(n - 1) : b[i] = covered[i]
    BY <1>2, <1>3, <2>1
  <2>4. b[n] = c[1]
    BY <1>2, <1>3, <2>1
  <2>5. SubSeq(b, 1, n - 1) = covered
    BY <1>2, <2>2, <2>3
  <2>6. SubSeq(b, n, n) = c
    BY <1>2, <1>3, <2>2, <2>4
  <2>7. b[1] = covered[1]
    BY <1>2, <2>3
  <2> QED BY <2>2, <2>5, <2>6, <2>7 DEF b
<1> QED BY <1>2, <1>4, <1>5 DEF c, n

\* A frame begins at byte i of data: it has an end, and is accepted.
Framed(data, i) ==
    LET e == FrameEnd(data, i + 1)
    IN  e # 0 /\ data[e] = End /\ Verdict(SubSeq(data, i + 1, e - 1)) = "frames"

\* What the device sends is one frame.
LEMMA WireIs ==
    ASSUME NEW payload, Sendable(payload)
    PROVE  LET w == Wire(payload)
           IN  /\ w \in Seq(Byte) /\ w[1] = Start /\ \A i \in 2..Len(w) : w[i] # Start
               /\ FrameEnd(w, 2) = Len(w) /\ Framed(w, 1)
               /\ Len(w) \in 2..(2 * (MaxPayload + 3))
<1> DEFINE body == Body(payload)
           n == Len(payload) + 2
           s == Stuff(body)
           m == Len(s)
           w == Wire(payload)
<1>1. /\ body \in Seq(Byte) /\ Len(body) = n /\ body[1] = Len(payload)
      /\ Crc(SubSeq(body, 1, n - 1)) = SubSeq(body, n, n)
  BY BodyIs
<1>2. n \in Nat /\ n >= 2 /\ Len(payload) \in Nat /\ Len(payload) =< MaxPayload /\ MaxPayload \in Nat
  BY MessageAssumption DEF Sendable, Byte
<1> HIDE DEF body, n
<1>3. Neat(s, body)
  BY <1>1, StuffingIsUndone
<1>4. w = <<Start>> \o s \o <<End>>
  BY DEF Wire, body
<1> HIDE DEF s, w
<1>5. s \in Seq(Byte) /\ m \in Nat /\ m =< 2 * n
  BY <1>1, <1>3 DEF Neat
<1>6. /\ w \in Seq(Byte) /\ Len(w) = m + 2 /\ w[1] = Start /\ w[m + 2] = End
      /\ \A j \in 1..m : w[1 + j] = s[j]
      /\ SubSeq(w, 2, m + 1) = s
  BY <1>4, <1>5, ByteFacts
<1> HIDE DEF m, n
<1>7. \A i \in 2..(m + 1) : w[i] \notin {Start, End}
  <2> TAKE i \in 2..(m + 1)
  <2>1. i - 1 \in 1..m /\ 1 + (i - 1) = i /\ i - 1 \in DOMAIN s
    BY <1>5 DEF m
  <2> QED BY <1>3, <1>6, <2>1 DEF Neat
<1>8. ~Escaped(w, 2)[m + 2]
  <2> DEFINE p == 1
             q == 2
  <2>1. /\ p \in 1..(Len(s) + 1) /\ p \in p..(Len(s) + 1) /\ p + m =< Len(s) + 1
        /\ q \in 1..(Len(w) + 1) /\ q \in q..(Len(w) + 1) /\ q + m =< Len(w) + 1
    BY <1>5, <1>6 DEF m
  <2>2. SameBytes(s, p, w, q, m)
    <3> SUFFICES ASSUME NEW j \in 0..(m - 1) PROVE s[p + j] = w[q + j]
      BY DEF SameBytes
    <3>1. j + 1 \in 1..m /\ 1 + (j + 1) = q + j /\ p + j = j + 1
      BY <1>5
    <3> QED BY <1>6, <3>1
  <2>3. Escaped(s, p)[p] <=> Escaped(w, q)[q]
    BY <1>5, <1>6, <2>1, EscapedIs DEF FlagsAre
  <2> HIDE DEF p, q
  <2>4. SameFlags(Escaped(s, p), p, Escaped(w, q), q, m)
    BY <1>5, <1>6, <2>1, <2>2, <2>3, FlagsAgree
  <2>5. Escaped(s, p)[p + m] <=> Escaped(w, q)[q + m]
    BY <1>5, <2>4 DEF SameFlags
  <2>6. ~Escaped(s, 1)[m + 1]
    BY <1>3 DEF Neat, WellEscaped, m
  <2>7. 1 + m = m + 1 /\ 2 + m = m + 2
    BY <1>5
  <2> QED BY <2>5, <2>6, <2>7 DEF p, q
<1>9. FrameEnd(w, 2) = m + 2
  <2>1. 2 \in 1..(Len(w) + 1) /\ m + 2 \in 2..Len(w)
    BY <1>5, <1>6
  <2>2. Delimits(w, 2, m + 2)
    BY <1>6, <1>8 DEF Delimits
  <2>3. \A i \in 2..((m + 2) - 1) : ~Delimits(w, 2, i)
    BY <1>5, <1>7 DEF Delimits
  <2> QED BY <1>6, <2>1, <2>2, <2>3, FirstDelimiter
<1>10. Verdict(s) = "frames"
  <2>1. WellEscaped(s) /\ Unstuff(s) = body
    BY <1>3 DEF Neat
  <2>2. /\ ~(n < Header + 1) /\ ~(body[Header] > MaxPayload)
        /\ n = Header + body[Header] + CrcLen /\ n - CrcLen = n - 1
    BY <1>1, <1>2 DEF Header, CrcLen, n
  <2> QED BY <1>1, <2>1, <2>2 DEF Verdict
<1>11. Framed(w, 1)
  <2>1. 1 + 1 = 2 /\ (m + 2) - 1 = m + 1 /\ m + 2 # 0
    BY <1>5
  <2> QED BY <1>6, <1>9, <1>10, <2>1 DEF Framed
<1>12. \A i \in 2..Len(w) : w[i] # Start
  <2> TAKE i \in 2..Len(w)
  <2>1. CASE i = m + 2
    BY <1>6, <2>1, ByteFacts
  <2>2. CASE i # m + 2
    <3>1. i \in 2..(m + 1)
      BY <1>5, <1>6, <2>2
    <3> QED BY <1>7, <3>1
  <2> QED BY <2>1, <2>2
<1>13. Len(w) \in 2..(2 * (MaxPayload + 3))
  BY <1>2, <1>5, <1>6 DEF n
<1> QED BY <1>6, <1>9, <1>11, <1>12, <1>13 DEF w

-----------------------------------------------------------------------------
(* One call of parse_frames.                                               *)

\* What a call may find in data: as many frames as it counts, and no more
\* bytes of them than there are.
Findings(data) ==
    {r \in [frames : Seq(Seq(Byte)), consumed : Nat, stats : [Counters -> Nat]] :
        r.consumed =< Len(data) /\ r.stats["frames"] = Len(r.frames)}

LEMMA UnstuffType ==
    ASSUME NEW data \in Seq(Byte)
    PROVE  Unstuff(data) \in Seq(Byte)
<1>1. PICK run : Unstuffs(run, data) /\ Unstuff(data) = run[Len(data)]
  BY UnstuffIs
<1>2. Len(data) \in 0..Len(data)
  OBVIOUS
<1> QED BY <1>1, <1>2 DEF Unstuffs

LEMMA VerdictType == \A raw : Verdict(raw) \in Counters \cup {"none"}
BY DEF Verdict, Counters, Rejections

\* Counting a rejection leaves what was found as it is.
LEMMA RejectionCounts ==
    ASSUME NEW data, NEW r \in Findings(data), NEW c \in Rejections \cup {"none"}
    PROVE  /\ Counted(c, r) \in Findings(data)
           /\ Counted(c, r).frames = r.frames /\ Counted(c, r).consumed = r.consumed
BY DEF Findings, Counted, Counters, Rejections

LEMMA FrameCounts ==
    ASSUME NEW data \in Seq(Byte), NEW r \in Findings(data), NEW end \in 1..Len(data),
           NEW body \in Seq(Byte)
    PROVE  LET found == Returned(body, end, r)
           IN  /\ found \in Findings(data)
               /\ found.consumed = IF r.consumed = 0 THEN end ELSE r.consumed
               /\ \A c \in Rejections : found.stats[c] = r.stats[c]
<1> DEFINE found == Returned(body, end, r)
           F == Seq(Seq(Byte))
           fs == <<body>> \o r.frames
           cs == IF r.consumed = 0 THEN end ELSE r.consumed
           st == [r.stats EXCEPT !["frames"] = @ + 1]
<1>1. /\ r \in [frames : F, consumed : Nat, stats : [Counters -> Nat]]
      /\ r.consumed =< Len(data) /\ r.stats["frames"] = Len(r.frames)
  BY DEF Findings
<1>2. /\ r.stats \in [Counters -> Nat] /\ r.consumed \in Nat /\ r.frames \in F
      /\ "frames" \in Counters /\ \A c \in Rejections : c \in Counters /\ c # "frames"
  BY <1>1 DEF Counters, Rejections
<1>3. fs \in F /\ Len(fs) = Len(r.frames) + 1
  <2>1. <<body>> \in F
    OBVIOUS
  <2> QED BY <1>2, <2>1
<1>4. cs \in Nat /\ cs =< Len(data)
  BY <1>1, <1>2
<1>5. /\ st \in [Counters -> Nat] /\ st["frames"] = r.stats["frames"] + 1
      /\ \A c \in Rejections : st[c] = r.stats[c]
  BY <1>2
<1> HIDE DEF F
<1>6. found = [frames |-> fs, consumed |-> cs, stats |-> st]
  <2> DEFINE k == Counted("frames", r)
  <2>1. k = [r EXCEPT !.stats = st]
    BY DEF Counted
  <2>2. k = [frames |-> r.frames, consumed |-> r.consumed, stats |-> st]
    <3> HIDE DEF k, st
    <3> QED BY <1>1, <2>1
  <2>3. found = [k EXCEPT !.frames = <<body>> \o k.frames,
                          !.consumed = IF k.consumed = 0 THEN end ELSE k.consumed]
    BY Zenon DEF Returned
  <2> HIDE DEF k, st, found
  <2>4. /\ k.frames = r.frames /\ k.consumed = r.consumed /\ k.stats = st
        /\ k = [frames |-> k.frames, consumed |-> k.consumed, stats |-> k.stats]
    BY <2>2
  <2> HIDE DEF fs, cs
  <2>5. fs = <<body>> \o k.frames /\ cs = IF k.consumed = 0 THEN end ELSE k.consumed
    BY <2>4 DEF fs, cs
  <2>6. found = [k EXCEPT !.frames = fs, !.consumed = cs]
    BY <2>3, <2>5, Zenon
  <2> QED BY <2>4, <2>6
<1> HIDE DEF found, fs, cs, st
<1>7. found.frames = fs /\ found.consumed = cs /\ found.stats = st
  BY <1>6
<1>8. found \in [frames : F, consumed : Nat, stats : [Counters -> Nat]]
  BY <1>3, <1>4, <1>5, <1>6
<1>9. found \in Findings(data)
  BY <1>1, <1>3, <1>4, <1>5, <1>7, <1>8 DEF Findings, F
<1> QED BY <1>5, <1>7, <1>9 DEF found, cs

LEMMA NothingFound ==
    ASSUME NEW data \in Seq(Byte)
    PROVE  Nothing \in Findings(data)
<1>1. Nothing.frames = <<>> /\ Nothing.consumed = 0 /\ Nothing.stats = [c \in Counters |-> 0]
  BY DEF Nothing
<1>2. Nothing.stats["frames"] = 0 /\ Len(Nothing.frames) = 0
  BY <1>1 DEF Counters
<1> QED BY <1>1, <1>2 DEF Nothing, Findings

LEMMA FoundType ==
    ASSUME NEW data \in Seq(Byte), NEW from, NEW i \in 1..(Len(data) + 1),
           \A j \in (i + 1)..(Len(data) + 1) : from[j] \in Findings(data)
    PROVE  FoundAt(data, from, i) \in Findings(data)
<1> DEFINE e == FrameEnd(data, i + 1)
           raw == SubSeq(data, i + 1, e - 1)
<1>1. CASE i > Len(data)
  <2>1. FoundAt(data, from, i) = Nothing
    BY <1>1, Zenon DEF FoundAt
  <2> QED BY <2>1, NothingFound
<1>2. CASE ~(i > Len(data))
  <2>1. i \in 1..Len(data) /\ i + 1 \in (i + 1)..(Len(data) + 1) /\ i + 1 \in 1..(Len(data) + 1)
    BY <1>2
  <2>2. e = 0 \/ e \in (i + 1)..Len(data)
    BY <2>1, FrameEndIs DEF EndsAt
  <2> HIDE DEF e
  <2>3. from[i + 1] \in Findings(data)
    BY <2>1
  <2>4. CASE data[i] # Start \/ e = 0
    <3>1. FoundAt(data, from, i) \in {Nothing, from[i + 1]}
      BY <1>2, <2>4, Zenon DEF FoundAt, e
    <3> QED BY <2>3, <3>1, NothingFound
  <2>5. CASE data[i] = Start /\ e # 0 /\ (data[e] = Start \/ Verdict(raw) # "frames")
    <3>1. PICK c \in {"truncated", Verdict(raw)} :
            c \in Rejections \cup {"none"} /\ FoundAt(data, from, i) = Counted(c, from[i + 1])
      <4>1. CASE data[e] = Start
        <5>1. FoundAt(data, from, i) = Counted("truncated", from[i + 1])
          BY <1>2, <2>5, <4>1, Zenon DEF FoundAt, e
        <5> QED BY <5>1 DEF Rejections
      <4>2. CASE data[e] # Start
        <5>1. Verdict(raw) # "frames"
          BY <2>5, <4>2
        <5>2. FoundAt(data, from, i) = Counted(Verdict(raw), from[i + 1])
          BY <1>2, <2>5, <4>2, <5>1, Zenon DEF FoundAt, e, AfterReject
        <5>3. Verdict(raw) \in Rejections \cup {"none"}
          BY <5>1, VerdictType DEF Counters
        <5> QED BY <5>2, <5>3
      <4> QED BY <4>1, <4>2
    <3> QED BY <2>3, <3>1, RejectionCounts
  <2>6. CASE data[i] = Start /\ e # 0 /\ data[e] # Start /\ Verdict(raw) = "frames"
    <3>1. FoundAt(data, from, i) = Returned(Unstuff(raw), e, from[e + 1])
      BY <1>2, <2>6, Zenon DEF FoundAt, e
    <3>2. /\ e \in (i + 1)..Len(data) /\ e \in 1..Len(data)
          /\ e + 1 \in (i + 1)..(Len(data) + 1)
      BY <2>1, <2>2, <2>6
    <3>3. raw \in Seq(Byte)
      BY <2>1, <3>2
    <3> HIDE DEF raw
    <3>4. Unstuff(raw) \in Seq(Byte) /\ from[e + 1] \in Findings(data)
      BY <3>2, <3>3, UnstuffType
    <3> QED BY <3>1, <3>2, <3>4, FrameCounts
  <2> QED BY <2>4, <2>5, <2>6
<1> QED BY <1>1, <1>2

\* Only later places are looked at.
LEMMA FoundAgrees ==
    ASSUME NEW data \in Seq(Byte), NEW i \in 1..(Len(data) + 1), NEW from, NEW other,
           \A j \in (i + 1)..(Len(data) + 1) : from[j] = other[j]
    PROVE  FoundAt(data, from, i) = FoundAt(data, other, i)
<1> DEFINE e == FrameEnd(data, i + 1)
<1>1. CASE i > Len(data)
  BY <1>1, Zenon DEF FoundAt
<1>2. CASE ~(i > Len(data))
  <2>1. i \in 1..Len(data) /\ i + 1 \in (i + 1)..(Len(data) + 1) /\ i + 1 \in 1..(Len(data) + 1)
    BY <1>2
  <2>2. e = 0 \/ e \in (i + 1)..Len(data)
    BY <2>1, FrameEndIs DEF EndsAt
  <2> HIDE DEF e
  <2>3. e # 0 => e + 1 \in (i + 1)..(Len(data) + 1)
    BY <2>1, <2>2
  <2>4. from[i + 1] = other[i + 1] /\ (e # 0 => from[e + 1] = other[e + 1])
    BY <2>1, <2>3
  <2> QED BY <1>2, <2>4, Zenon DEF FoundAt, AfterReject, e
<1> QED BY <1>1, <1>2

\* from has what is found from each place on.
Searches(from, data) ==
    \A i \in 1..(Len(data) + 1) :
        from[i] \in Findings(data) /\ from[i] = FoundAt(data, from, i)

LEMMA ParseIs ==
    ASSUME NEW data \in Seq(Byte)
    PROVE  \E from : Searches(from, data) /\ Parse(data) = from[1]
<1> DEFINE n == Len(data) + 1
           S == Findings(data)
           step == [p \in [1..n -> S] \X (1..n) |-> FoundAt(data, p[1], p[2])]
           Solves(f) == f = [index \in 1..(Len(data) + 1) |-> FoundAt(data, f, index)]
           from == CHOOSE from : Solves(from)
<1>1. Parse(data) = from[1]
  BY Zenon DEF Parse
<1>2. n \in Nat \ {0} /\ Nothing \in S /\ S # {}
  BY NothingFound
<1>3. \A f \in [1..n -> S], i \in 1..n : FoundAt(data, f, i) \in S
  <2> TAKE f \in [1..n -> S], i \in 1..n
  <2>1. \A j \in (i + 1)..(Len(data) + 1) : f[j] \in Findings(data)
    OBVIOUS
  <2> QED BY <2>1, FoundType
<1>4. step \in [[1..n -> S] \X (1..n) -> S]
  <2> HIDE DEF S, n
  <2> QED BY <1>3
<1>5. \A f \in [1..n -> S], i \in 1..n : step[<<f, i>>] = FoundAt(data, f, i)
  <2> HIDE DEF S, n
  <2> QED OBVIOUS
<1>6. LooksAhead(step, n, S)
  <2> SUFFICES ASSUME NEW i \in 1..n, NEW g \in [1..n -> S], NEW h \in [1..n -> S],
                      \A j \in (i + 1)..n : g[j] = h[j]
               PROVE  step[<<g, i>>] = step[<<h, i>>]
    <3> HIDE DEF step, n, S
    <3> QED BY DEF LooksAhead
  <2>1. FoundAt(data, g, i) = FoundAt(data, h, i)
    BY FoundAgrees
  <2> HIDE DEF step, n, S
  <2> QED BY <1>5, <2>1
<1>7. PICK f \in [1..n -> S] : RunsBack(f, n, step)
  <2> HIDE DEF n, S, step
  <2> QED BY <1>2, <1>4, <1>6, RunBackExists
<1>8. \A i \in 1..n : f[i] = FoundAt(data, f, i)
  <2> HIDE DEF n, S, step
  <2> QED BY <1>5, <1>7 DEF RunsBack
<1>9. Solves(f)
  <2>1. f = [index \in 1..n |-> f[index]]
    OBVIOUS
  <2> QED BY <1>8, <2>1
<1> HIDE DEF Solves
<1>10. Solves(from)
  BY <1>9
<1> HIDE DEF from
<1>11. \A i \in 1..n : from[i] = FoundAt(data, from, i)
  BY <1>10 DEF Solves
<1> DEFINE I == {m \in 0..n : \A i \in (n - m + 1)..n : from[i] \in S}
<1>12. 0 \in I
  BY <1>2
<1>13. ASSUME NEW m \in 1..n, m - 1 \in I PROVE m \in I
  <2> DEFINE at == n - m + 1
  <2>1. at \in 1..n /\ \A j \in (at + 1)..n : from[j] \in S
    BY <1>2, <1>13
  <2>2. from[at] \in S
    <3> HIDE DEF at
    <3> QED BY <1>11, <2>1, FoundType
  <2> HIDE DEF S
  <2>3. \A i \in at..n : i = at \/ i \in (at + 1)..n
    BY <1>2
  <2> QED BY <2>1, <2>2, <2>3
<1> HIDE DEF I, S
<1>14. 0..n \subseteq I
  BY <1>2, <1>12, <1>13, CountingUp
<1>15. \A i \in 1..n : from[i] \in S
  <2>1. n \in I /\ (n - n + 1)..n = 1..n
    BY <1>2, <1>14
  <2> QED BY <2>1 DEF I
<1>16. Searches(from, data)
  BY <1>11, <1>15 DEF Searches, S
<1> QED BY <1>1, <1>16

-----------------------------------------------------------------------------
(* Types.                                                                  *)

\* What is in the buffer was received last.
Kept ==
    /\ Len(buf) =< Len(received)
    /\ \A i \in 1..Len(buf) : buf[i] = received[Len(received) - Len(buf) + i]

TypeInv ==
    /\ wire \in Seq(Byte) /\ buf \in Seq(Byte) /\ received \in Seq(Byte)
    /\ frames \in Seq(Seq(Byte))
    /\ stats \in [Counters -> Nat] /\ stats["frames"] = Len(frames)
    /\ Kept
    /\ sent \in 0..MaxSent /\ faults \in 0..MaxFaults

LEMMA KeptIsSuffix ==
    ASSUME NEW s \in Seq(Byte), NEW t \in Seq(Byte), Len(s) =< Len(t),
           \A i \in 1..Len(s) : s[i] = t[Len(t) - Len(s) + i]
    PROVE  IsSuffix(s, t)
<1> DEFINE m == Len(s)
           n == Len(t)
           rs == Reverse(s)
           rt == Reverse(t)
<1>1. m \in Nat /\ n \in Nat /\ m =< n
  OBVIOUS
<1>2. /\ rs \in Seq(Byte) /\ Len(rs) = m /\ \A i \in 1..m : rs[i] = s[m - i + 1]
      /\ rt \in Seq(Byte) /\ Len(rt) = n /\ \A i \in 1..n : rt[i] = t[n - i + 1]
  BY DEF Reverse
<1>3. ASSUME NEW i \in 1..m PROVE rs[i] = rt[i]
  <2>1. m - i + 1 \in 1..m /\ n - m + (m - i + 1) = n - i + 1
    OBVIOUS
  <2>2. s[m - i + 1] = t[n - m + (m - i + 1)]
    BY <2>1
  <2>3. i \in 1..n
    OBVIOUS
  <2> HIDE DEF rs, rt, m, n
  <2> QED BY <1>2, <2>1, <2>2, <2>3
<1> HIDE DEF rs, rt, m, n
<1>4. SubSeq(rs, 1, m) = SubSeq(rt, 1, m)
  BY <1>1, <1>2, <1>3
<1>5. IsPrefix(rs, rt)
  BY <1>1, <1>2, <1>4 DEF IsPrefix
<1> QED BY <1>5 DEF IsSuffix, rs, rt

LEMMA MessageIs ==
    ASSUME NEW p \in Messages
    PROVE  Sendable(p) /\ Wire(p) \in Seq(Byte) /\ Len(Wire(p)) >= 2
<1>1. p \in Seq(Alphabet) /\ Len(p) =< MaxPayload /\ Alphabet \subseteq Byte
  BY MessageAssumption, ByteFacts
<1>2. Sendable(p)
  BY <1>1 DEF Sendable
<1>3. MaxPayload \in Nat
  BY MessageAssumption DEF Byte
<1> QED BY <1>2, <1>3, WireIs

\* What one notification does.
LEMMA FeedIs ==
    ASSUME wire \in Seq(Byte), buf \in Seq(Byte), NEW n \in Chunks, Take(n)
    PROVE  LET chunk == SubSeq(wire, 1, n)
           IN  /\ n \in 1..Len(wire)
               /\ chunk \in Seq(Byte) /\ Len(chunk) = n
               /\ buf \o chunk \in Seq(Byte) /\ Parse(buf \o chunk) \in Findings(buf \o chunk)
               /\ wire' \in Seq(Byte) /\ chunk \o wire' = wire
<1> DEFINE chunk == SubSeq(wire, 1, n)
           data == buf \o chunk
<1>1. n \in 1..Len(wire) /\ wire' = SubSeq(wire, n + 1, Len(wire))
  BY MessageAssumption DEF Take
<1>2. /\ chunk \in Seq(Byte) /\ Len(chunk) = n /\ data \in Seq(Byte)
      /\ wire' \in Seq(Byte) /\ chunk \o wire' = wire
  BY <1>1
<1> HIDE DEF data, chunk
<1>3. PICK from : Searches(from, data) /\ Parse(data) = from[1]
  BY <1>2, ParseIs
<1>4. 1 \in 1..(Len(data) + 1)
  BY <1>2
<1>5. Parse(data) \in Findings(data)
  BY <1>3, <1>4 DEF Searches
<1> QED BY <1>1, <1>2, <1>5 DEF data, chunk

LEMMA TypeStep ==
    ASSUME TypeInv, [Next]_vars
    PROVE  TypeInv'
<1>1. CASE DeviceSends
  <2>1. PICK p \in Messages : wire' = wire \o Wire(p)
    BY <1>1 DEF DeviceSends
  <2>2. wire' \in Seq(Byte)
    BY <2>1, MessageIs DEF TypeInv
  <2>3. sent' \in 0..MaxSent
    BY <1>1, MessageAssumption DEF DeviceSends, TypeInv
  <2> QED BY <1>1, <2>2, <2>3 DEF DeviceSends, TypeInv, Kept
<1>2. CASE Feed
  <2>1. PICK n \in Chunks :
          LET chunk == SubSeq(wire, 1, n)
              found == Parse(buf \o chunk)
          IN  /\ Take(n)
              /\ frames' = frames \o found.frames
              /\ stats' = Count(found)
              /\ buf' = Remaining(buf \o chunk, found.consumed)
              /\ received' = received \o chunk
              /\ UNCHANGED <<sent, faults>>
    BY <1>2 DEF Feed
  <2> DEFINE chunk == SubSeq(wire, 1, n)
             data == buf \o chunk
             found == Parse(data)
             c == found.consumed
  <2>2. /\ Take(n) /\ frames' = frames \o found.frames /\ stats' = Count(found)
        /\ buf' = Remaining(data, c) /\ received' = received \o chunk
        /\ UNCHANGED <<sent, faults>>
    BY <2>1
  <2>3. /\ chunk \in Seq(Byte) /\ Len(chunk) = n /\ n \in Nat /\ data \in Seq(Byte)
        /\ found \in Findings(data) /\ wire' \in Seq(Byte)
    BY SMTT(30), <2>2, FeedIs DEF TypeInv
  <2> HIDE DEF chunk, found
  <2>4. /\ found.frames \in Seq(Seq(Byte)) /\ c \in Nat /\ c =< Len(data)
        /\ found.stats \in [Counters -> Nat] /\ found.stats["frames"] = Len(found.frames)
    BY <2>3 DEF Findings
  <2> HIDE DEF c
  <2>5. frames' \in Seq(Seq(Byte)) /\ Len(frames') = Len(frames) + Len(found.frames)
    BY <2>2, <2>4 DEF TypeInv
  <2>6. stats' \in [Counters -> Nat] /\ stats'["frames"] = Len(frames')
    <3>1. stats' = [k \in Counters |-> stats[k] + found.stats[k]]
      BY <2>2 DEF Count
    <3>2. stats \in [Counters -> Nat] /\ stats["frames"] = Len(frames) /\ "frames" \in Counters
      BY DEF TypeInv, Counters
    <3>3. stats' \in [Counters -> Nat]
      BY <2>4, <3>1, <3>2
    <3>4. (stats')["frames"] = stats["frames"] + found.stats["frames"]
      BY <3>1, <3>2
    <3> QED BY <2>4, <2>5, <3>2, <3>3, <3>4
  <2>7. Len(data) = Len(buf) + n /\ Len(received') = Len(received) + n /\ received' \in Seq(Byte)
    <3>1. buf \in Seq(Byte) /\ received \in Seq(Byte) /\ received' = received \o chunk
      BY <2>2 DEF TypeInv
    <3>2. chunk \in Seq(Byte) /\ Len(chunk) = n
      BY <2>3
    <3>3. Len(data) = Len(buf) + n
      BY <3>1, <3>2, ConcatProperties
    <3>4. received \o chunk \in Seq(Byte) /\ Len(received \o chunk) = Len(received) + n
      BY <3>1, <3>2, ConcatProperties
    <3> QED BY <3>1, <3>3, <3>4
  <2>8. /\ buf' \in Seq(Byte) /\ Len(buf') = Len(data) - c
        /\ \A i \in 1..Len(buf') : buf'[i] = data[c + i]
    <3>1. buf' = SubSeq(data, c + 1, Len(data)) /\ data \in Seq(Byte)
      BY <2>2, <2>3 DEF Remaining
    <3> HIDE DEF data
    <3> QED BY <2>4, <3>1
  <2>9. Kept'
    <3>1. Len(buf) \in Nat /\ Len(received) \in Nat /\ Len(buf) =< Len(received)
      BY DEF TypeInv, Kept
    <3>2. Len(buf') =< Len(received')
      BY <2>3, <2>4, <2>7, <2>8, <3>1
    <3>3. ASSUME NEW i \in 1..Len(buf')
          PROVE  buf'[i] = received'[Len(received') - Len(buf') + i]
      <4> DEFINE k == c + i
                 at == Len(received) - Len(buf) + k
      <4>1. /\ k \in 1..(Len(buf) + n) /\ Len(received') - Len(buf') + i = at
            /\ at \in 1..(Len(received) + n)
        BY <2>3, <2>4, <2>7, <2>8, <3>1
      <4>2. buf'[i] = data[k]
        BY <2>8
      <4> HIDE DEF k
      <4>3. CASE k =< Len(buf)
        <5>1. data[k] = buf[k] /\ k \in 1..Len(buf)
          BY <2>3, <4>1, <4>3 DEF TypeInv
        <5>2. buf[k] = received[at] /\ at \in 1..Len(received)
          BY <3>1, <4>1, <4>3, <5>1 DEF TypeInv, Kept
        <5>3. received'[at] = received[at]
          BY <2>2, <2>3, <5>2 DEF TypeInv
        <5> QED BY <4>1, <4>2, <5>1, <5>2, <5>3
      <4>4. CASE k > Len(buf)
        <5>1. data[k] = chunk[k - Len(buf)]
          BY SMTT(30), <2>3, <4>1, <4>4 DEF TypeInv
        <5>2. received'[at] = chunk[at - Len(received)]
          <6>1. at > Len(received) /\ received \in Seq(Byte)
            BY <3>1, <4>1, <4>4 DEF TypeInv
          <6> HIDE DEF at
          <6> QED BY <2>2, <2>3, <4>1, <6>1
        <5>3. k - Len(buf) = at - Len(received)
          BY <3>1, <4>1
        <5> QED BY <4>1, <4>2, <5>1, <5>2, <5>3
      <4> QED BY <3>1, <4>1, <4>3, <4>4
    <3> QED BY <3>2, <3>3 DEF Kept
  <2> QED BY <2>2, <2>3, <2>5, <2>6, <2>7, <2>8, <2>9 DEF TypeInv
<1>3. CASE NotificationLost
  <2>1. PICK n \in Chunks : Take(n)
    BY <1>3 DEF NotificationLost
  <2>2. wire' \in Seq(Byte)
    BY <2>1, FeedIs DEF TypeInv
  <2>3. faults' \in 0..MaxFaults
    BY <1>3, MessageAssumption DEF NotificationLost, TypeInv
  <2> QED BY <1>3, <2>2, <2>3 DEF NotificationLost, TypeInv, Kept
<1>4. CASE ByteDamaged
  <2>1. PICK b \in Noise : wire' = <<b>> \o Tail(wire)
    BY <1>4 DEF ByteDamaged
  <2>2. b \in Byte /\ wire # <<>> /\ wire \in Seq(Byte)
    BY <1>4, ByteFacts DEF ByteDamaged, TypeInv
  <2>3. Tail(wire) \in Seq(Byte) /\ <<b>> \in Seq(Byte)
    BY <2>2
  <2>4. wire' \in Seq(Byte)
    BY <2>1, <2>3
  <2>5. faults' \in 0..MaxFaults
    BY <1>4, MessageAssumption DEF ByteDamaged, TypeInv
  <2> QED BY <1>4, <2>4, <2>5 DEF ByteDamaged, TypeInv, Kept
<1>5. CASE UNCHANGED vars
  BY <1>5 DEF vars, TypeInv, Kept
<1> QED BY <1>1, <1>2, <1>3, <1>4, <1>5 DEF Next

LEMMA TypeStart ==
    ASSUME Init
    PROVE  TypeInv
<1>1. PICK p \in Messages : \E cut \in 2..(Len(Wire(p)) + 1) :
                              wire = SubSeq(Wire(p), cut, Len(Wire(p)))
  BY DEF Init
<1>2. Wire(p) \in Seq(Byte)
  BY MessageIs
<1>3. wire \in Seq(Byte)
  BY <1>1, <1>2
<1>4. stats \in [Counters -> Nat] /\ stats["frames"] = 0
  BY DEF Init, Counters
<1>5. buf = <<>> /\ frames = <<>> /\ received = <<>> /\ sent = 0 /\ faults = 0
  BY DEF Init
<1>6. <<>> \in Seq(Byte) /\ <<>> \in Seq(Seq(Byte)) /\ Len(<<>>) = 0
  OBVIOUS
<1> QED BY <1>3, <1>4, <1>5, <1>6, MessageAssumption DEF TypeInv, Kept

LEMMA TypeInvHolds == Spec => []TypeInv
<1>1. Init => TypeInv
  BY TypeStart
<1>2. TypeInv /\ [Next]_vars => TypeInv'
  BY TypeStep
<1> QED BY <1>1, <1>2, PTL DEF Spec

\* Every variable keeps its type; the frames returned are as many as are
\* counted; and what the buffer holds is the end of what was received.
THEOREM ParserTypeCorrect == Spec => []TypeOK
<1>1. TypeInv => TypeOK
  <2> SUFFICES ASSUME TypeInv PROVE TypeOK
    OBVIOUS
  <2>1. IsSuffix(buf, received)
    BY KeptIsSuffix DEF TypeInv, Kept
  <2> QED BY <2>1 DEF TypeInv, TypeOK
<1> QED BY <1>1, TypeInvHolds, PTL

-----------------------------------------------------------------------------
(* A stretch of a stream.                                                  *)

\* part is what data holds after its first c bytes, or the beginning of that.
Window(part, data, c) ==
    /\ part \in Seq(Byte) /\ data \in Seq(Byte) /\ c \in Nat /\ c + Len(part) =< Len(data)
    /\ \A i \in 1..Len(part) : part[i] = data[c + i]

LEMMA ConcatWindows ==
    ASSUME NEW s \in Seq(Byte), NEW t \in Seq(Byte)
    PROVE  /\ s \o t \in Seq(Byte) /\ Len(s \o t) = Len(s) + Len(t)
           /\ Window(s, s \o t, 0) /\ Window(t, s \o t, Len(s))
<1> DEFINE d == s \o t
<1>1. /\ d \in Seq(Byte) /\ Len(d) = Len(s) + Len(t)
      /\ \A i \in 1..Len(d) : d[i] = IF i =< Len(s) THEN s[i] ELSE t[i - Len(s)]
  BY ConcatProperties
<1> HIDE DEF d
<1>2. Len(s) \in Nat /\ Len(t) \in Nat
  OBVIOUS
<1>3. \A i \in 1..Len(s) : s[i] = d[0 + i]
  BY <1>1, <1>2
<1>4. \A i \in 1..Len(t) : t[i] = d[Len(s) + i]
  BY <1>1, <1>2
<1> QED BY <1>1, <1>2, <1>3, <1>4 DEF Window, d

LEMMA SuffixWindow ==
    ASSUME NEW s \in Seq(Byte), NEW c \in 0..Len(s)
    PROVE  /\ Window(SubSeq(s, c + 1, Len(s)), s, c)
           /\ Len(SubSeq(s, c + 1, Len(s))) = Len(s) - c
<1> DEFINE r == SubSeq(s, c + 1, Len(s))
<1>1. r \in Seq(Byte) /\ Len(r) = Len(s) - c /\ \A i \in 1..Len(r) : r[i] = s[c + i]
  BY SMTT(30)
<1> HIDE DEF r
<1> QED BY <1>1 DEF Window, r

\* The frame after byte a of data is the one after byte b of more.
SameFrame(data, a, more, b) ==
    /\ FrameEnd(more, b + 1) = FrameEnd(data, a + 1) - a + b
    /\ Framed(data, a) <=> Framed(more, b)

\* The bytes two streams have in common hold the same frame.
LEMMA FramedAgrees ==
    ASSUME NEW data \in Seq(Byte), NEW more \in Seq(Byte), NEW a \in Nat, NEW b \in Nat,
           NEW m \in Nat, a + m =< Len(data), b + m =< Len(more),
           \A j \in 1..m : data[a + j] = more[b + j],
           FrameEnd(data, a + 1) \in (a + 1)..(a + m)
    PROVE  SameFrame(data, a, more, b)
<1> DEFINE e == FrameEnd(data, a + 1)
           f == FrameEnd(more, b + 1)
           raw == SubSeq(data, a + 1, e - 1)
           raw2 == SubSeq(more, b + 1, f - 1)
<1>1. e \in (a + 1)..(a + m) /\ f = e - a + b
  BY ZenonT(30), FrameEndAgrees
<1> HIDE DEF e, f
<1>2. data[e] = more[f] /\ e # 0 /\ f # 0
  <2> DEFINE d == e - a
  <2>1. d \in 1..m /\ a + d = e /\ b + d = f /\ e # 0 /\ f # 0
    BY <1>1
  <2> HIDE DEF d
  <2>2. data[a + d] = more[b + d]
    BY <2>1
  <2> QED BY <2>1, <2>2
<1>3. raw = raw2
  <2>1. raw \in Seq(Byte) /\ Len(raw) = e - 1 - a /\ \A j \in 1..Len(raw) : raw[j] = data[a + j]
    BY <1>1
  <2>2. raw2 \in Seq(Byte) /\ Len(raw2) = e - 1 - a /\ \A j \in 1..Len(raw2) : raw2[j] = more[b + j]
    BY <1>1
  <2>3. \A j \in 1..(e - 1 - a) : data[a + j] = more[b + j]
    BY SMTT(30), <1>1
  <2>4. Len(raw) = Len(raw2) /\ \A j \in 1..Len(raw) : raw[j] = raw2[j]
    <3> HIDE DEF raw, raw2
    <3> QED BY <2>1, <2>2, <2>3
  <2> HIDE DEF raw, raw2
  <2> QED BY <2>1, <2>2, <2>4, SeqEqual
<1>4. Framed(data, a) <=> Framed(more, b)
  BY <1>2, <1>3 DEF Framed, e, f
<1> QED BY <1>1, <1>4 DEF SameFrame, e, f

\* A frame in a window is the frame of the whole stream at that place.
LEMMA WindowFrames ==
    ASSUME NEW part, NEW data, NEW c, Window(part, data, c), NEW i \in 1..Len(part)
    PROVE  /\ FrameEnd(part, i + 1) # 0 =>
                 /\ FrameEnd(data, c + i + 1) = FrameEnd(part, i + 1) + c
                 /\ Framed(part, i) <=> Framed(data, c + i)
           /\ FrameEnd(data, c + i + 1) \in (c + i + 1)..(c + Len(part)) =>
                 /\ FrameEnd(part, i + 1) = FrameEnd(data, c + i + 1) - c
                 /\ Framed(part, i) <=> Framed(data, c + i)
<1> DEFINE n == Len(part)
           m == n - i
           k == c + i
           e == FrameEnd(part, i + 1)
           f == FrameEnd(data, k + 1)
<1>1. /\ part \in Seq(Byte) /\ data \in Seq(Byte) /\ c \in Nat /\ n \in Nat
      /\ c + n =< Len(data) /\ \A j \in 1..n : part[j] = data[c + j]
  BY DEF Window
<1>2. /\ i \in Nat /\ m \in Nat /\ k \in Nat /\ i + m = n /\ k + m = c + n
      /\ i + m =< Len(part) /\ k + m =< Len(data)
  BY <1>1
<1>3. ASSUME NEW j \in 1..m PROVE part[i + j] = data[k + j]
  <2>1. i + j \in 1..n /\ c + (i + j) = k + j
    BY <1>1
  <2> QED BY <1>1, <2>1
<1>4. e # 0 => e \in (i + 1)..(i + m)
  <2>1. i + 1 \in 1..(Len(part) + 1)
    BY <1>1
  <2> HIDE DEF m
  <2> QED BY <1>1, <1>2, <2>1, FrameEndIs DEF EndsAt
<1> HIDE DEF n, m, k
<1>5. ASSUME e # 0
      PROVE  f = e + c /\ (Framed(part, i) <=> Framed(data, k))
  <2>1. e \in (i + 1)..(i + m)
    BY <1>4, <1>5
  <2>2. SameFrame(part, i, data, k)
    BY <1>1, <1>2, <1>3, <2>1, FramedAgrees
  <2>3. f = e - i + k /\ (Framed(part, i) <=> Framed(data, k))
    BY <2>2 DEF SameFrame
  <2> HIDE DEF e, f
  <2> QED BY <1>1, <1>2, <2>1, <2>3 DEF k
<1>6. ASSUME f \in (k + 1)..(k + m)
      PROVE  e = f - c /\ (Framed(part, i) <=> Framed(data, k))
  <2>1. \A j \in 1..m : data[k + j] = part[i + j]
    BY <1>3
  <2>2. SameFrame(data, k, part, i)
    BY <1>1, <1>2, <1>6, <2>1, FramedAgrees
  <2>3. e = f - k + i /\ (Framed(part, i) <=> Framed(data, k))
    BY <2>2 DEF SameFrame
  <2> HIDE DEF e, f
  <2> QED BY <1>1, <1>2, <1>6, <2>3 DEF k
<1>7. k = c + i /\ k + m = c + Len(part)
  BY <1>2 DEF k, n
<1> QED BY <1>5, <1>6, <1>7

-----------------------------------------------------------------------------
(* A healthy stream.                                                       *)

\* No frame the device sends is longer than Longest.
LEMMA LongestIs ==
    /\ Longest \in Nat \ {0}
    /\ \A p \in Messages : Len(Wire(p)) =< Longest
<1> DEFINE P == BoundedSeq(Alphabet, MaxPayload)
           L == {Len(Whole[b]) : b \in Bodies}
           n == 2 * (MaxPayload + 3)
           Bound(x) == \A b \in Bodies : Len(Whole[b]) =< x
<1>1. MaxPayload \in Nat /\ n \in Nat
  BY MessageAssumption DEF Byte
<1>2. P = UNION {[1..m -> Alphabet] : m \in 0..MaxPayload}
  BY DEF BoundedSeq, SeqOf
<1>3. <<>> \in P
  <2>1. <<>> \in [1..0 -> Alphabet] /\ 0 \in 0..MaxPayload
    BY <1>1
  <2> QED BY <1>2, <2>1
<1>4. \A p \in P : Sendable(p)
  <2> TAKE p \in P
  <2>1. PICK m \in 0..MaxPayload : p \in [1..m -> Alphabet]
    BY <1>2
  <2>2. p \in [1..m -> Byte] /\ m \in Nat
    BY <1>1, <2>1, ByteFacts
  <2>3. p \in Seq(Byte) /\ Len(p) = m
    BY <2>2
  <2> QED BY <1>1, <2>1, <2>3 DEF Sendable
<1>5. \A p \in Messages : p \in P
  <2> TAKE p \in Messages
  <2>1. p \in Seq(Alphabet) /\ Len(p) =< MaxPayload
    BY MessageAssumption
  <2>2. p \in [1..Len(p) -> Alphabet] /\ Len(p) \in 0..MaxPayload
    BY <1>1, <2>1
  <2> QED BY <1>2, <2>2
<1> HIDE DEF P
<1>6. \A p \in P : Body(p) \in Bodies /\ Whole[Body(p)] = Wire(p)
  BY DEF Bodies, Whole, Wire, P
<1>7. \A b \in Bodies : \E p \in P : b = Body(p)
  BY DEF Bodies, P
<1>8. \A p \in P : Len(Wire(p)) \in 2..n
  BY <1>4, WireIs
<1>9. \A b \in Bodies : Len(Whole[b]) \in 2..n
  BY <1>6, <1>7, <1>8
<1>10. L \in SUBSET (0..n) /\ L # {}
  <2>1. \A b \in Bodies : Len(Whole[b]) \in 0..n
    BY <1>9
  <2> HIDE DEF n
  <2>2. L \in SUBSET (0..n)
    BY <2>1
  <2>3. Body(<<>>) \in Bodies
    BY <1>3, <1>6
  <2> QED BY <2>2, <2>3
<1> HIDE DEF n
<1>11. \E x \in L : Bound(x)
  <2>1. Max(L) \in L /\ \A y \in L : Max(L) >= y
    <3> HIDE DEF L
    <3> QED BY <1>1, <1>10, GreatestOf
  <2>2. Max(L) \in Nat
    BY <1>1, <1>10, <2>1
  <2>3. \A b \in Bodies : Len(Whole[b]) \in L /\ Len(Whole[b]) \in Nat
    BY <1>1, <1>9
  <2>4. Bound(Max(L))
    BY <2>1, <2>2, <2>3
  <2> QED BY <2>1, <2>4
<1>12. Longest \in L /\ Bound(Longest)
  BY <1>11, Zenon DEF Longest
<1>13. Longest \in Nat \ {0}
  BY <1>1, <1>9, <1>12
<1>14. ASSUME NEW p \in Messages PROVE Len(Wire(p)) =< Longest
  <2>1. Body(p) \in Bodies /\ Whole[Body(p)] = Wire(p)
    BY <1>5, <1>6
  <2> QED BY <1>12, <2>1
<1> QED BY <1>13, <1>14

\* A stream nothing was lost of: a beginning cut off, and whole frames one
\* after the other.
Tiled(data) ==
    /\ data \in Seq(Byte)
    /\ \A i \in DOMAIN data : data[i] = Start =>
          LET e == FrameEnd(data, i + 1)
          IN  /\ Framed(data, i) /\ e < i + Longest
              /\ e = Len(data) \/ data[e + 1] = Start
    /\ \A i \in DOMAIN data : (\A j \in 1..i : data[j] # Start) => i < Longest

\* A message sent behind such a stream continues it.
LEMMA TiledAppend ==
    ASSUME NEW data, Tiled(data), NEW p \in Messages
    PROVE  Tiled(data \o Wire(p))
<1> DEFINE w == Wire(p)
           d == data \o w
           n == Len(data)
<1>1. /\ w \in Seq(Byte) /\ w[1] = Start /\ \A i \in 2..Len(w) : w[i] # Start
      /\ FrameEnd(w, 1 + 1) = Len(w) /\ Framed(w, 1) /\ Len(w) \in Nat /\ Len(w) >= 2
      /\ Len(w) =< Longest /\ Longest \in Nat
  <2>1. Sendable(p)
    BY MessageIs
  <2>2. MaxPayload \in Nat
    BY MessageAssumption DEF Byte
  <2> QED BY <2>1, <2>2, WireIs, LongestIs
<1> HIDE DEF w
<1>2. data \in Seq(Byte) /\ n \in Nat
  BY DEF Tiled
<1>3. /\ d \in Seq(Byte) /\ Len(d) = n + Len(w) /\ Window(data, d, 0) /\ Window(w, d, n)
  BY <1>1, <1>2, ConcatWindows
<1> HIDE DEF d
<1>4. /\ \A i \in 1..n : data[i] = d[i]
      /\ \A i \in 1..Len(w) : w[i] = d[n + i]
  <2>1. \A i \in 1..n : data[i] = d[0 + i] /\ 0 + i = i
    BY <1>2, <1>3 DEF Window
  <2> QED BY <1>3, <2>1 DEF Window
<1>5. d[n + 1] = Start
  BY <1>1, <1>4
<1>6. ASSUME NEW i \in DOMAIN d, d[i] = Start
      PROVE  LET e == FrameEnd(d, i + 1)
             IN  /\ Framed(d, i) /\ e < i + Longest
                 /\ e = Len(d) \/ d[e + 1] = Start
  <2>1. CASE i \in 1..n
    <3> DEFINE e == FrameEnd(data, i + 1)
    <3>1. i \in DOMAIN data /\ data[i] = Start
      BY <1>2, <1>4, <1>6, <2>1
    <3>2. /\ Framed(data, i) /\ e # 0 /\ e < i + Longest
          /\ e = n \/ data[e + 1] = Start
      BY <3>1 DEF Tiled, Framed
    <3>3. e \in 1..n
      <4>1. i + 1 \in 1..(Len(data) + 1)
        BY <1>2, <2>1
      <4> QED BY <1>2, <3>2, <4>1, FrameEndIs DEF EndsAt
    <3>4. FrameEnd(d, 0 + i + 1) = e + 0 /\ (Framed(data, i) <=> Framed(d, 0 + i))
      BY <1>3, <2>1, <3>2, WindowFrames
    <3>5. 0 + i = i /\ e + 0 = e
      BY <2>1, <3>3
    <3>6. d[e + 1] = Start
      <4> HIDE DEF e
      <4>1. CASE e = n
        BY <1>5, <4>1
      <4>2. CASE e # n
        <5>1. e + 1 \in 1..n /\ data[e + 1] = Start
          BY <1>2, <3>2, <3>3, <4>2
        <5> QED BY <1>4, <5>1
      <4> QED BY <4>1, <4>2
    <3> HIDE DEF e
    <3> QED BY <3>2, <3>4, <3>5, <3>6
  <2>2. CASE i \notin 1..n
    <3>1. i = n + 1
      <4> DEFINE j == i - n
      <4>1. j \in 1..Len(w) /\ n + j = i
        BY <1>1, <1>2, <1>3, <2>2
      <4> HIDE DEF j
      <4>2. w[j] = Start
        BY <1>4, <1>6, <4>1
      <4>3. j = 1
        BY <1>1, <4>1, <4>2
      <4> QED BY <4>1, <4>3
    <3>2. 1 \in 1..Len(w) /\ FrameEnd(w, 1 + 1) # 0
      BY <1>1
    <3>3. FrameEnd(d, n + 1 + 1) = FrameEnd(w, 1 + 1) + n /\ (Framed(w, 1) <=> Framed(d, n + 1))
      BY <1>3, <3>2, WindowFrames
    <3>4. FrameEnd(d, i + 1) = Len(w) + n /\ Framed(d, i)
      BY <1>1, <3>1, <3>3
    <3> QED BY <1>1, <1>2, <1>3, <3>1, <3>4
  <2> QED BY <2>1, <2>2
<1>7. ASSUME NEW i \in DOMAIN d, \A j \in 1..i : d[j] # Start
      PROVE  i < Longest
  <2>1. n + 1 \notin 1..i /\ i \in 1..n
    BY <1>2, <1>3, <1>5, <1>7
  <2>2. i \in DOMAIN data /\ \A j \in 1..i : data[j] # Start
    BY <1>2, <1>4, <1>7, <2>1
  <2> QED BY <2>2 DEF Tiled
<1> QED BY <1>3, <1>6, <1>7 DEF Tiled, d, w

\* It stays one when whole frames, and what was before them, are taken off.
LEMMA TiledSuffix ==
    ASSUME NEW data, Tiled(data), NEW rest, NEW c, Window(rest, data, c),
           c + Len(rest) = Len(data),
           c # 0 => \E j \in DOMAIN data : data[j] = Start /\ c = FrameEnd(data, j + 1)
    PROVE  Tiled(rest)
<1> DEFINE n == Len(rest)
<1>1. /\ rest \in Seq(Byte) /\ data \in Seq(Byte) /\ n \in Nat /\ c \in Nat
      /\ Len(data) = c + n /\ Longest \in Nat
      /\ \A i \in 1..n : c + i \in DOMAIN data /\ rest[i] = data[c + i]
  <2>1. Longest \in Nat
    BY LongestIs
  <2> QED BY <2>1 DEF Window
<1>2. ASSUME NEW i \in DOMAIN rest, rest[i] = Start
      PROVE  LET e == FrameEnd(rest, i + 1)
             IN  /\ Framed(rest, i) /\ e < i + Longest
                 /\ e = Len(rest) \/ rest[e + 1] = Start
  <2> DEFINE k == c + i
             e == FrameEnd(rest, i + 1)
             f == FrameEnd(data, k + 1)
  <2>1. i \in 1..n /\ k \in DOMAIN data /\ data[k] = Start /\ k \in Nat
    BY <1>1, <1>2
  <2>2. /\ Framed(data, k) /\ f < k + Longest /\ f # 0
        /\ f = Len(data) \/ data[f + 1] = Start
    <3> HIDE DEF k
    <3> QED BY <2>1 DEF Tiled, Framed
  <2>3. f \in (k + 1)..(c + n)
    <3> HIDE DEF k
    <3>1. k + 1 \in 1..(Len(data) + 1)
      BY <1>1, <2>1
    <3> QED BY <1>1, <2>2, <3>1, FrameEndIs DEF EndsAt
  <2>4. FrameEnd(data, c + i + 1) \in (c + i + 1)..(c + Len(rest))
    BY <2>3
  <2>5. e = f - c /\ (Framed(rest, i) <=> Framed(data, k))
    BY <2>1, <2>4, WindowFrames
  <2> HIDE DEF e, f
  <2>6. e = n \/ rest[e + 1] = Start
    <3>1. CASE f = Len(data)
      BY <1>1, <2>5, <3>1
    <3>2. CASE f # Len(data)
      <4> DEFINE j == e + 1
      <4>1. data[f + 1] = Start
        BY <2>2, <3>2
      <4>2. f \in Nat /\ f > c /\ f < c + n
        <5>1. i \in Nat /\ c \in Nat /\ n \in Nat /\ f # c + n
          BY <1>1, <2>1, <3>2
        <5> HIDE DEF n
        <5> QED BY <2>3, <5>1
      <4>3. j \in 1..n /\ c + j = f + 1
        BY <1>1, <2>5, <4>2
      <4> HIDE DEF j
      <4>4. rest[j] = Start
        BY <1>1, <4>1, <4>3
      <4> QED BY <4>4 DEF j
    <3> QED BY <3>1, <3>2
  <2>7. e < i + Longest
    BY SMTT(30), <1>1, <2>1, <2>2, <2>3, <2>5
  <2> QED BY <2>2, <2>5, <2>6, <2>7 DEF e
<1>3. ASSUME NEW i \in DOMAIN rest, \A j \in 1..i : rest[j] # Start
      PROVE  i < Longest
  <2>1. i \in 1..n /\ 1 \in 1..n /\ rest[1] # Start
    BY <1>1, <1>3
  <2>2. data[c + 1] # Start
    BY <1>1, <2>1
  <2>3. c = 0
    <3>1. ASSUME c # 0 PROVE FALSE
      <4>1. PICK j \in DOMAIN data : data[j] = Start /\ c = FrameEnd(data, j + 1)
        BY <3>1
      <4>2. c = Len(data) \/ data[c + 1] = Start
        BY <4>1 DEF Tiled
      <4> QED BY <1>1, <2>1, <2>2, <4>2
    <3> QED BY <3>1
  <2>4. i \in DOMAIN data /\ \A j \in 1..i : data[j] # Start
    <3>1. i \in DOMAIN data
      BY <1>1, <2>1, <2>3
    <3>2. ASSUME NEW j \in 1..i PROVE data[j] # Start
      <4>1. j \in 1..n /\ c + j = j /\ rest[j] # Start
        BY <1>1, <1>3, <2>1, <2>3
      <4> QED BY <1>1, <4>1
    <3> QED BY <3>1, <3>2
  <2> QED BY <2>4 DEF Tiled
<1> QED BY <1>1, <1>2, <1>3 DEF Tiled

\* Every frame that ends in data is one.
Clean(data) ==
    \A i \in DOMAIN data : data[i] = Start /\ FrameEnd(data, i + 1) # 0 => Framed(data, i)

\* What is delivered of such a stream is clean.
LEMMA TiledIsClean ==
    ASSUME NEW data, Tiled(data), NEW part, Window(part, data, 0)
    PROVE  Clean(part)
<1> SUFFICES ASSUME NEW i \in DOMAIN part, part[i] = Start, FrameEnd(part, i + 1) # 0
             PROVE  Framed(part, i)
  BY DEF Clean
<1>1. i \in 1..Len(part) /\ 0 + i = i /\ i \in DOMAIN data /\ data[i] = Start
  <2>1. part \in Seq(Byte) /\ data \in Seq(Byte) /\ 0 + Len(part) =< Len(data)
    BY DEF Window
  <2>2. i \in 1..Len(part) /\ 0 + i = i /\ i \in DOMAIN data
    BY <2>1
  <2>3. part[i] = data[0 + i]
    BY <2>2 DEF Window
  <2> QED BY <2>2, <2>3
<1>2. Framed(part, i) <=> Framed(data, 0 + i)
  BY <1>1, WindowFrames
<1>3. Framed(data, i)
  BY <1>1 DEF Tiled
<1> QED BY <1>1, <1>2, <1>3

\* What is found in clean data from i on: nothing is rejected, what is
\* consumed ends with a frame, and no frame behind it has ended.
Settles(r, data, i) ==
    /\ \A c \in Rejections : r.stats[c] = 0
    /\ r.consumed # 0 => \E j \in i..Len(data) :
                            data[j] = Start /\ r.consumed = FrameEnd(data, j + 1)
    /\ \A j \in i..Len(data) :
         j > r.consumed /\ data[j] = Start => FrameEnd(data, j + 1) = 0

LEMMA SettlesAt ==
    ASSUME NEW data \in Seq(Byte), Clean(data), NEW from, Searches(from, data),
           NEW i \in 1..(Len(data) + 1),
           \A j \in (i + 1)..(Len(data) + 1) : Settles(from[j], data, j)
    PROVE  Settles(from[i], data, i)
<1> DEFINE e == FrameEnd(data, i + 1)
           raw == SubSeq(data, i + 1, e - 1)
           r == from[i]
           n == Len(data)
<1>1. r = FoundAt(data, from, i) /\ n \in Nat
  BY DEF Searches
<1>2. (\A c \in Rejections : Nothing.stats[c] = 0) /\ Nothing.consumed = 0
  BY DEF Nothing, Counters
<1>3. CASE i > n
  <2>1. r = Nothing
    BY <1>1, <1>3, Zenon DEF FoundAt
  <2>2. i..n = {}
    BY <1>1, <1>3
  <2> HIDE DEF r, n
  <2>3. Settles(Nothing, data, i)
    BY <1>2, <2>2 DEF Settles, n
  <2> QED BY <2>1, <2>3 DEF r
<1>4. CASE ~(i > n)
  <2>1. i \in 1..n /\ i + 1 \in (i + 1)..(n + 1) /\ i + 1 \in 1..(n + 1) /\ i \in DOMAIN data
    BY <1>4
  <2>2. e = 0 \/ (e \in (i + 1)..n /\ e + 1 \in (i + 1)..(n + 1))
    <3>1. e = 0 \/ e \in (i + 1)..n
      BY <2>1, FrameEndIs DEF EndsAt
    <3> HIDE DEF e
    <3> QED BY <2>1, <3>1
  <2>3. Settles(from[i + 1], data, i + 1)
    BY <2>1
  <2>4. \A j \in i..n : j = i \/ j \in (i + 1)..n
    BY <2>1
  <2>5. CASE (data[i] # Start \/ e = 0) /\ r = from[i + 1]
    <3>1. ASSUME NEW j \in i..n, j > r.consumed, data[j] = Start
          PROVE  FrameEnd(data, j + 1) = 0
      <4>1. CASE j = i
        BY <2>5, <3>1, <4>1
      <4>2. CASE j \in (i + 1)..n
        BY <2>3, <2>5, <3>1, <4>2 DEF Settles
      <4> QED BY <2>4, <4>1, <4>2
    <3>2. \A j \in (i + 1)..n : j \in i..n
      BY <2>1
    <3> HIDE DEF r
    <3>3. /\ \A c \in Rejections : r.stats[c] = 0
          /\ r.consumed # 0 => \E j \in i..n : data[j] = Start /\ r.consumed = FrameEnd(data, j + 1)
      BY <2>3, <2>5, <3>2, Zenon DEF Settles
    <3>4. Settles(r, data, i)
      BY <3>1, <3>3, Zenon DEF Settles
    <3> QED BY <3>4 DEF r
  <2>6. CASE data[i] = Start /\ e = 0 /\ r = Nothing
    <3>1. ASSUME NEW j \in i..n, data[j] = Start
          PROVE  FrameEnd(data, j + 1) = 0
      <4>1. CASE j = i
        BY <2>6, <4>1
      <4>2. CASE j \in (i + 1)..n
        BY <2>1, <2>6, <3>1, <4>2, NoneEnds
      <4> QED BY <2>4, <4>1, <4>2
    <3> HIDE DEF r
    <3>2. Settles(r, data, i)
      BY <1>2, <2>6, <3>1 DEF Settles
    <3> QED BY <3>2 DEF r
  <2>7. CASE data[i] = Start /\ e # 0
    <3>1. data[e] = End /\ Verdict(raw) = "frames"
      BY <2>1, <2>7 DEF Clean, Framed
    <3>2. data[e] # Start
      BY <3>1, ByteFacts
    <3> DEFINE rest == from[e + 1]
    <3>3. r = Returned(Unstuff(raw), e, rest)
      BY <1>1, <1>4, <2>7, <3>1, <3>2, Zenon DEF FoundAt
    <3>4. e \in (i + 1)..n /\ e + 1 \in (i + 1)..(n + 1) /\ e \in 1..n
      <4> HIDE DEF e
      <4> QED BY <2>1, <2>2, <2>7
    <3>5. Unstuff(raw) \in Seq(Byte)
      <4>1. raw \in Seq(Byte)
        BY <2>1, <3>4
      <4> QED BY <4>1, UnstuffType
    <3>6. rest \in Findings(data) /\ rest.consumed \in Nat /\ Settles(rest, data, e + 1)
      <4>1. e + 1 \in 1..(n + 1)
        BY <3>4
      <4>2. rest \in Findings(data)
        BY <4>1 DEF Searches
      <4> QED BY <3>4, <4>2 DEF Findings
    <3> HIDE DEF rest
    <3>7. /\ r.consumed = IF rest.consumed = 0 THEN e ELSE rest.consumed
          /\ \A c \in Rejections : r.stats[c] = rest.stats[c]
      <4> HIDE DEF e, raw
      <4> QED BY <3>3, <3>4, <3>5, <3>6, FrameCounts
    <3> HIDE DEF r
    <3>8. \A c \in Rejections : r.stats[c] = 0
      BY <3>6, <3>7 DEF Settles
    <3>9. /\ r.consumed \in Nat /\ r.consumed >= e
          /\ \E j \in i..n : data[j] = Start /\ r.consumed = FrameEnd(data, j + 1)
      <4>1. CASE rest.consumed = 0
        <5>1. r.consumed = e /\ i \in i..n
          BY <2>1, <3>7, <4>1
        <5> QED BY <2>7, <3>4, <5>1
      <4>2. CASE rest.consumed # 0
        <5>1. PICK j \in (e + 1)..n : data[j] = Start /\ rest.consumed = FrameEnd(data, j + 1)
          BY <3>6, <4>2 DEF Settles
        <5>2. j \in i..n /\ j + 1 \in 1..(n + 1) /\ j > e
          <6> HIDE DEF e
          <6> QED BY <2>1, <3>4
        <5>3. FrameEnd(data, j + 1) \in (j + 1)..n
          BY <4>2, <5>1, <5>2, FrameEndIs DEF EndsAt
        <5>4. r.consumed = FrameEnd(data, j + 1)
          BY <3>7, <4>2, <5>1
        <5> HIDE DEF e
        <5>5. r.consumed \in Nat /\ r.consumed >= e
          BY <3>4, <5>2, <5>3, <5>4
        <5> QED BY <5>1, <5>2, <5>4, <5>5
      <4> QED BY <4>1, <4>2
    <3>10. ASSUME NEW j \in i..n, j > r.consumed, data[j] = Start
           PROVE  FrameEnd(data, j + 1) = 0
      <4>1. j \in (e + 1)..n /\ j > rest.consumed
        <5> HIDE DEF e
        <5> QED BY <2>1, <3>4, <3>6, <3>7, <3>9, <3>10
      <4> QED BY <3>6, <3>10, <4>1 DEF Settles
    <3>11. Settles(r, data, i)
      BY <3>8, <3>9, <3>10 DEF Settles
    <3> QED BY <3>11 DEF r
  <2>8. r \in {Nothing, from[i + 1]} \/ (data[i] = Start /\ e # 0)
    BY <1>1, <1>4, Zenon DEF FoundAt
  <2>9. data[i] # Start => r = from[i + 1]
    BY <1>1, <1>4, Zenon DEF FoundAt
  <2> HIDE DEF e, r
  <2>10. \/ (data[i] # Start \/ e = 0) /\ r = from[i + 1]
         \/ data[i] = Start /\ e = 0 /\ r = Nothing
         \/ data[i] = Start /\ e # 0
    BY <2>8, <2>9
  <2> QED BY <2>5, <2>6, <2>7, <2>10 DEF e, r
<1> QED BY <1>3, <1>4

\* One call on clean data.
LEMMA CleanParse ==
    ASSUME NEW data \in Seq(Byte), Clean(data)
    PROVE  Settles(Parse(data), data, 1)
<1> DEFINE n == Len(data) + 1
<1>1. PICK from : Searches(from, data) /\ Parse(data) = from[1]
  BY ParseIs
<1> DEFINE I == {m \in 0..n : \A i \in (n - m + 1)..n : Settles(from[i], data, i)}
<1>2. n \in Nat \ {0}
  OBVIOUS
<1>3. 0 \in I
  BY <1>2
<1>4. ASSUME NEW m \in 1..n, m - 1 \in I PROVE m \in I
  <2> DEFINE at == n - m + 1
  <2>1. at \in 1..n /\ \A j \in (at + 1)..n : Settles(from[j], data, j)
    BY <1>2, <1>4
  <2>2. Settles(from[at], data, at)
    <3> HIDE DEF at
    <3> QED BY <1>1, <2>1, SettlesAt
  <2>3. m \in 0..n /\ \A i \in at..n : i = at \/ i \in (at + 1)..n
    BY <1>2
  <2> HIDE DEF n
  <2> QED BY <2>1, <2>2, <2>3, Zenon
<1> HIDE DEF I, n
<1>5. 0..n \subseteq I
  BY <1>2, <1>3, <1>4, CountingUp
<1>6. n \in I /\ 1 \in (n - n + 1)..n
  BY <1>2, <1>5
<1>7. Settles(from[1], data, 1)
  BY <1>6 DEF I
<1> QED BY <1>1, <1>7

\* No frame in data has ended.
Drained(data) == \A i \in DOMAIN data : data[i] = Start => FrameEnd(data, i + 1) = 0

\* What is left after one call is the end of the same stream, and drained.
LEMMA ParseDrains ==
    ASSUME NEW data \in Seq(Byte), NEW more \in Seq(Byte), Tiled(data \o more)
    PROVE  LET left == Remaining(data, Parse(data).consumed)
           IN  /\ \A c \in Rejections : Parse(data).stats[c] = 0
               /\ left \in Seq(Byte) /\ Tiled(left \o more) /\ Drained(left)
<1> DEFINE r == Parse(data)
           c == r.consumed
           left == Remaining(data, c)
           all == data \o more
           n == Len(data)
<1>1. /\ all \in Seq(Byte) /\ Len(all) = n + Len(more) /\ n \in Nat
      /\ Window(data, all, 0) /\ Window(more, all, n)
  BY ConcatWindows
<1>2. Settles(r, data, 1)
  BY <1>1, TiledIsClean, CleanParse
<1>3. c \in 0..n
  <2>1. PICK from : Searches(from, data) /\ r = from[1]
    BY ParseIs
  <2>2. 1 \in 1..(n + 1)
    BY <1>1
  <2> HIDE DEF r
  <2>3. r \in Findings(data)
    BY <2>1, <2>2 DEF Searches
  <2> QED BY <2>3 DEF Findings
<1> HIDE DEF r, c, all
<1>4. /\ Window(left, data, c) /\ Len(left) = n - c /\ left \in Seq(Byte)
  <2>1. left = SubSeq(data, c + 1, Len(data))
    BY DEF Remaining
  <2> HIDE DEF left
  <2>2. Window(left, data, c) /\ Len(left) = n - c
    BY <1>3, <2>1, SuffixWindow
  <2> QED BY <2>2 DEF Window
<1> HIDE DEF left
<1>5. Drained(left)
  <2> SUFFICES ASSUME NEW i \in DOMAIN left, left[i] = Start, FrameEnd(left, i + 1) # 0
               PROVE  FALSE
    BY DEF Drained
  <2>1. i \in 1..Len(left) /\ c + i \in 1..n /\ c + i > c
    BY <1>1, <1>3, <1>4
  <2>2. data[c + i] = Start
    BY <1>4, <2>1 DEF Window
  <2>3. FrameEnd(data, c + i + 1) = 0
    BY <1>2, <2>1, <2>2 DEF Settles, c
  <2>4. FrameEnd(data, c + i + 1) = FrameEnd(left, i + 1) + c
    BY <1>4, <2>1, WindowFrames
  <2>5. FrameEnd(left, i + 1) \in Nat
    <3>1. i + 1 \in 1..(Len(left) + 1)
      BY <2>1
    <3> QED BY <1>4, <3>1, FrameEndIs DEF EndsAt
  <2> QED BY <1>3, <2>3, <2>4, <2>5
<1> DEFINE rest == left \o more
<1>6. /\ rest \in Seq(Byte) /\ Len(rest) = Len(left) + Len(more)
      /\ Window(left, rest, 0) /\ Window(more, rest, Len(left))
  BY <1>4, ConcatWindows
<1> HIDE DEF rest
<1>7. Window(rest, all, c) /\ c + Len(rest) = Len(all)
  <2>1. c + Len(rest) = Len(all) /\ c \in Nat
    BY <1>1, <1>3, <1>4, <1>6
  <2>2. ASSUME NEW i \in 1..Len(rest) PROVE rest[i] = all[c + i]
    <3>1. CASE i \in 1..Len(left)
      <4>1. /\ 0 + i = i /\ c + i \in 1..n /\ 0 + (c + i) = c + i
        BY <1>1, <1>3, <1>4, <3>1
      <4>2. left[i] = rest[0 + i] /\ left[i] = data[c + i]
        BY <1>4, <1>6, <3>1 DEF Window
      <4>3. data[c + i] = all[0 + (c + i)]
        BY <1>1, <4>1 DEF Window
      <4> QED BY <4>1, <4>2, <4>3
    <3>2. CASE i \notin 1..Len(left)
      <4> DEFINE j == i - Len(left)
      <4>1. j \in 1..Len(more) /\ Len(left) + j = i /\ n + j = c + i
        BY <1>1, <1>3, <1>4, <1>6, <3>2
      <4> HIDE DEF j
      <4>2. more[j] = rest[Len(left) + j]
        BY <1>6, <4>1 DEF Window
      <4>3. more[j] = all[n + j]
        BY <1>1, <4>1 DEF Window
      <4> QED BY <4>1, <4>2, <4>3
    <3> QED BY <3>1, <3>2
  <2> QED BY <1>1, <1>6, <2>1, <2>2 DEF Window
<1>8. Tiled(rest)
  <2>1. ASSUME c # 0
        PROVE  \E j \in DOMAIN all : all[j] = Start /\ c = FrameEnd(all, j + 1)
    <3>1. PICK j \in 1..n : data[j] = Start /\ c = FrameEnd(data, j + 1)
      BY <1>2, <2>1 DEF Settles, c
    <3>2. 0 + j = j /\ j \in DOMAIN all /\ c + 0 = c
      BY <1>1, <1>3, <3>1
    <3>3. data[j] = all[0 + j]
      BY <1>1, <3>1 DEF Window
    <3>4. FrameEnd(all, 0 + j + 1) = FrameEnd(data, j + 1) + 0
      BY <1>1, <2>1, <3>1, WindowFrames
    <3> QED BY <3>1, <3>2, <3>3, <3>4
  <2> QED BY <1>7, <2>1, TiledSuffix DEF all
<1>9. \A k \in Rejections : r.stats[k] = 0
  BY <1>2 DEF Settles
<1> QED BY <1>4, <1>5, <1>8, <1>9 DEF rest, left, c, r

\* A frame of such a stream that has not ended began at most one frame back,
\* and at most one more precedes it, cut off.
LEMMA DrainedIsShort ==
    ASSUME NEW data \in Seq(Byte), NEW more \in Seq(Byte), Tiled(data \o more), Drained(data)
    PROVE  Len(data) < 2 * Longest
<1> DEFINE all == data \o more
           n == Len(data)
           L == Longest
<1>1. /\ all \in Seq(Byte) /\ Len(all) = n + Len(more) /\ n \in Nat /\ Len(more) \in Nat
      /\ Window(data, all, 0)
  BY ConcatWindows
<1>2. L \in Nat \ {0}
  BY LongestIs
<1> HIDE DEF all, n, L
<1>3. ASSUME n >= 2 * L PROVE FALSE
  <2>1. L \in DOMAIN all
    BY <1>1, <1>2, <1>3
  <2>2. PICK j \in 1..L : all[j] = Start
    BY SMTT(30), <1>1, <1>2, <2>1 DEF Tiled, all, L
  <2> DEFINE e == FrameEnd(all, j + 1)
  <2>3. j \in DOMAIN all /\ j \in 1..n /\ j + L =< n /\ 0 + j = j /\ j + 1 \in 1..(Len(all) + 1)
    BY <1>1, <1>2, <1>3
  <2>4. e < j + L /\ e # 0
    BY <2>2, <2>3 DEF Tiled, all, L, Framed
  <2>5. e \in (j + 1)..n
    <3>1. e \in (j + 1)..Len(all)
      BY <1>1, <2>3, <2>4, FrameEndIs DEF EndsAt
    <3> HIDE DEF e
    <3> QED BY <1>1, <1>2, <2>3, <2>4, <3>1
  <2>6. FrameEnd(all, 0 + j + 1) \in (0 + j + 1)..(0 + Len(data))
    BY <1>1, <2>3, <2>5 DEF n
  <2>7. FrameEnd(data, j + 1) = FrameEnd(all, 0 + j + 1) - 0
    BY <1>1, <2>3, <2>6, WindowFrames DEF n
  <2>8. FrameEnd(data, j + 1) # 0
    BY <2>3, <2>5, <2>7
  <2>9. data[j] = all[0 + j]
    BY <1>1, <2>3 DEF Window, n
  <2> QED BY <2>2, <2>3, <2>8, <2>9 DEF Drained, n
<1>4. n < 2 * L
  BY <1>1, <1>2, <1>3
<1> QED BY <1>4 DEF n, L

HealthyInv ==
    faults = 0 =>
        /\ Tiled(buf \o wire) /\ Drained(buf)
        /\ \A c \in Rejections : stats[c] = 0

LEMMA HealthyStart ==
    ASSUME Init
    PROVE  HealthyInv
<1>1. PICK p \in Messages : \E cut \in 2..(Len(Wire(p)) + 1) :
                              wire = SubSeq(Wire(p), cut, Len(Wire(p)))
  BY DEF Init
<1>2. PICK cut \in 2..(Len(Wire(p)) + 1) : wire = SubSeq(Wire(p), cut, Len(Wire(p)))
  BY <1>1
<1> DEFINE w == Wire(p)
           n == Len(w)
<1>3. /\ w \in Seq(Byte) /\ \A i \in 2..n : w[i] # Start
      /\ n =< Longest /\ Longest \in Nat /\ n \in Nat
  <2>1. Sendable(p) /\ w \in Seq(Byte)
    BY MessageIs
  <2>2. \A i \in 2..Len(Wire(p)) : Wire(p)[i] # Start
    BY <2>1, WireIs
  <2> QED BY <2>1, <2>2, LongestIs
<1> HIDE DEF w
<1>4. wire = SubSeq(w, cut, n) /\ cut \in 2..(n + 1)
  BY <1>2 DEF w
<1>5. /\ wire \in Seq(Byte) /\ Len(wire) = n + 1 - cut
      /\ \A i \in 1..Len(wire) : wire[i] = w[cut - 1 + i]
  BY <1>3, <1>4
<1>6. \A i \in DOMAIN wire : wire[i] # Start /\ i < Longest
  <2> TAKE i \in DOMAIN wire
  <2>1. i \in 1..Len(wire) /\ cut - 1 + i \in 2..n /\ i < Longest
    BY <1>3, <1>4, <1>5
  <2> QED BY <1>3, <1>5, <2>1
<1>7. Tiled(wire)
  BY <1>5, <1>6 DEF Tiled
<1>8. buf = <<>> /\ <<>> \o wire = wire
  BY <1>5 DEF Init
<1>9. Drained(buf)
  BY <1>8 DEF Drained
<1>10. \A c \in Rejections : stats[c] = 0
  BY DEF Init, Counters
<1> QED BY <1>7, <1>8, <1>9, <1>10 DEF HealthyInv

LEMMA HealthyStep ==
    ASSUME TypeInv, HealthyInv, [Next]_vars
    PROVE  HealthyInv'
<1>1. CASE DeviceSends
  <2>1. PICK p \in Messages : wire' = wire \o Wire(p)
    BY <1>1 DEF DeviceSends
  <2>2. UNCHANGED <<buf, stats, faults>>
    BY <1>1 DEF DeviceSends
  <2>3. buf \o (wire \o Wire(p)) = (buf \o wire) \o Wire(p)
    <3>1. buf \in Seq(Byte) /\ wire \in Seq(Byte) /\ Wire(p) \in Seq(Byte)
      BY MessageIs DEF TypeInv
    <3> QED BY <3>1, ConcatAssociative
  <2>4. ASSUME faults = 0
        PROVE  /\ Tiled(buf' \o wire') /\ Drained(buf')
               /\ \A c \in Rejections : (stats')[c] = 0
    <3>1. Tiled((buf \o wire) \o Wire(p))
      BY <2>4, TiledAppend DEF HealthyInv
    <3> QED BY <2>1, <2>2, <2>3, <2>4, <3>1 DEF HealthyInv
  <2> QED BY <2>2, <2>4 DEF HealthyInv
<1>2. CASE Feed
  <2>1. PICK n \in Chunks :
          LET chunk == SubSeq(wire, 1, n)
              found == Parse(buf \o chunk)
          IN  /\ Take(n)
              /\ frames' = frames \o found.frames
              /\ stats' = Count(found)
              /\ buf' = Remaining(buf \o chunk, found.consumed)
              /\ received' = received \o chunk
              /\ UNCHANGED <<sent, faults>>
    BY <1>2 DEF Feed
  <2> DEFINE chunk == SubSeq(wire, 1, n)
             data == buf \o chunk
             found == Parse(data)
             left == Remaining(data, found.consumed)
  <2>2. Take(n) /\ stats' = Count(found) /\ buf' = left /\ faults' = faults
    BY <2>1
  <2>3. /\ chunk \in Seq(Byte) /\ data \in Seq(Byte)
        /\ wire' \in Seq(Byte) /\ chunk \o wire' = wire
    BY <2>2, FeedIs DEF TypeInv
  <2>4. data \o wire' = buf \o wire
    <3>1. buf \in Seq(Byte)
      BY DEF TypeInv
    <3>2. (buf \o chunk) \o wire' = buf \o (chunk \o wire')
      <4>1. \A s, t, u \in Seq(Byte) : (s \o t) \o u = s \o (t \o u)
        BY ConcatAssociative
      <4> HIDE DEF chunk
      <4> QED BY <2>3, <3>1, <4>1, Zenon
    <3> QED BY <2>3, <3>2
  <2>5. ASSUME faults = 0
        PROVE  /\ Tiled(buf' \o wire') /\ Drained(buf')
               /\ \A c \in Rejections : (stats')[c] = 0
    <3>1. Tiled(data \o wire') /\ \A c \in Rejections : stats[c] = 0
      BY <2>4, <2>5 DEF HealthyInv
    <3> HIDE DEF data
    <3>2. /\ \A c \in Rejections : found.stats[c] = 0
          /\ Tiled(left \o wire') /\ Drained(left)
      BY <2>3, <3>1, ParseDrains
    <3> HIDE DEF found, left
    <3>3. \A c \in Rejections : (stats')[c] = 0
      BY <2>2, <3>1, <3>2 DEF Count, Counters
    <3> QED BY <2>2, <3>2, <3>3
  <2> QED BY <2>2, <2>5 DEF HealthyInv
<1>3. CASE NotificationLost \/ ByteDamaged
  <2>1. faults' = faults + 1 /\ faults \in Nat
    BY <1>3 DEF NotificationLost, ByteDamaged, TypeInv
  <2> QED BY <2>1 DEF HealthyInv
<1>4. CASE UNCHANGED vars
  BY <1>4 DEF vars, HealthyInv
<1> QED BY <1>1, <1>2, <1>3, <1>4 DEF Next

LEMMA HealthyInvHolds == Spec => [](TypeInv /\ HealthyInv)
<1>1. Init => TypeInv /\ HealthyInv
  BY TypeStart, HealthyStart
<1>2. TypeInv /\ HealthyInv /\ [Next]_vars => TypeInv' /\ HealthyInv'
  BY TypeStep, HealthyStep
<1> QED BY <1>1, <1>2, PTL DEF Spec

\* As long as nothing is lost or damaged, nothing is rejected: not the part
\* of a frame notifications begin with, and no frame they cut in pieces.
THEOREM HealthyRejects == Spec => []HealthyRejectsNothing
<1>1. HealthyInv => HealthyRejectsNothing
  BY DEF HealthyInv, HealthyRejectsNothing
<1> QED BY <1>1, HealthyInvHolds, PTL

\* As long as nothing is lost or damaged, the buffer holds less than two
\* frames: parse_frames leaves no frame in it that has ended.
THEOREM HealthyBuffer == Spec => []HealthyBufferBounded
<1>1. TypeInv /\ HealthyInv => HealthyBufferBounded
  <2> SUFFICES ASSUME TypeInv, HealthyInv, faults = 0
               PROVE  Len(buf) < 2 * Longest
    BY DEF HealthyBufferBounded
  <2>1. buf \in Seq(Byte) /\ wire \in Seq(Byte)
    BY DEF TypeInv
  <2> QED BY <2>1, DrainedIsShort DEF HealthyInv
<1> QED BY <1>1, HealthyInvHolds, PTL

-----------------------------------------------------------------------------
(* The frames of a stream.                                                 *)

\* What is added to the data is added, stuffed, to what it was stuffed to.
LEMMA StuffAppends ==
    ASSUME NEW d \in Seq(Byte), NEW b \in Byte
    PROVE  Stuff(Append(d, b)) = Stuff(d) \o StuffByte(b)
<1> DEFINE n == Len(d)
           t == Append(d, b)
<1>1. n \in Nat /\ t \in Seq(Byte) /\ Len(t) = n + 1 /\ t[n + 1] = b /\ \A i \in 1..n : t[i] = d[i]
  OBVIOUS
<1>2. PICK rd : Stuffs(rd, d) /\ Stuff(d) = rd[n]
  BY StuffIs
<1> HIDE DEF t
<1>3. PICK rt : Stuffs(rt, t) /\ Stuff(t) = rt[Len(t)]
  BY <1>1, StuffIs
<1> DEFINE I == {k \in 0..n : rt[k] = rd[k]}
<1>4. 0 \in I
  BY <1>1, <1>2, <1>3 DEF Stuffs
<1>5. ASSUME NEW k \in 1..n, k - 1 \in I PROVE k \in I
  <2>1. rd[k] = rd[k - 1] \o StuffByte(d[k])
    BY <1>2 DEF Stuffs
  <2>2. k \in 1..Len(t)
    BY <1>1
  <2>3. rt[k] = rt[k - 1] \o StuffByte(t[k])
    BY <1>3, <2>2 DEF Stuffs
  <2>4. rt[k - 1] = rd[k - 1] /\ t[k] = d[k]
    BY <1>1, <1>5
  <2>5. rt[k] = rd[k]
    BY <2>1, <2>3, <2>4, Zenon
  <2> QED BY <2>5
<1> HIDE DEF I, n
<1>6. 0..n \subseteq I
  BY <1>1, <1>4, <1>5, CountingUp
<1>7. rt[n] = rd[n]
  BY <1>1, <1>6 DEF I
<1>8. n + 1 \in 1..Len(t) /\ (n + 1) - 1 = n
  BY <1>1
<1>9. rt[n + 1] = rt[n] \o StuffByte(t[n + 1])
  BY <1>3, <1>8 DEF Stuffs
<1> QED BY <1>1, <1>2, <1>3, <1>7, <1>9 DEF t

\* An escape and its code are what the byte they stand for is stuffed to.
LEMMA EscapeIsStuffed ==
    ASSUME NEW raw \in Seq(Byte), NEW i \in 1..Len(raw), i + 1 \in 1..Len(raw),
           raw[i] \in EscapePrefixes, raw[i + 1] \in {Flag, Literal}
    PROVE  StuffByte(Meant(raw, i)) = <<raw[i], raw[i + 1]>>
<1>1. raw[i] \in Byte
  OBVIOUS
<1>2. CASE raw[i + 1] = Flag
  <2>1. Meant(raw, i) = raw[i] + 1
    BY <1>2 DEF Meant
  <2>2. raw[i] + 1 \in {Start, End} /\ (raw[i] + 1) - 1 = raw[i]
    <3>1. raw[i] \in {Start - 1, End - 1}
      BY DEF EscapePrefixes
    <3>2. Start \in Int /\ End \in Int
      BY ByteFacts DEF Byte
    <3> QED BY <3>1, <3>2
  <2> QED BY <1>2, <2>1, <2>2, ByteFacts DEF StuffByte
<1>3. CASE raw[i + 1] = Literal
  <2>1. Meant(raw, i) = raw[i]
    BY <1>3, ByteFacts DEF Meant
  <2> QED BY <1>3, <2>1, ByteFacts DEF StuffByte
<1> QED BY <1>2, <1>3

\* Stuffing is the only way to write a body: what is well escaped, and has no
\* delimiter in it, is what is stuffed of what it stands for.
THEOREM UnstuffingIsUndone ==
    ASSUME NEW raw \in Seq(Byte), WellEscaped(raw),
           \A i \in DOMAIN raw : raw[i] \notin {Start, End}
    PROVE  Stuff(Unstuff(raw)) = raw
<1> DEFINE n == Len(raw)
           f == Escaped(raw, 1)
           upTo(k) == SubSeq(raw, 1, k)
<1>1. /\ n \in Nat /\ FlagsAre(f, raw, 1) /\ ~f[n + 1]
      /\ \A i \in 1..n : raw[i] \in Byte /\ (f[i] => raw[i] \in {Flag, Literal})
  BY EscapedIs DEF WellEscaped
<1>2. PICK run : Unstuffs(run, raw) /\ Unstuff(raw) = run[n]
  BY UnstuffIs
<1> HIDE DEF f
<1>3. /\ run[0] = <<>> /\ \A k \in 0..n : run[k] \in Seq(Byte)
      /\ \A k \in 1..n : run[k] = IF f[k] THEN run[k - 1] ELSE Append(run[k - 1], Meant(raw, k))
  BY <1>2 DEF Unstuffs, f
<1>4. ASSUME NEW k \in 1..n PROVE f[k + 1] <=> raw[k] \in EscapePrefixes /\ ~f[k]
  <2> DEFINE next == k + 1
  <2>1. next \in (1 + 1)..(n + 1) /\ next - 1 = k
    BY <1>1
  <2> HIDE DEF next
  <2>2. f[next] <=> raw[next - 1] \in EscapePrefixes /\ ~f[next - 1]
    BY <1>1, <2>1 DEF FlagsAre
  <2>3. f[next] <=> raw[k] \in EscapePrefixes /\ ~f[k]
    BY <2>1, <2>2
  <2> QED BY <2>3 DEF next
<1> DEFINE Restuffed(k) ==
             IF f[k + 1] THEN k # 0 /\ Stuff(run[k]) = upTo(k - 1) \o StuffByte(Meant(raw, k))
             ELSE Stuff(run[k]) = upTo(k)
           I == {k \in 0..n : Restuffed(k)}
<1>5. 0 \in I
  <2>1. ~f[0 + 1] /\ upTo(0) = <<>> /\ <<>> \in Seq(Byte)
    BY <1>1 DEF FlagsAre
  <2>2. Neat(Stuff(<<>>), <<>>)
    BY <2>1, StuffingIsUndone
  <2>3. Stuff(<<>>) = <<>>
    <3>1. Stuff(<<>>) \in Seq(Byte) /\ Len(Stuff(<<>>)) =< 2 * Len(<<>>)
      BY <2>2 DEF Neat
    <3> DEFINE s == Stuff(<<>>)
    <3> HIDE DEF s
    <3>2. s \in Seq(Byte) /\ Len(s) =< 0
      BY <3>1 DEF s
    <3>3. s = <<>>
      BY <3>2
    <3> QED BY <3>3 DEF s
  <2> QED BY <1>1, <1>3, <2>1, <2>3
<1>6. ASSUME NEW k \in 1..n, k - 1 \in I PROVE k \in I
  <2>1. /\ k - 1 \in 0..n /\ (k - 1) + 1 = k /\ run[k - 1] \in Seq(Byte)
        /\ raw[k] \in Byte /\ Meant(raw, k) \in Byte
    BY <1>1, <1>3, MeantIsByte
  <2>2. Restuffed(k - 1)
    BY <1>6
  <2>3. CASE f[k]
    <3>1. ~f[k + 1] /\ run[k] = run[k - 1]
      BY <1>3, <1>4, <2>3
    <3>2. k - 1 # 0 /\ Stuff(run[k - 1]) = upTo((k - 1) - 1) \o StuffByte(Meant(raw, k - 1))
      BY <2>1, <2>2, <2>3
    <3> DEFINE j == k - 1
    <3>3. j \in 1..n /\ j + 1 = k
      BY <2>1, <3>2
    <3> HIDE DEF j
    <3>4. raw[j] \in EscapePrefixes
      BY <1>4, <2>3, <3>3
    <3>5. StuffByte(Meant(raw, j)) = <<raw[j], raw[k]>>
      BY <1>1, <2>3, <3>3, <3>4, EscapeIsStuffed
    <3>6. upTo(j - 1) \o <<raw[j], raw[k]>> = upTo(k)
      BY <3>3
    <3>7. Stuff(run[k]) = upTo(k)
      BY <3>1, <3>2, <3>5, <3>6 DEF j
    <3> HIDE DEF upTo
    <3> QED BY <3>1, <3>7
  <2>4. CASE ~f[k]
    <3>1. Stuff(run[k - 1]) = upTo(k - 1) /\ run[k] = Append(run[k - 1], Meant(raw, k))
      <4> HIDE DEF upTo
      <4> QED BY <1>3, <2>1, <2>2, <2>4
    <3>2. Stuff(run[k]) = upTo(k - 1) \o StuffByte(Meant(raw, k))
      BY <2>1, <3>1, StuffAppends
    <3>3. CASE raw[k] \in EscapePrefixes
      <4>1. f[k + 1]
        BY <1>4, <2>4, <3>3
      <4> HIDE DEF upTo
      <4> QED BY <3>2, <4>1
    <3>4. CASE raw[k] \notin EscapePrefixes
      <4>1. ~f[k + 1]
        BY <1>4, <3>4
      <4>2. StuffByte(Meant(raw, k)) = <<raw[k]>>
        BY <3>4 DEF Meant, StuffByte
      <4>3. upTo(k - 1) \o <<raw[k]>> = upTo(k)
        OBVIOUS
      <4>4. Stuff(run[k]) = upTo(k)
        BY <3>2, <4>2, <4>3, Zenon
      <4> HIDE DEF upTo
      <4> QED BY <4>1, <4>4
    <3> QED BY <3>3, <3>4
  <2> QED BY <2>3, <2>4
<1> HIDE DEF I, Restuffed, n
<1>7. 0..n \subseteq I
  BY <1>1, <1>5, <1>6, CountingUp
<1>8. Restuffed(n)
  BY <1>1, <1>7 DEF I
<1>9. Stuff(run[n]) = upTo(n)
  BY <1>1, <1>8 DEF Restuffed
<1>10. upTo(n) = raw
  BY DEF n
<1> QED BY <1>2, <1>9, <1>10

-----------------------------------------------------------------------------

\* A body that is accepted is one there can be: its length byte and its
\* checksum say what its payload is.
LEMMA AcceptedIsBody ==
    ASSUME Alphabet = Byte, NEW raw \in Seq(Byte), Verdict(raw) = "frames"
    PROVE  Unstuff(raw) \in Bodies /\ WellEscaped(raw)
<1> DEFINE body == Unstuff(raw)
           n == Len(body)
           payload == SubSeq(body, 2, n - 1)
<1>1. /\ WellEscaped(raw) /\ ~(n < Header + 1)
      /\ ~(body[Header] > MaxPayload \/ n # Header + body[Header] + CrcLen)
      /\ Crc(SubSeq(body, 1, n - CrcLen)) = SubSeq(body, n, n)
  BY DEF Verdict
<1>2. body \in Seq(Byte)
  BY UnstuffType
<1> HIDE DEF body
<1>3. /\ n \in Nat /\ MaxPayload \in Nat
      /\ \A x \in Byte : x \in Nat
  <2>1. MaxPayload \in Byte
    BY MessageAssumption
  <2>2. \A x \in Byte : x \in Nat
    BY DEF Byte
  <2> QED BY <1>2, <2>1, <2>2
<1>4. n >= 2 /\ n = 1 + body[1] + 1 /\ ~(body[1] > MaxPayload)
  <2> HIDE DEF n
  <2>1. ~(n < 1 + 1) /\ n = 1 + body[1] + 1 /\ ~(body[1] > MaxPayload)
    BY <1>1 DEF Header, CrcLen
  <2> QED BY <1>3, <2>1
<1>5. /\ body[1] \in Nat /\ n = body[1] + 2 /\ body[1] =< MaxPayload
      /\ Crc(SubSeq(body, 1, n - 1)) = SubSeq(body, n, n)
  <2>1. body[1] \in Byte
    BY <1>2, <1>3, <1>4
  <2>2. Crc(SubSeq(body, 1, n - 1)) = SubSeq(body, n, n)
    BY <1>1 DEF CrcLen
  <2> DEFINE l == body[1]
  <2> HIDE DEF n, l
  <2>3. l \in Nat /\ n = 1 + l + 1 /\ ~(l > MaxPayload)
    BY <1>3, <1>4, <2>1 DEF l
  <2>4. n = l + 2 /\ l =< MaxPayload
    BY <1>3, <2>3
  <2> QED BY <2>2, <2>3, <2>4 DEF l
<1>6. <<Len(payload)>> \o payload = SubSeq(body, 1, n - 1) /\ payload \in Seq(Byte) /\ Len(payload) = body[1]
  <2> DEFINE l == body[1]
  <2>1. l \in Nat /\ Len(body) = l + 2 /\ n - 1 = l + 1
    BY <1>5
  <2> HIDE DEF l
  <2>2. payload = SubSeq(body, 2, l + 1)
    BY <2>1
  <2> HIDE DEF n, payload
  <2>3. payload \in Seq(Byte) /\ Len(payload) = l /\ \A i \in 1..l : payload[i] = body[i + 1]
    BY <1>2, <2>1, <2>2
  <2> DEFINE s == <<l>> \o payload
             t == SubSeq(body, 1, l + 1)
  <2>4. /\ t \in Seq(Byte) /\ Len(t) = l + 1 /\ \A i \in 1..(l + 1) : t[i] = body[i]
    BY <1>2, <2>1
  <2>5. l \in Byte
    BY <1>2, <2>1 DEF l
  <2>6. /\ s \in Seq(Byte) /\ Len(s) = 1 + l
        /\ \A i \in 1..(l + 1) : s[i] = IF i = 1 THEN l ELSE payload[i - 1]
    BY <2>1, <2>3, <2>5
  <2>7. ASSUME NEW i \in 1..(l + 1) PROVE s[i] = t[i]
    <3>1. CASE i = 1
      <4>1. s[1] = l /\ t[1] = body[1]
        BY <2>1, <2>4, <2>6, <3>1
      <4> QED BY <3>1, <4>1 DEF l
    <3>2. CASE i # 1
      <4>1. i - 1 \in 1..l /\ (i - 1) + 1 = i
        BY <2>1, <3>2
      <4>2. s[i] = payload[i - 1] /\ payload[i - 1] = body[(i - 1) + 1]
        BY <2>3, <2>6, <3>2, <4>1
      <4> QED BY <2>4, <4>1, <4>2
    <3> QED BY <3>1, <3>2
  <2> HIDE DEF s, t
  <2>8. s = t
    BY <2>1, <2>4, <2>6, <2>7, SeqEqual
  <2> QED BY <2>1, <2>3, <2>8 DEF s, t, l
<1> HIDE DEF payload
<1>7. Body(payload) = SubSeq(body, 1, n - 1) \o SubSeq(body, n, n)
  BY <1>5, <1>6 DEF Body
<1>8. SubSeq(body, 1, n - 1) \o SubSeq(body, n, n) = body
  <2> DEFINE m == n - 1
             x == 1
  <2>1. x \in 1..Len(body) + 1 /\ m \in x-1..n /\ m + 1 = n /\ n \in m..Len(body)
    BY <1>3, <1>4
  <2> HIDE DEF m, x
  <2>2. SubSeq(body, x, m) \o SubSeq(body, m + 1, n) = SubSeq(body, x, n)
    BY <1>2, <2>1, ConcatAdjacentSubSeq
  <2>3. SubSeq(body, x, n) = body
    BY <1>2, SubSeqFull DEF x
  <2>4. SubSeq(body, x, m) \o SubSeq(body, n, n) = body
    BY <2>1, <2>2, <2>3, Zenon
  <2> QED BY <2>4 DEF m, x
<1>9. payload \in BoundedSeq(Alphabet, MaxPayload)
  <2> DEFINE l == Len(payload)
  <2>1. l \in 0..MaxPayload /\ payload \in [1..l -> Byte]
    <3>1. payload \in [1..l -> Byte]
      BY <1>6
    <3>2. l \in 0..MaxPayload
      <4>1. l = body[1]
        BY <1>6
      <4> HIDE DEF l
      <4> QED BY <1>3, <1>5, <4>1
    <3> QED BY <3>1, <3>2
  <2> HIDE DEF l
  <2> QED BY <2>1 DEF BoundedSeq, SeqOf
<1> QED BY <1>1, <1>7, <1>8, <1>9 DEF Bodies, body

\* A body there can be is that of a payload the device might send.
LEMMA BodyIsSendable ==
    ASSUME NEW b \in Bodies
    PROVE  \E p : Sendable(p) /\ b = Body(p) /\ Whole[b] = Wire(p)
<1>1. PICK p \in BoundedSeq(Alphabet, MaxPayload) : b = Body(p)
  BY DEF Bodies
<1>2. PICK l \in 0..MaxPayload : p \in [1..l -> Alphabet]
  BY <1>1 DEF BoundedSeq, SeqOf
<1>3. Sendable(p)
  <2>1. MaxPayload \in Nat
    BY MessageAssumption DEF Byte
  <2>2. l \in Nat /\ l =< MaxPayload /\ p \in [1..l -> Byte]
    BY <1>2, <2>1, ByteFacts
  <2>3. p \in Seq(Byte) /\ Len(p) = l
    BY <2>2
  <2> QED BY <2>2, <2>3 DEF Sendable
<1>4. Whole[b] = Wire(p)
  BY <1>1 DEF Whole, Wire
<1> QED BY <1>1, <1>3, <1>4

\* Bytes i to e of data are a frame.
Frame(data, i, e) ==
    i \in 1..Len(data) /\ data[i] = Start /\ FrameEnd(data, i + 1) = e /\ Framed(data, i)

Raw(data, i, e) == SubSeq(data, i + 1, e - 1)

LEMMA FrameIs ==
    ASSUME NEW data \in Seq(Byte), NEW i, NEW e, Frame(data, i, e)
    PROVE  /\ i \in 1..Len(data) /\ e \in (i + 1)..Len(data)
           /\ data[i] = Start /\ data[e] = End
           /\ Raw(data, i, e) \in Seq(Byte) /\ Len(Raw(data, i, e)) = e - 1 - i
           /\ \A j \in 1..(e - 1 - i) : Raw(data, i, e)[j] = data[i + j]
           /\ Verdict(Raw(data, i, e)) = "frames"
<1>1. i \in 1..Len(data) /\ data[i] = Start /\ i + 1 \in 1..(Len(data) + 1)
  BY DEF Frame
<1>2. FrameEnd(data, i + 1) = e /\ e # 0 /\ data[e] = End /\ Verdict(Raw(data, i, e)) = "frames"
  BY DEF Frame, Framed, Raw
<1>3. e \in (i + 1)..Len(data)
  BY <1>1, <1>2, FrameEndIs DEF EndsAt
<1>4. /\ Raw(data, i, e) \in Seq(Byte) /\ Len(Raw(data, i, e)) = e - 1 - i
      /\ \A j \in 1..(e - 1 - i) : Raw(data, i, e)[j] = data[i + j]
  BY <1>1, <1>3 DEF Raw
<1> QED BY <1>1, <1>2, <1>3, <1>4

\* No delimiter is inside a frame: an escaped one is rejected.
LEMMA NoneInside ==
    ASSUME Alphabet = Byte, NEW data \in Seq(Byte), NEW i, NEW e, Frame(data, i, e),
           NEW j \in (i + 1)..(e - 1)
    PROVE  data[j] \notin {Start, End}
<1> DEFINE raw == Raw(data, i, e)
           m == e - 1 - i
           f == Escaped(data, i + 1)
           g == Escaped(raw, 1)
<1>1. /\ i \in 1..Len(data) /\ e \in (i + 1)..Len(data)
      /\ raw \in Seq(Byte) /\ Len(raw) = m
      /\ \A k \in 1..m : raw[k] = data[i + k]
  BY FrameIs
<1>2. WellEscaped(raw)
  BY <1>1, FrameIs, AcceptedIsBody
<1> HIDE DEF raw
<1>3. i + 1 \in 1..(Len(data) + 1) /\ m \in Nat /\ Len(data) \in Nat
  BY <1>1
<1>5. SameFlags(g, 1, f, i + 1, m)
  <2> DEFINE p == 1
             q == i + 1
  <2>1. /\ p \in 1..(Len(raw) + 1) /\ p \in p..(Len(raw) + 1) /\ p + m =< Len(raw) + 1
        /\ q \in 1..(Len(data) + 1) /\ q \in q..(Len(data) + 1) /\ q + m =< Len(data) + 1
    BY <1>1, <1>3
  <2>2. SameBytes(raw, p, data, q, m)
    <3> SUFFICES ASSUME NEW k \in 0..(m - 1) PROVE raw[p + k] = data[q + k]
      BY DEF SameBytes
    <3>1. k + 1 \in 1..m /\ i + (k + 1) = q + k /\ p + k = k + 1
      BY <1>1, <1>3
    <3> QED BY <1>1, <3>1
  <2>3. Escaped(raw, p)[p] <=> Escaped(data, q)[q]
    BY <1>1, <2>1, EscapedIs DEF FlagsAre
  <2> HIDE DEF p, q, m
  <2>4. SameFlags(Escaped(raw, p), p, Escaped(data, q), q, m)
    BY <1>1, <1>3, <2>1, <2>2, <2>3, FlagsAgree
  <2> QED BY <2>4 DEF p, q
<1> HIDE DEF f, g
<1> DEFINE k == j - i
<1>6. k \in 1..m /\ i + k = j /\ k - 1 \in 0..m /\ 1 + (k - 1) = k /\ i + 1 + (k - 1) = j
  BY <1>1
<1> HIDE DEF k, m
<1>7. (g[k] <=> f[j]) /\ raw[k] = data[j]
  BY <1>1, <1>5, <1>6 DEF SameFlags
<1>8. ~Delimits(data, i + 1, j)
  <2>1. FrameEnd(data, i + 1) = e
    BY DEF Frame
  <2> QED BY <1>3, <2>1, FrameEndIs DEF EndsAt
<1>9. g[k] => raw[k] \in {Flag, Literal}
  <2>1. k \in DOMAIN raw
    BY <1>1, <1>6
  <2> QED BY <1>2, <2>1 DEF WellEscaped, g
<1> QED BY <1>7, <1>8, <1>9, ByteFacts DEF Delimits, f

\* So two frames do not overlap.
LEMMA FramesApart ==
    ASSUME Alphabet = Byte, NEW data \in Seq(Byte),
           NEW i, NEW e, Frame(data, i, e), NEW j, NEW f, Frame(data, j, f), i < j
    PROVE  e < j
<1>1. /\ i \in 1..Len(data) /\ e \in (i + 1)..Len(data) /\ data[e] = End
      /\ j \in 1..Len(data) /\ data[j] = Start
  BY FrameIs
<1>2. j \notin (i + 1)..(e - 1)
  BY <1>1, NoneInside
<1>3. j # e
  BY <1>1, ByteFacts
<1> QED BY <1>1, <1>2, <1>3

-----------------------------------------------------------------------------

\* The bodies of the frames that end with byte e.
Ends(data, e) ==
    {b \in Bodies : e >= Len(Whole[b]) /\ SubSeq(data, e - Len(Whole[b]) + 1, e) = Whole[b]}

LEMMA SliceIs ==
    ASSUME NEW data \in Seq(Byte), NEW c \in Nat, NEW l \in Nat, c + l =< Len(data)
    PROVE  LET t == SubSeq(data, c + 1, c + l)
           IN  t \in Seq(Byte) /\ Len(t) = l /\ \A k \in 1..l : t[k] = data[c + k]
BY SMTT(30)

\* What ends in data as a frame does is a frame of data.
LEMMA EndsIsFrame ==
    ASSUME NEW data \in Seq(Byte), NEW e \in 1..Len(data), NEW b \in Ends(data, e)
    PROVE  \E i : Frame(data, i, e) /\ b = Unstuff(Raw(data, i, e))
<1>1. PICK p : Sendable(p) /\ b = Body(p) /\ Whole[b] = Wire(p)
  BY BodyIsSendable DEF Ends
<1> DEFINE w == Wire(p)
           l == Len(w)
           s == Stuff(b)
           c == e - l
           i == c + 1
           raw == Raw(data, i, e)
<1>2. /\ w \in Seq(Byte) /\ w[1] = Start /\ FrameEnd(w, 2) = l /\ Framed(w, 1) /\ l >= 2
  BY <1>1, WireIs
<1>3. e >= l /\ SubSeq(data, e - l + 1, e) = w
  BY <1>1 DEF Ends
<1>4. b \in Seq(Byte) /\ Neat(s, b)
  BY <1>1, BodyIs, StuffingIsUndone
<1>5. w = <<Start>> \o s \o <<End>>
  BY <1>1 DEF Wire
<1> HIDE DEF w, s
<1>6. s \in Seq(Byte) /\ Len(s) = l - 2 /\ \A j \in 1..(l - 2) : s[j] = w[1 + j]
  <2>1. s \in Seq(Byte) /\ Start \in Byte /\ End \in Byte
    BY <1>4, ByteFacts DEF Neat
  <2> QED BY <1>5, <2>1
<1>7. l \in Nat /\ c \in Nat /\ c + l = e /\ i \in 1..Len(data) /\ Len(data) \in Nat
  BY <1>2, <1>3
<1>8. \A k \in 1..l : w[k] = data[c + k]
  <2>1. c + l =< Len(data) /\ SubSeq(data, c + 1, c + l) = w
    <3>1. SubSeq(data, c + 1, e) = w
      BY <1>3
    <3> HIDE DEF c, l
    <3> QED BY <1>7, <3>1
  <2> HIDE DEF c, l
  <2> QED BY <1>7, <2>1, SliceIs
<1>9. Window(w, data, c)
  BY <1>2, <1>7, <1>8 DEF Window
<1> HIDE DEF c
<1>10. 1 \in 1..Len(w) /\ 1 + 1 = 2 /\ FrameEnd(w, 2) # 0
  BY <1>2, <1>7
<1>11. FrameEnd(data, c + 1 + 1) = l + c /\ Framed(data, c + 1)
  BY <1>2, <1>9, <1>10, WindowFrames
<1>12. data[c + 1] = Start
  BY <1>2, <1>8, <1>10
<1>13. l + c = e
  <2> HIDE DEF l
  <2> QED BY <1>7
<1>14. Frame(data, i, e)
  BY <1>7, <1>11, <1>12, <1>13 DEF Frame
<1>15. raw = s
  <2>1. raw \in Seq(Byte) /\ Len(raw) = e - 1 - i /\ \A j \in 1..(e - 1 - i) : raw[j] = data[i + j]
    BY <1>14, FrameIs
  <2> HIDE DEF raw, l
  <2>2. e - 1 - i = l - 2
    BY <1>7
  <2>3. ASSUME NEW j \in 1..(l - 2) PROVE raw[j] = s[j]
    <3>1. 1 + j \in 1..l /\ c + (1 + j) = i + j
      BY <1>7
    <3>2. s[j] = w[1 + j] /\ w[1 + j] = data[c + (1 + j)]
      BY <1>6, <1>8, <3>1
    <3>3. raw[j] = data[i + j]
      BY <2>1, <2>2
    <3> QED BY <3>1, <3>2, <3>3
  <2> QED BY <1>6, <2>1, <2>2, <2>3, SeqEqual
<1>16. b = Unstuff(raw)
  BY <1>4, <1>15 DEF Neat
<1> QED BY <1>14, <1>16

\* And no other body ends where a frame of data does.
LEMMA FrameEndsAlone ==
    ASSUME Alphabet = Byte, NEW data \in Seq(Byte), NEW i, NEW e, Frame(data, i, e)
    PROVE  Ends(data, e) = {Unstuff(Raw(data, i, e))}
<1> DEFINE raw == Raw(data, i, e)
           b == Unstuff(raw)
           l == Len(Whole[b])
           m == e - 1 - i
<1>1. /\ i \in 1..Len(data) /\ e \in (i + 1)..Len(data)
      /\ data[i] = Start /\ data[e] = End
      /\ raw \in Seq(Byte) /\ Len(raw) = m
      /\ \A j \in 1..m : raw[j] = data[i + j]
      /\ Verdict(raw) = "frames"
  BY FrameIs
<1>2. b \in Bodies /\ WellEscaped(raw)
  BY <1>1, AcceptedIsBody
<1> HIDE DEF raw
<1>3. Stuff(b) = raw
  <2>1. ASSUME NEW j \in DOMAIN raw PROVE raw[j] \notin {Start, End}
    <3>1. j \in 1..m /\ i + j \in (i + 1)..(e - 1)
      BY <1>1, <2>1
    <3> QED BY <1>1, <3>1, NoneInside
  <2> QED BY <1>1, <1>2, <2>1, UnstuffingIsUndone
<1>4. Whole[b] = <<Start>> \o raw \o <<End>>
  BY <1>2, <1>3 DEF Whole
<1> HIDE DEF b
<1>5. /\ Whole[b] \in Seq(Byte) /\ l = m + 2
      /\ Whole[b][1] = Start /\ Whole[b][m + 2] = End
      /\ \A j \in 1..m : Whole[b][1 + j] = raw[j]
  <2> DEFINE w == Whole[b]
  <2>1. w = <<Start>> \o raw \o <<End>>
    BY <1>4
  <2> HIDE DEF w, m
  <2>2. /\ w \in Seq(Byte) /\ Len(w) = m + 2
        /\ w[1] = Start /\ w[m + 2] = End /\ \A j \in 1..m : w[1 + j] = raw[j]
    BY <1>1, <2>1, ByteFacts
  <2> QED BY <2>2 DEF w
<1>6. m \in Nat /\ e - l + 1 = i /\ e >= l /\ i - 1 + (m + 2) = e /\ i - 1 \in Nat
  <2>1. e \in Nat /\ i \in Nat /\ i >= 1 /\ e > i
    BY <1>1
  <2> HIDE DEF l
  <2> QED BY <1>5, <2>1
<1>7. SubSeq(data, i, e) = Whole[b]
  <2> DEFINE t == SubSeq(data, i, e)
  <2>1. t \in Seq(Byte) /\ Len(t) = m + 2 /\ \A k \in 1..(m + 2) : t[k] = data[i - 1 + k]
    <3> DEFINE c == i - 1
               n == m + 2
    <3>1. c \in Nat /\ n \in Nat /\ c + n =< Len(data) /\ c + 1 = i /\ c + n = e
      BY <1>1, <1>6
    <3> HIDE DEF c, n
    <3>2. t = SubSeq(data, c + 1, c + n)
      BY <3>1
    <3>3. t \in Seq(Byte) /\ Len(t) = n /\ \A k \in 1..n : t[k] = data[c + k]
      BY <3>1, <3>2, SliceIs
    <3> QED BY <3>3 DEF c, n
  <2> HIDE DEF t, m
  <2>2. ASSUME NEW k \in 1..(m + 2) PROVE t[k] = Whole[b][k]
    <3>1. CASE k = 1
      <4>1. i - 1 + k = i
        BY <1>1, <3>1
      <4> QED BY <1>1, <1>5, <2>1, <3>1, <4>1
    <3>2. CASE k = m + 2
      <4>1. i - 1 + k = e
        BY <1>1, <1>6, <3>2
      <4> QED BY <1>1, <1>5, <2>1, <3>2, <4>1
    <3>3. CASE k # 1 /\ k # m + 2
      <4> DEFINE j == k - 1
      <4>1. j \in 1..m /\ 1 + j = k /\ i - 1 + k = i + j
        BY <1>1, <1>6, <3>3
      <4> HIDE DEF j
      <4>2. Whole[b][k] = data[i + j]
        BY <1>1, <1>5, <4>1
      <4> QED BY <2>1, <4>1, <4>2
    <3> QED BY <3>1, <3>2, <3>3
  <2>3. t = Whole[b]
    <3> DEFINE u == Whole[b]
    <3>1. u \in Seq(Byte) /\ Len(u) = Len(t) /\ \A k \in 1..Len(t) : t[k] = u[k]
      BY <1>5, <2>1, <2>2
    <3> HIDE DEF u
    <3>2. t = u
      BY <2>1, <3>1, SeqEqual
    <3> QED BY <3>2 DEF u
  <2> QED BY <2>3 DEF t
<1>8. b \in Ends(data, e)
  BY <1>2, <1>6, <1>7 DEF Ends, b
<1>9. ASSUME NEW a \in Ends(data, e) PROVE a = b
  <2>1. e \in 1..Len(data)
    BY <1>1
  <2>2. PICK k : Frame(data, k, e) /\ a = Unstuff(Raw(data, k, e))
    BY <2>1, EndsIsFrame
  <2>3. k \in 1..Len(data) /\ e \in (k + 1)..Len(data)
    BY <2>2, FrameIs
  <2>4. ~(i < k)
    <3>1. i < k => e < k
      BY <2>2, FramesApart
    <3> QED BY <1>1, <2>3, <3>1
  <2>5. ~(k < i)
    <3>1. k < i => e < i
      BY <2>2, FramesApart
    <3> QED BY <1>1, <2>3, <3>1
  <2>6. k = i
    BY <1>1, <2>3, <2>4, <2>5
  <2> QED BY <2>2, <2>6 DEF b, raw
<1> QED BY <1>8, <1>9 DEF b, raw

\* So at most one frame ends with a byte.
LEMMA OneEnds ==
    ASSUME Alphabet = Byte, NEW data \in Seq(Byte), NEW e \in 1..Len(data)
    PROVE  /\ Ends(data, e) = {} <=> \A i : ~Frame(data, i, e)
           /\ Ends(data, e) = {} => SetToSeq(Ends(data, e)) = <<>>
           /\ \A i : Frame(data, i, e) =>
                /\ Unstuff(Raw(data, i, e)) \in Seq(Byte)
                /\ SetToSeq(Ends(data, e)) = <<Unstuff(Raw(data, i, e))>>
           /\ SetToSeq(Ends(data, e)) \in Seq(Seq(Byte))
<1>1. Ends(data, e) = {} <=> \A i : ~Frame(data, i, e)
  BY EndsIsFrame, FrameEndsAlone
<1>2. SetToSeq({}) = <<>>
  <2>1. 1..Cardinality({}) = {}
    BY FS_EmptySet
  <2>2. \A f \in [{} -> {}] : f = <<>> /\ IsInjective(f)
    BY DEF IsInjective
  <2>3. <<>> \in [{} -> {}]
    OBVIOUS
  <2> QED BY <2>1, <2>2, <2>3, Zenon DEF SetToSeq
<1>3. ASSUME NEW b PROVE SetToSeq({b}) = <<b>>
  <2>1. 1..Cardinality({b}) = {1}
    <3>1. Cardinality({b}) = 1
      BY FS_Singleton
    <3> QED BY <3>1
  <2>2. \A f \in [{1} -> {b}] : f = <<b>> /\ IsInjective(f)
    BY DEF IsInjective
  <2>3. <<b>> \in [{1} -> {b}]
    OBVIOUS
  <2> QED BY <2>1, <2>2, <2>3, Zenon DEF SetToSeq
<1>4. ASSUME NEW i, Frame(data, i, e)
      PROVE  /\ Unstuff(Raw(data, i, e)) \in Seq(Byte)
             /\ SetToSeq(Ends(data, e)) = <<Unstuff(Raw(data, i, e))>>
  BY <1>3, <1>4, FrameEndsAlone, FrameIs, UnstuffType
<1>5. SetToSeq(Ends(data, e)) \in Seq(Seq(Byte))
  <2>1. CASE Ends(data, e) = {}
    <3>1. SetToSeq(Ends(data, e)) = <<>>
      BY <1>2, <2>1
    <3> QED BY <3>1
  <2>2. CASE Ends(data, e) # {}
    <3>1. PICK i : Frame(data, i, e)
      BY <1>1, <2>2
    <3> DEFINE b == Unstuff(Raw(data, i, e))
    <3>2. b \in Seq(Byte) /\ SetToSeq(Ends(data, e)) = <<b>>
      BY <1>4, <3>1
    <3> HIDE DEF b
    <3> QED BY <3>2
  <2> QED BY <2>1, <2>2
<1> QED BY <1>1, <1>2, <1>4, <1>5

\* run has the bodies of the frames that end within the first k bytes of data.
Gathers(run, data) ==
    /\ run \in [0..Len(data) -> Seq(Seq(Byte))] /\ run[0] = <<>>
    /\ \A k \in 1..Len(data) : run[k] = run[k - 1] \o SetToSeq(Ends(data, k))

LEMMA GatherIs ==
    ASSUME Alphabet = Byte, NEW data \in Seq(Byte)
    PROVE  \E run : Gathers(run, data) /\ IntactFrames(data) = run[Len(data)]
<1> DEFINE n == Len(data)
           D == DOMAIN data
           S == Seq(Seq(Byte))
           base == <<>>
           Op(out, i) == out \o SetToSeq(Ends(data, i))
           step == [p \in S \X (1..n) |-> Op(p[1], p[2])]
           Folds(g) == g = [s \in SUBSET D |->
                      IF s = {} THEN base
                      ELSE Op(g[s \ {Max(s)}], [i \in DOMAIN data |-> i][Max(s)])]
           iter == CHOOSE iter : Folds(iter)
<1>1. IntactFrames(data) = iter[D]
  BY DEF IntactFrames, FoldLeftDomain, FoldLeft, MapThenFoldSet, Ends
<1>2. D = 1..n /\ n \in Nat /\ base \in S
  OBVIOUS
<1>3. step \in [S \X (1..n) -> S]
  <2>1. \A p \in S \X (1..n) : Op(p[1], p[2]) \in S
    <3> TAKE p \in S \X (1..n)
    <3>1. p[1] \in S /\ p[2] \in 1..n
      OBVIOUS
    <3>2. SetToSeq(Ends(data, p[2])) \in S
      BY <3>1, OneEnds
    <3> DEFINE t == SetToSeq(Ends(data, p[2]))
    <3> HIDE DEF t
    <3>3. p[1] \o t \in S
      BY <3>1, <3>2 DEF t
    <3> QED BY <3>3 DEF t
  <2> HIDE DEF S, Op
  <2> QED BY <2>1
<1>4. PICK g \in [SUBSET (1..n) -> S] : FoldsLeft(g, n, base, step)
  <2> HIDE DEF n, step, S, base
  <2> QED BY <1>2, <1>3, LeftFoldExists
<1>5. ASSUME NEW s \in (SUBSET D) \ {{}}
      PROVE  g[s] = Op(g[s \ {Max(s)}], [i \in DOMAIN data |-> i][Max(s)])
  <2>1. Max(s) \in 1..n
    <3>1. s \in SUBSET (0..n) /\ s # {}
      BY <1>2
    <3> QED BY <1>2, <3>1, GreatestOf
  <2>2. g[s \ {Max(s)}] \in S
    BY <1>2, <1>4
  <2>3. g[s] = step[<<g[s \ {Max(s)}], Max(s)>>]
    BY <1>2, <1>4 DEF FoldsLeft
  <2>4. [i \in DOMAIN data |-> i][Max(s)] = Max(s)
    BY <1>2, <2>1
  <2> HIDE DEF S, n, Op
  <2> QED BY <2>1, <2>2, <2>3, <2>4
<1>6. Folds(g)
  <2>1. g = [s \in SUBSET D |-> g[s]] /\ g[{}] = base
    BY <1>2, <1>4 DEF FoldsLeft
  <2>2. \A s \in SUBSET D :
          g[s] = IF s = {} THEN base
                 ELSE Op(g[s \ {Max(s)}], [i \in DOMAIN data |-> i][Max(s)])
    BY <1>5, <2>1
  <2> HIDE DEF Op
  <2> QED BY <2>1, <2>2
<1> HIDE DEF Folds
<1>7. Folds(iter)
  BY <1>6
<1> HIDE DEF iter
<1>8. \A s \in SUBSET D :
        iter[s] = IF s = {} THEN base
                  ELSE Op(iter[s \ {Max(s)}], [i \in DOMAIN data |-> i][Max(s)])
  <2> HIDE DEF Op
  <2> QED BY <1>7 DEF Folds
<1> DEFINE run == [k \in 0..n |-> iter[1..k]]
<1>9. run[0] = base
  <2>1. 1..0 = {} /\ 0 \in 0..n
    OBVIOUS
  <2> QED BY <1>8, <2>1
<1>10. ASSUME NEW k \in 1..n PROVE run[k] = Op(run[k - 1], k)
  <2>1. 1..k \in SUBSET D /\ k \in 0..n /\ k - 1 \in 0..n
    BY <1>2
  <2>2. 1..k # {} /\ Max(1..k) = k /\ (1..k) \ {k} = 1..(k - 1)
    BY SMTT(30), <1>2, PrefixStep
  <2>3. [i \in DOMAIN data |-> i][k] = k
    BY <1>2
  <2>4. iter[1..k] = Op(iter[1..(k - 1)], k)
    <3> HIDE DEF Op, D
    <3> QED BY <1>8, <2>1, <2>2, <2>3
  <2> HIDE DEF Op
  <2> QED BY <2>1, <2>4
<1> HIDE DEF run, Op
<1>11. \A k \in 0..n : run[k] \in S
  <2> DEFINE I == {k \in 0..n : run[k] \in S}
  <2>1. 0 \in I
    <3> HIDE DEF S, base
    <3> QED BY <1>2, <1>9
  <2>2. ASSUME NEW k \in 1..n, k - 1 \in I PROVE k \in I
    <3>1. run[k] = step[<<run[k - 1], k>>] /\ run[k - 1] \in S
      BY <1>10, <2>2
    <3> HIDE DEF step, S
    <3> QED BY <1>3, <2>2, <3>1
  <2> HIDE DEF I, n
  <2>3. 0..n \subseteq I
    BY <1>2, <2>1, <2>2, CountingUp
  <2> QED BY <2>3 DEF I
<1>12. Gathers(run, data)
  <2>1. run = [k \in 0..n |-> run[k]]
    BY DEF run
  <2>2. run \in [0..Len(data) -> Seq(Seq(Byte))]
    BY <1>11, <2>1
  <2>3. \A k \in 1..Len(data) : run[k] = run[k - 1] \o SetToSeq(Ends(data, k))
    BY <1>10 DEF Op
  <2> QED BY <1>9, <2>2, <2>3 DEF Gathers
<1>13. run[n] = iter[D]
  BY <1>2 DEF run
<1> QED BY <1>1, <1>12, <1>13

\* Where no frame ends, none is gathered.
LEMMA GatherStays ==
    ASSUME Alphabet = Byte, NEW data \in Seq(Byte), NEW run, Gathers(run, data),
           NEW a \in 0..Len(data), NEW b \in a..Len(data),
           \A i : \A k \in (a + 1)..b : ~Frame(data, i, k)
    PROVE  run[b] = run[a]
<1> DEFINE m == b - a
           I == {k \in 0..m : run[a + k] = run[a]}
<1>1. m \in Nat /\ a + m = b /\ a + 0 = a /\ a \in Nat
  OBVIOUS
<1>2. 0 \in I
  BY <1>1
<1>3. ASSUME NEW k \in 1..m, k - 1 \in I PROVE k \in I
  <2> DEFINE j == a + k
  <2>1. j \in (a + 1)..b /\ j \in 1..Len(data) /\ j - 1 = a + (k - 1)
    BY <1>1
  <2>2. run[j - 1] = run[a]
    BY <1>3, <2>1
  <2> HIDE DEF j
  <2>3. SetToSeq(Ends(data, j)) = <<>>
    BY <2>1, OneEnds
  <2>4. run[j] = run[j - 1] \o SetToSeq(Ends(data, j))
    BY <2>1 DEF Gathers
  <2>5. run[j - 1] \in Seq(Seq(Byte))
    <3>1. j - 1 \in 0..Len(data)
      BY <2>1
    <3> QED BY <3>1 DEF Gathers
  <2>6. run[j] = run[a]
    BY <2>2, <2>3, <2>4, <2>5
  <2> QED BY <2>6 DEF j
<1> HIDE DEF I, m
<1>4. 0..m \subseteq I
  BY <1>1, <1>2, <1>3, CountingUp
<1>5. run[a + m] = run[a]
  BY <1>1, <1>4 DEF I
<1> QED BY <1>1, <1>5

LEMMA ListsAssociate ==
    ASSUME NEW s \in Seq(Seq(Byte)), NEW t \in Seq(Seq(Byte)), NEW u \in Seq(Seq(Byte))
    PROVE  (s \o t) \o u = s \o (t \o u)
<1> DEFINE T == Seq(Byte)
<1>1. s \in Seq(T) /\ t \in Seq(T) /\ u \in Seq(T)
  OBVIOUS
<1>2. \A x, y, z \in Seq(T) : (x \o y) \o z = x \o (y \o z)
  <2> HIDE DEF T
  <2> SUFFICES ASSUME NEW x \in Seq(T), NEW y \in Seq(T), NEW z \in Seq(T)
               PROVE  (x \o y) \o z = x \o (y \o z)
    OBVIOUS
  <2> QED BY ConcatAssociative, SMTT(30)
<1> HIDE DEF T
<1> QED BY <1>1, <1>2

\* What is found in data from i on: the frames that end there, unless one began
\* earlier; what is consumed ends the last of them.
Finds(r, run, data, i) ==
    (\A j, e : Frame(data, j, e) /\ j < i => e < i) =>
        /\ r.frames \in Seq(Seq(Byte)) /\ run[Len(data)] = run[i - 1] \o r.frames
        /\ r.consumed # 0 => \E j : j >= i /\ Frame(data, j, r.consumed)
        /\ \A j, e : Frame(data, j, e) /\ j >= i => e =< r.consumed

LEMMA FindsNothing ==
    ASSUME Alphabet = Byte, NEW data \in Seq(Byte), NEW run, Gathers(run, data),
           NEW i \in 1..(Len(data) + 1), \A j, e : Frame(data, j, e) => j < i
    PROVE  Finds(Nothing, run, data, i)
<1> DEFINE n == Len(data)
<1>1. n \in Nat /\ i - 1 \in 0..n /\ n \in (i - 1)..n /\ (i - 1) + 1 = i
  OBVIOUS
<1> SUFFICES ASSUME \A j, e : Frame(data, j, e) /\ j < i => e < i
             PROVE  /\ Nothing.frames \in Seq(Seq(Byte))
                    /\ run[n] = run[i - 1] \o Nothing.frames
                    /\ Nothing.consumed = 0
                    /\ \A j, e : Frame(data, j, e) /\ j >= i => FALSE
  BY DEF Finds
<1>2. Nothing.frames = <<>> /\ Nothing.consumed = 0
  BY DEF Nothing
<1>3. \A j, k : k \in i..n => ~Frame(data, j, k)
  BY <1>1, FrameIs
<1>4. run[n] = run[i - 1]
  <2> DEFINE a == i - 1
  <2>1. a \in 0..n /\ n \in a..n /\ a + 1 = i
    BY <1>1
  <2> HIDE DEF a
  <2> QED BY <1>3, <2>1, GatherStays DEF a
<1>5. run[n] \in Seq(Seq(Byte))
  BY <1>1 DEF Gathers
<1>6. \A j, e : Frame(data, j, e) /\ j >= i => FALSE
  BY FrameIs
<1> QED BY <1>2, <1>4, <1>5, <1>6

\* Where no frame begins, what is found is what is found behind.
LEMMA FindsNext ==
    ASSUME Alphabet = Byte, NEW data \in Seq(Byte), NEW run, Gathers(run, data),
           NEW i \in 1..Len(data), \A e : ~Frame(data, i, e),
           NEW x, Finds(x, run, data, i + 1),
           NEW r, r.frames = x.frames, r.consumed = x.consumed
    PROVE  Finds(r, run, data, i)
<1> DEFINE n == Len(data)
           next == i + 1
<1>1. /\ n \in Nat /\ i \in Nat /\ i - 1 \in 0..n /\ i \in (i - 1)..n /\ (i - 1) + 1 = i
      /\ next - 1 = i /\ \A j \in Nat : (j < next <=> j < i \/ j = i) /\ (j >= i <=> j = i \/ j >= next)
  OBVIOUS
<1> SUFFICES ASSUME \A j, e : Frame(data, j, e) /\ j < i => e < i
             PROVE  /\ r.frames \in Seq(Seq(Byte)) /\ run[n] = run[i - 1] \o r.frames
                    /\ r.consumed # 0 => \E j : j >= i /\ Frame(data, j, r.consumed)
                    /\ \A j, e : Frame(data, j, e) /\ j >= i => e =< r.consumed
  BY DEF Finds
<1>2. \A j, e : Frame(data, j, e) => j \in 1..n /\ e \in (j + 1)..n
  BY FrameIs
<1>3. ASSUME NEW j, NEW e, Frame(data, j, e), j < next PROVE e < next
  <2>1. j # i /\ j \in Nat /\ e \in Nat
    BY <1>2, <1>3
  <2>2. e < i
    BY <1>1, <1>3, <2>1
  <2> QED BY <1>1, <2>1, <2>2
<1>4. /\ x.frames \in Seq(Seq(Byte)) /\ run[n] = run[next - 1] \o x.frames
      /\ x.consumed # 0 => \E j : j >= next /\ Frame(data, j, x.consumed)
      /\ \A j, e : Frame(data, j, e) /\ j >= next => e =< x.consumed
  BY <1>3 DEF Finds
<1>5. run[i] = run[i - 1]
  <2> DEFINE a == i - 1
  <2>1. a \in 0..n /\ i \in a..n /\ \A k \in (a + 1)..i : k = i
    BY <1>1
  <2>2. \A j : ~Frame(data, j, i)
    <3> SUFFICES ASSUME NEW j, Frame(data, j, i) PROVE FALSE
      OBVIOUS
    <3>1. j < i
      BY <1>2
    <3>2. i < i
      BY <3>1
    <3> QED BY <1>1, <3>2
  <2> HIDE DEF a
  <2>3. run[i] = run[a]
    BY <2>1, <2>2, GatherStays
  <2> QED BY <2>3 DEF a
<1>6. ASSUME x.consumed # 0 PROVE \E j : j >= i /\ Frame(data, j, x.consumed)
  <2>1. PICK j : j >= next /\ Frame(data, j, x.consumed)
    BY <1>4, <1>6
  <2>2. j \in 1..n
    BY <1>2, <2>1
  <2> QED BY <1>1, <2>1, <2>2
<1>7. ASSUME NEW j, NEW e, Frame(data, j, e), j >= i PROVE e =< x.consumed
  <2>1. j \in Nat /\ j # i
    BY <1>2, <1>7
  <2> QED BY <1>1, <1>4, <1>7, <2>1
<1> QED BY <1>1, <1>4, <1>5, <1>6, <1>7

\* A frame is returned, before those found behind it.
LEMMA FindsFrame ==
    ASSUME Alphabet = Byte, NEW data \in Seq(Byte), NEW run, Gathers(run, data),
           NEW i, NEW e, Frame(data, i, e),
           NEW x \in Findings(data), Finds(x, run, data, e + 1),
           NEW r, r.frames = <<Unstuff(Raw(data, i, e))>> \o x.frames,
           r.consumed = IF x.consumed = 0 THEN e ELSE x.consumed
    PROVE  Finds(r, run, data, i)
<1> DEFINE n == Len(data)
           next == e + 1
           body == Unstuff(Raw(data, i, e))
<1>1. i \in 1..n /\ e \in (i + 1)..n /\ n \in Nat /\ x.consumed \in Nat
  BY FrameIs DEF Findings
<1>2. e \in 1..n /\ i - 1 \in 0..n /\ e - 1 \in (i - 1)..n /\ (i - 1) + 1 = i /\ next - 1 = e
  BY <1>1
<1> HIDE DEF next
<1> SUFFICES ASSUME \A j, f : Frame(data, j, f) /\ j < i => f < i
             PROVE  /\ r.frames \in Seq(Seq(Byte)) /\ run[n] = run[i - 1] \o r.frames
                    /\ r.consumed # 0 => \E j : j >= i /\ Frame(data, j, r.consumed)
                    /\ \A j, f : Frame(data, j, f) /\ j >= i => f =< r.consumed
  BY DEF Finds
<1>3. ASSUME NEW j, NEW f, Frame(data, j, f)
      PROVE  /\ j \in 1..n /\ f \in (j + 1)..n
             /\ \/ j < i /\ f < i
                \/ j = i /\ f = e
                \/ j > e
  <2>1. j \in 1..n /\ f \in (j + 1)..n
    BY <1>3, FrameIs
  <2>2. j < i => f < i
    BY <1>3
  <2>3. j = i => f = e
    BY <1>3 DEF Frame
  <2>4. i < j => e < j
    BY <1>3, FramesApart
  <2> QED BY <1>1, <2>1, <2>2, <2>3, <2>4
<1>4. ASSUME NEW j, NEW f, Frame(data, j, f), j < next PROVE f < next
  BY <1>1, <1>3, <1>4 DEF next
<1>5. /\ x.frames \in Seq(Seq(Byte)) /\ run[n] = run[next - 1] \o x.frames
      /\ x.consumed # 0 => \E j : j >= next /\ Frame(data, j, x.consumed)
      /\ \A j, f : Frame(data, j, f) /\ j >= next => f =< x.consumed
  BY <1>4 DEF Finds, next
<1>6. run[e - 1] = run[i - 1]
  <2> DEFINE a == i - 1
             b == e - 1
  <2>1. a \in 0..n /\ b \in a..n /\ \A k \in (a + 1)..b : k >= i /\ k < e
    BY <1>1
  <2>2. ASSUME NEW j, NEW k \in (a + 1)..b, Frame(data, j, k) PROVE FALSE
    <3>1. k >= i /\ k < e /\ k \in Int
      BY <2>1, <2>2
    <3>2. /\ j \in 1..n /\ k \in (j + 1)..n
          /\ (j < i /\ k < i) \/ (j = i /\ k = e) \/ j > e
      BY <1>3, <2>2
    <3> HIDE DEF a, b
    <3> QED BY <1>1, <3>1, <3>2
  <2> HIDE DEF a, b
  <2>3. run[b] = run[a]
    BY <2>1, <2>2, GatherStays
  <2> QED BY <2>3 DEF a, b
<1>7. body \in Seq(Byte) /\ SetToSeq(Ends(data, e)) = <<body>>
  BY <1>2, OneEnds
<1> HIDE DEF body
<1>8. run[e] = run[i - 1] \o <<body>>
  <2>1. run[e] = run[e - 1] \o SetToSeq(Ends(data, e))
    BY <1>2 DEF Gathers
  <2> QED BY <1>6, <1>7, <2>1
<1>9. run[i - 1] \in Seq(Seq(Byte))
  BY <1>2 DEF Gathers
<1>10. r.frames \in Seq(Seq(Byte)) /\ run[n] = run[i - 1] \o r.frames
  <2> DEFINE s == run[i - 1]
             t == <<body>>
             u == x.frames
  <2>1. s \in Seq(Seq(Byte)) /\ t \in Seq(Seq(Byte)) /\ u \in Seq(Seq(Byte))
    BY <1>5, <1>7, <1>9
  <2>2. r.frames = t \o u /\ run[n] = (s \o t) \o u
    BY <1>2, <1>5, <1>8 DEF body
  <2> HIDE DEF s, t, u
  <2>3. t \o u \in Seq(Seq(Byte))
    BY <2>1
  <2>4. (s \o t) \o u = s \o (t \o u)
    BY <2>1, ListsAssociate
  <2> QED BY <2>2, <2>3, <2>4 DEF s
<1>11. r.consumed >= e /\ \E j : j >= i /\ Frame(data, j, r.consumed)
  <2>1. CASE x.consumed = 0
    <3>1. r.consumed = e
      BY <2>1
    <3> QED BY <1>1, <3>1
  <2>2. CASE x.consumed # 0
    <3>1. PICK j : j >= next /\ Frame(data, j, x.consumed)
      BY <1>5, <2>2
    <3>2. j \in 1..n /\ x.consumed \in (j + 1)..n
      BY <1>3, <3>1
    <3>3. j >= i /\ x.consumed >= e
      BY <1>1, <3>1, <3>2 DEF next
    <3> QED BY <2>2, <3>1, <3>3
  <2> QED BY <2>1, <2>2
<1>12. ASSUME NEW j, NEW f, Frame(data, j, f), j >= i PROVE f =< r.consumed
  <2>1. /\ j \in 1..n /\ f \in (j + 1)..n
        /\ (j < i /\ f < i) \/ (j = i /\ f = e) \/ j > e
    BY <1>3, <1>12
  <2>2. CASE j = i /\ f = e
    BY <1>1, <1>11, <2>2
  <2>3. CASE j > e
    <3>1. j >= next
      BY <1>1, <2>1, <2>3 DEF next
    <3>2. f =< x.consumed
      BY <1>5, <1>12, <3>1
    <3>3. x.consumed # 0
      BY <1>1, <2>1, <3>2
    <3> QED BY <3>2, <3>3
  <2> QED BY <1>1, <1>12, <2>1, <2>2, <2>3
<1> QED BY <1>10, <1>11, <1>12

\* What a call finds from i on, if it finds what there is behind.
LEMMA FindsAt ==
    ASSUME Alphabet = Byte, NEW data \in Seq(Byte), NEW run, Gathers(run, data),
           NEW from, Searches(from, data), NEW i \in 1..(Len(data) + 1),
           \A j \in (i + 1)..(Len(data) + 1) : Finds(from[j], run, data, j)
    PROVE  Finds(from[i], run, data, i)
<1> DEFINE e == FrameEnd(data, i + 1)
           raw == SubSeq(data, i + 1, e - 1)
           r == from[i]
           n == Len(data)
<1>1. r = FoundAt(data, from, i) /\ n \in Nat
  BY DEF Searches
<1>2. CASE i > n
  <2>1. r = Nothing
    BY <1>1, <1>2, Zenon DEF FoundAt
  <2>2. \A j, f : Frame(data, j, f) => j < i
    <3>1. \A j, f : Frame(data, j, f) => j \in 1..n
      BY FrameIs
    <3> QED BY <1>1, <1>2, <3>1
  <2> QED BY <2>1, <2>2, FindsNothing
<1>3. CASE ~(i > n)
  <2>1. /\ i \in 1..n /\ i + 1 \in (i + 1)..(n + 1) /\ i + 1 \in 1..(n + 1) /\ i \in DOMAIN data
        /\ \A j \in 1..n : j < i \/ j \in i..n
        /\ \A j \in i..n : j = i \/ j \in (i + 1)..n
    BY <1>3
  <2>2. EndsAt(data, i + 1, e)
    BY <2>1, FrameEndIs
  <2>3. e # 0 => e \in (i + 1)..n /\ data[e] \in {Start, End}
    BY <2>2 DEF EndsAt, Delimits
  <2>4. Finds(from[i + 1], run, data, i + 1) /\ from[i + 1] \in Findings(data)
    BY <2>1 DEF Searches
  <2>5. CASE r = from[i + 1] /\ (data[i] # Start \/ e = 0)
    <3>1. \A f : ~Frame(data, i, f)
      BY <2>5 DEF Frame, Framed
    <3> QED BY <2>1, <2>4, <2>5, <3>1, FindsNext
  <2>6. CASE r = Nothing /\ data[i] = Start /\ e = 0
    <3>1. ASSUME NEW j, NEW f, Frame(data, j, f) PROVE j < i
      <4>1. j \in 1..n /\ data[j] = Start /\ FrameEnd(data, j + 1) # 0
        BY <3>1, FrameIs DEF Frame, Framed
      <4>2. j # i
        BY <2>6, <4>1
      <4>3. j \notin (i + 1)..n
        BY <2>1, <2>6, <4>1, NoneEnds
      <4> QED BY <2>1, <4>1, <4>2, <4>3
    <3> QED BY <2>6, <3>1, FindsNothing
  <2>7. CASE data[i] = Start /\ e # 0 /\ data[e] = Start
    <3>1. r = Counted("truncated", from[i + 1])
      BY <1>1, <1>3, <2>7, Zenon DEF FoundAt
    <3>2. r.frames = from[i + 1].frames /\ r.consumed = from[i + 1].consumed
      BY <2>4, <3>1, RejectionCounts DEF Rejections
    <3>3. \A f : ~Frame(data, i, f)
      BY <2>7, ByteFacts DEF Frame, Framed
    <3> QED BY <2>1, <2>4, <3>2, <3>3, FindsNext
  <2>8. CASE data[i] = Start /\ e # 0 /\ data[e] # Start /\ Verdict(raw) # "frames"
    <3>1. r = Counted(Verdict(raw), from[i + 1])
      BY <1>1, <1>3, <2>8, Zenon DEF FoundAt, AfterReject
    <3>2. Verdict(raw) \in Rejections \cup {"none"}
      BY <2>8, VerdictType DEF Counters
    <3>3. r.frames = from[i + 1].frames /\ r.consumed = from[i + 1].consumed
      BY <2>4, <3>1, <3>2, RejectionCounts
    <3>4. \A f : ~Frame(data, i, f)
      BY <2>8 DEF Frame, Framed
    <3> QED BY <2>1, <2>4, <3>3, <3>4, FindsNext
  <2>9. CASE data[i] = Start /\ e # 0 /\ data[e] # Start /\ Verdict(raw) = "frames"
    <3>1. r = Returned(Unstuff(raw), e, from[e + 1])
      BY <1>1, <1>3, <2>9, Zenon DEF FoundAt
    <3>2. Frame(data, i, e)
      BY <2>1, <2>3, <2>9 DEF Frame, Framed
    <3>3. e + 1 \in (i + 1)..(n + 1) /\ e + 1 \in 1..(n + 1)
      <4>1. e \in (i + 1)..n
        BY <2>3, <2>9
      <4> HIDE DEF e
      <4> QED BY <2>1, <4>1
    <3>4. from[e + 1] \in Findings(data) /\ Finds(from[e + 1], run, data, e + 1)
      BY <3>3 DEF Searches
    <3> DEFINE x == from[e + 1]
    <3>5. /\ r.frames = <<Unstuff(raw)>> \o x.frames
          /\ r.consumed = IF x.consumed = 0 THEN e ELSE x.consumed
      <4> HIDE DEF e, raw, r
      <4>1. x \in Findings(data)
        BY <3>4
      <4> HIDE DEF x
      <4> QED BY <3>1, <4>1 DEF Returned, Counted, Findings, x
    <3>6. raw = Raw(data, i, e)
      BY DEF Raw
    <3> HIDE DEF e, raw, x, r
    <3> QED BY <3>2, <3>4, <3>5, <3>6, FindsFrame DEF x, r
  <2>10. data[i] # Start => r = from[i + 1]
    BY <1>1, <1>3, Zenon DEF FoundAt
  <2>11. data[i] = Start /\ e = 0 => r \in {Nothing, from[i + 1]}
    BY <1>1, <1>3, Zenon DEF FoundAt
  <2> HIDE DEF e, r, raw
  <2> QED BY <2>5, <2>6, <2>7, <2>8, <2>9, <2>10, <2>11 DEF r
<1> QED BY <1>2, <1>3

\* One call returns the frames there are in the buffer, and consumes up to the
\* end of the last.
LEMMA ParseFinds ==
    ASSUME Alphabet = Byte, NEW data \in Seq(Byte)
    PROVE  /\ Parse(data).frames = IntactFrames(data)
           /\ Parse(data).frames \in Seq(Seq(Byte)) /\ Parse(data).consumed \in 0..Len(data)
           /\ Parse(data).consumed # 0 => \E j : Frame(data, j, Parse(data).consumed)
           /\ \A j, e : Frame(data, j, e) => e =< Parse(data).consumed
<1> DEFINE n == Len(data) + 1
<1>1. PICK from : Searches(from, data) /\ Parse(data) = from[1]
  BY ParseIs
<1>2. PICK run : Gathers(run, data) /\ IntactFrames(data) = run[Len(data)]
  BY GatherIs
<1> DEFINE I == {m \in 0..n : \A i \in (n - m + 1)..n : Finds(from[i], run, data, i)}
<1>3. n \in Nat \ {0} /\ 1 \in 1..n
  OBVIOUS
<1>4. 0 \in I
  BY <1>3
<1>5. ASSUME NEW m \in 1..n, m - 1 \in I PROVE m \in I
  <2> DEFINE at == n - m + 1
  <2>1. at \in 1..n /\ \A j \in (at + 1)..n : Finds(from[j], run, data, j)
    BY <1>3, <1>5
  <2>2. Finds(from[at], run, data, at)
    <3> HIDE DEF at
    <3> QED BY <1>1, <1>2, <2>1, FindsAt
  <2>3. m \in 0..n /\ \A i \in at..n : i = at \/ i \in (at + 1)..n
    BY <1>3
  <2> HIDE DEF n
  <2> QED BY <2>1, <2>2, <2>3, Zenon
<1>6. from[1] \in Findings(data)
  BY <1>1, <1>3 DEF Searches
<1> HIDE DEF I, n
<1>7. 0..n \subseteq I
  BY <1>3, <1>4, <1>5, CountingUp
<1>8. n \in I /\ 1 \in (n - n + 1)..n
  BY <1>3, <1>7
<1>9. Finds(from[1], run, data, 1)
  BY <1>8 DEF I
<1>10. \A j, e : Frame(data, j, e) => j >= 1 /\ ~(j < 1)
  BY FrameIs
<1> DEFINE r == from[1]
<1>11. /\ r.frames \in Seq(Seq(Byte)) /\ run[Len(data)] = run[1 - 1] \o r.frames
       /\ r.consumed # 0 => \E j : j >= 1 /\ Frame(data, j, r.consumed)
       /\ \A j, e : Frame(data, j, e) /\ j >= 1 => e =< r.consumed
  <2> HIDE DEF r
  <2> QED BY <1>9, <1>10 DEF Finds, r
<1>12. run[1 - 1] = <<>>
  BY <1>2 DEF Gathers
<1>13. r.consumed \in 0..Len(data)
  BY <1>6 DEF Findings
<1> HIDE DEF r
<1>14. run[Len(data)] = r.frames
  BY <1>11, <1>12
<1> QED BY <1>1, <1>2, <1>10, <1>11, <1>13, <1>14 DEF r

\* A frame of part of a stream is one of the stream, and one of the stream that
\* is within the part is one of the part.
LEMMA WindowFrame ==
    ASSUME NEW part, NEW data, NEW c, Window(part, data, c), NEW i \in Nat, NEW e \in Nat
    PROVE  /\ Frame(part, i, e) => Frame(data, c + i, c + e)
           /\ i \in 1..Len(part) /\ e =< Len(part) /\ Frame(data, c + i, c + e) => Frame(part, i, e)
<1> DEFINE n == Len(part)
<1>1. /\ part \in Seq(Byte) /\ data \in Seq(Byte) /\ c \in Nat /\ n \in Nat /\ Len(data) \in Nat
      /\ c + n =< Len(data) /\ \A j \in 1..n : part[j] = data[c + j]
  BY DEF Window
<1>2. ASSUME Frame(part, i, e) PROVE Frame(data, c + i, c + e)
  <2>1. i \in 1..n /\ part[i] = Start /\ FrameEnd(part, i + 1) = e /\ e # 0 /\ Framed(part, i)
    BY <1>2 DEF Frame, Framed
  <2>2. FrameEnd(data, c + i + 1) = e + c /\ Framed(data, c + i)
    BY <2>1, WindowFrames
  <2>3. data[c + i] = Start /\ c + i \in 1..Len(data) /\ e + c = c + e
    BY <1>1, <2>1
  <2> QED BY <2>2, <2>3 DEF Frame
<1>3. ASSUME i \in 1..n, e =< n, Frame(data, c + i, c + e) PROVE Frame(part, i, e)
  <2>1. /\ data[c + i] = Start /\ FrameEnd(data, c + i + 1) = c + e /\ Framed(data, c + i)
    BY <1>3 DEF Frame
  <2>2. c + e \in (c + i + 1)..(c + n)
    <3>1. c + e \in (c + i + 1)..Len(data)
      BY <1>1, <1>3, FrameIs
    <3> QED BY <1>1, <1>3, <3>1
  <2>3. FrameEnd(part, i + 1) = (c + e) - c /\ Framed(part, i)
    BY <1>3, <2>1, <2>2, WindowFrames
  <2>4. (c + e) - c = e /\ part[i] = Start
    BY <1>1, <1>3, <2>1
  <2> QED BY <1>3, <2>3, <2>4 DEF Frame
<1> QED BY <1>2, <1>3

\* No frame began in the first c bytes and ends behind them.
NoneAcross(data, c) == \A i, e : Frame(data, i, e) /\ i =< c => e =< c

\* The run behind c bytes goes on as another does from its beginning.
GoesOn(run, c, other, n) == run[c + n] = run[c] \o other[n]

\* What is gathered of part of a stream is gathered of the stream meanwhile, if
\* no frame began before that part and ends in it.
LEMMA GatherWindow ==
    ASSUME Alphabet = Byte, NEW part, NEW data, NEW c, Window(part, data, c), NoneAcross(data, c),
           NEW rp, Gathers(rp, part), NEW rd, Gathers(rd, data)
    PROVE  GoesOn(rd, c, rp, Len(part))
<1> USE DEF NoneAcross, GoesOn
<1> DEFINE n == Len(part)
           S == Seq(Seq(Byte))
           I == {k \in 0..n : rd[c + k] = rd[c] \o rp[k]}
<1>1. /\ part \in Seq(Byte) /\ data \in Seq(Byte) /\ c \in Nat /\ n \in Nat /\ Len(data) \in Nat
      /\ c + n =< Len(data) /\ \A j \in 1..n : part[j] = data[c + j]
  BY DEF Window
<1>2. c \in 0..Len(data) /\ c + 0 = c /\ rd[c] \in S /\ \A k \in 0..n : rp[k] \in S
  <2>1. c \in 0..Len(data) /\ c + 0 = c
    <3> HIDE DEF n
    <3> QED BY <1>1
  <2>2. rd \in [0..Len(data) -> S] /\ rp \in [0..n -> S]
    BY DEF Gathers
  <2> HIDE DEF S, n
  <2> QED BY <2>1, <2>2
<1>3. 0 \in I
  <2>1. rp[0] = <<>> /\ rd[c] \o <<>> = rd[c]
    BY <1>2 DEF Gathers
  <2>2. rd[c + 0] = rd[c] \o rp[0]
    BY <1>2, <2>1, Zenon
  <2>3. 0 \in 0..n
    BY <1>1
  <2> QED BY <2>2, <2>3
<1>4. ASSUME NEW k \in 1..n, k - 1 \in I PROVE k \in I
  <2> DEFINE m == c + k
             s == rd[c]
             t == rp[k - 1]
             u == SetToSeq(Ends(part, k))
  <2>1. k - 1 \in 0..n /\ m \in 1..Len(data) /\ m - 1 = c + (k - 1) /\ k \in Nat /\ m \in Nat
    <3> HIDE DEF n, I
    <3> QED BY <1>1
  <2>2. SetToSeq(Ends(data, m)) = u
    <3>1. CASE \E i : Frame(part, i, k)
      <4>1. PICK i : Frame(part, i, k)
        BY <3>1
      <4>2. /\ i \in 1..n /\ i \in Nat /\ k \in (i + 1)..n /\ Len(Raw(part, i, k)) = k - 1 - i
            /\ Raw(part, i, k) \in Seq(Byte)
            /\ \A j \in 1..(k - 1 - i) : Raw(part, i, k)[j] = part[i + j]
        BY <1>1, <4>1, FrameIs
      <4>3. Frame(data, c + i, m)
        BY <2>1, <4>1, <4>2, WindowFrame
      <4>4. /\ Len(Raw(data, c + i, m)) = m - 1 - (c + i) /\ Raw(data, c + i, m) \in Seq(Byte)
            /\ \A j \in 1..(m - 1 - (c + i)) : Raw(data, c + i, m)[j] = data[c + i + j]
        BY <1>1, <4>3, FrameIs
      <4>5. Raw(part, i, k) = Raw(data, c + i, m)
        <5> DEFINE a == Raw(part, i, k)
                   b == Raw(data, c + i, m)
                   l == k - 1 - i
        <5>1. l \in Nat /\ m - 1 - (c + i) = l
          BY <1>1, <4>2
        <5>2. a \in Seq(Byte) /\ b \in Seq(Byte) /\ Len(a) = l /\ Len(b) = l
          BY <4>2, <4>4, <5>1
        <5>3. ASSUME NEW j \in 1..l PROVE a[j] = b[j]
          <6>1. i + j \in 1..n /\ c + (i + j) = c + i + j
            BY <1>1, <4>2
          <6>2. a[j] = part[i + j] /\ part[i + j] = data[c + (i + j)]
            BY <1>1, <4>2, <6>1
          <6>3. b[j] = data[c + i + j]
            BY <4>4, <5>1
          <6> QED BY <6>1, <6>2, <6>3
        <5> HIDE DEF a, b, l
        <5>4. a = b
          BY <5>2, <5>3, SeqEqual
        <5> QED BY <5>4 DEF a, b
      <4> DEFINE body == Unstuff(Raw(part, i, k))
      <4>6. u = <<body>>
        BY <1>1, <4>1, OneEnds
      <4>7. SetToSeq(Ends(data, m)) = <<Unstuff(Raw(data, c + i, m))>>
        <5> HIDE DEF m
        <5> QED BY <1>1, <2>1, <4>3, OneEnds DEF m
      <4> QED BY <4>5, <4>6, <4>7
    <3>2. CASE \A i : ~Frame(part, i, k)
      <4>1. ASSUME NEW j, Frame(data, j, m) PROVE FALSE
        <5>1. j \in 1..Len(data) /\ m \in (j + 1)..Len(data)
          BY <1>1, <4>1, FrameIs
        <5>2. ~(j =< c)
          <6>1. j =< c => m =< c
            BY <4>1
          <6> QED BY <1>1, <6>1
        <5> DEFINE i == j - c
        <5>3. i \in Nat /\ i \in 1..n /\ c + i = j /\ k =< n
          BY <1>1, <5>1, <5>2
        <5> HIDE DEF i
        <5>4. Frame(data, c + i, c + k)
          BY <4>1, <5>3
        <5>5. Frame(part, i, k)
          BY <2>1, <5>3, <5>4, WindowFrame
        <5> QED BY <3>2, <5>5
      <4>2. SetToSeq(Ends(data, m)) = <<>>
        <5> HIDE DEF m
        <5> QED BY <1>1, <2>1, <4>1, OneEnds
      <4>3. u = <<>>
        BY <1>1, <3>2, OneEnds
      <4> QED BY <4>2, <4>3
    <3> QED BY <3>1, <3>2
  <2>3. rp[k] = t \o u
    BY <1>1 DEF Gathers
  <2>4. rd[m] = rd[m - 1] \o u
    <3> HIDE DEF m, u
    <3> QED BY <2>1, <2>2 DEF Gathers
  <2>5. rd[m - 1] = s \o t
    BY <1>4, <2>1
  <2>6. s \in S /\ t \in S /\ u \in S
    BY <1>1, <1>2, <2>1, OneEnds
  <2> HIDE DEF s, t, u, m, S
  <2>7. (s \o t) \o u = s \o (t \o u)
    BY <2>6, ListsAssociate DEF S
  <2>8. rd[m] = s \o rp[k]
    BY <2>3, <2>4, <2>5, <2>7
  <2>9. rd[c + k] = rd[c] \o rp[k]
    BY <2>8 DEF s, m
  <2>10. k \in 0..n
    BY <1>1
  <2> HIDE DEF n
  <2> QED BY <2>9, <2>10
<1> HIDE DEF I, n
<1>5. 0..n \subseteq I
  BY <1>1, <1>3, <1>4, CountingUp
<1>6. n \in I
  BY <1>1, <1>5
<1>7. rd[c + n] = rd[c] \o rp[n]
  BY <1>6, Zenon DEF I
<1> QED BY <1>7 DEF n

-----------------------------------------------------------------------------
(* What was returned, notification by notification.                       *)

\* What was received before the buffer ends with a frame, and no frame that was
\* received ends in the buffer.
IntactInv ==
    LET c == Len(received) - Len(buf)
    IN  /\ frames = IntactFrames(received)
        /\ c # 0 => \E i \in DOMAIN received : Frame(received, i, c)
        /\ \A i, e : Frame(received, i, e) => e =< c

LEMMA IntactStart ==
    ASSUME Alphabet = Byte, Init
    PROVE  IntactInv
<1>1. buf = <<>> /\ frames = <<>> /\ received = <<>>
  BY DEF Init
<1>2. <<>> \in Seq(Byte) /\ Len(<<>>) = 0 /\ 0 - 0 = 0
  OBVIOUS
<1>3. IntactFrames(<<>>) = <<>>
  <2> DEFINE none == <<>>
  <2>1. none \in Seq(Byte) /\ Len(none) = 0
    BY <1>2
  <2> HIDE DEF none
  <2>2. PICK run : Gathers(run, none) /\ IntactFrames(none) = run[0]
    BY <2>1, GatherIs
  <2>3. IntactFrames(none) = <<>>
    BY <2>2 DEF Gathers
  <2> QED BY <2>3 DEF none
<1>4. \A i, e : ~Frame(<<>>, i, e)
  BY <1>2 DEF Frame
<1> QED BY <1>1, <1>2, <1>3, <1>4 DEF IntactInv

\* Bytes received behind a stream whose frames have all been returned: what a
\* call returns then are the frames that were completed.
LEMMA FeedReturns ==
    ASSUME Alphabet = Byte, NEW s \in Seq(Byte), NEW t \in Seq(Byte), NEW c \in 0..Len(s),
           c # 0 => \E i : Frame(s, i, c),
           \A i, e : Frame(s, i, e) => e =< c,
           NEW data \in Seq(Byte), c + Len(data) = Len(s \o t), Window(data, s \o t, c)
    PROVE  LET all == s \o t
               found == Parse(data)
               d == c + found.consumed
           IN  /\ IntactFrames(all) = IntactFrames(s) \o found.frames
               /\ d # 0 => \E i : Frame(all, i, d)
               /\ \A i, e : Frame(all, i, e) => e =< d
<1> DEFINE all == s \o t
           n == Len(s)
           found == Parse(data)
           d == c + found.consumed
<1>1. all \in Seq(Byte) /\ Len(all) = n + Len(t) /\ Window(s, all, 0) /\ n \in Nat /\ Len(t) \in Nat
  BY ConcatWindows
<1>2. Window(data, all, c) /\ c + Len(data) = Len(all) /\ c \in Nat /\ Len(data) \in Nat
  OBVIOUS
<1> HIDE DEF all
<1>3. /\ found.frames = IntactFrames(data) /\ found.consumed \in 0..Len(data)
      /\ found.consumed # 0 => \E j : Frame(data, j, found.consumed)
      /\ \A j, e : Frame(data, j, e) => e =< found.consumed
  BY ParseFinds
<1> HIDE DEF found
<1>4. \A i, e : Frame(all, i, e) => i \in 1..Len(all) /\ e \in (i + 1)..Len(all)
  BY <1>1, FrameIs
<1>5. c # 0 => \E i : Frame(all, i, c)
  <2> SUFFICES ASSUME c # 0 PROVE \E i : Frame(all, i, c)
    OBVIOUS
  <2>1. PICK i : Frame(s, i, c)
    OBVIOUS
  <2>2. i \in Nat /\ 0 + i = i /\ 0 + c = c
    <3>1. i \in 1..Len(s)
      BY <2>1 DEF Frame
    <3> QED BY <1>2, <3>1
  <2>3. Frame(all, 0 + i, 0 + c)
    BY <1>1, <1>2, <2>1, <2>2, WindowFrame
  <2> QED BY <2>2, <2>3
<1>6. ASSUME NEW i, NEW e, Frame(all, i, e), i =< c PROVE e =< c
  <2>1. i \in 1..Len(all) /\ e \in (i + 1)..Len(all) /\ c # 0
    BY <1>2, <1>4, <1>6
  <2>2. PICK k : Frame(all, k, c)
    BY <1>5, <2>1
  <2>3. k \in 1..Len(all) /\ c \in (k + 1)..Len(all)
    BY <1>4, <2>2
  <2>4. k < i => c < i
    BY <1>1, <1>6, <2>2, FramesApart
  <2>5. i < k => e < k
    BY <1>1, <1>6, <2>2, FramesApart
  <2>6. i = k => e = c
    BY <1>6, <2>2 DEF Frame
  <2> QED BY <1>2, <1>6, <2>1, <2>3, <2>4, <2>5, <2>6
<1>7. ASSUME NEW i, NEW e, Frame(all, i, e), e > c
      PROVE  e =< d
  <2>1. i \in 1..Len(all) /\ e \in (i + 1)..Len(all)
    BY <1>4, <1>7
  <2>2. ~(i =< c)
    BY <1>2, <1>6, <1>7, <2>1
  <2> DEFINE j == i - c
             f == e - c
  <2>3. j \in Nat /\ f \in Nat /\ j \in 1..Len(data) /\ f =< Len(data) /\ c + j = i /\ c + f = e
    BY <1>2, <2>1, <2>2
  <2> HIDE DEF j, f
  <2>4. Frame(data, j, f)
    BY <1>2, <1>7, <2>3, WindowFrame
  <2>5. f =< found.consumed
    BY <1>3, <2>4
  <2> QED BY <1>2, <1>3, <2>3, <2>5
<1>8. \A i, e : Frame(all, i, e) => e =< d
  <2> SUFFICES ASSUME NEW i, NEW e, Frame(all, i, e) PROVE e =< d
    OBVIOUS
  <2>1. e \in Nat
    BY <1>1, <1>4
  <2>2. CASE e > c
    BY <1>7, <2>2
  <2>3. CASE ~(e > c)
    BY <1>2, <1>3, <2>1, <2>3
  <2> QED BY <2>2, <2>3
<1>9. d # 0 => \E i : Frame(all, i, d)
  <2>1. CASE found.consumed = 0
    <3>1. d = c
      BY <1>2, <2>1
    <3> HIDE DEF d
    <3> QED BY <1>5, <3>1
  <2>2. CASE found.consumed # 0
    <3>1. PICK j : Frame(data, j, found.consumed)
      BY <1>3, <2>2
    <3>2. j \in Nat /\ found.consumed \in Nat
      <4>1. j \in 1..Len(data)
        BY <3>1 DEF Frame
      <4>2. j \in Nat
        BY <1>2, <4>1
      <4> QED BY <1>2, <1>3, <4>2
    <3>3. Frame(all, c + j, c + found.consumed)
      BY <1>2, <3>1, <3>2, WindowFrame
    <3> QED BY <3>3
  <2> QED BY <2>1, <2>2
<1>10. PICK ra : Gathers(ra, all) /\ IntactFrames(all) = ra[Len(all)]
  BY <1>1, GatherIs
<1>11. PICK rs : Gathers(rs, s) /\ IntactFrames(s) = rs[n]
  BY GatherIs
<1>12. PICK rd : Gathers(rd, data) /\ IntactFrames(data) = rd[Len(data)]
  BY GatherIs
<1> HIDE DEF n, d
<1>13. ra[Len(all)] = ra[c] \o found.frames
  <2>1. NoneAcross(all, c)
    BY <1>6 DEF NoneAcross
  <2>2. Alphabet = Byte /\ Window(data, all, c) /\ Gathers(ra, all) /\ Gathers(rd, data)
    BY <1>2, <1>10, <1>12
  <2>3. ra[c + Len(data)] = ra[c] \o rd[Len(data)]
    <3>1. GoesOn(ra, c, rd, Len(data))
      BY <2>1, <2>2, GatherWindow, Zenon
    <3> QED BY <3>1 DEF GoesOn
  <2> QED BY <1>2, <1>3, <1>12, <2>3
<1>14. ra[n] = rs[n]
  <2> DEFINE z == 0
  <2>1. Window(s, all, z) /\ NoneAcross(all, z)
    BY <1>1, <1>4 DEF NoneAcross
  <2> HIDE DEF z
  <2>2. ra[z + Len(s)] = ra[z] \o rs[Len(s)]
    <3>1. Alphabet = Byte /\ Gathers(ra, all) /\ Gathers(rs, s)
      BY <1>10, <1>11
    <3>2. GoesOn(ra, z, rs, Len(s))
      BY <2>1, <3>1, GatherWindow, Zenon
    <3> QED BY <3>2 DEF GoesOn
  <2>3. z + Len(s) = n /\ Len(s) = n /\ ra[z] = <<>>
    BY <1>1, <1>10 DEF Gathers, n, z
  <2>4. rs[n] \in Seq(Seq(Byte))
    <3>1. n \in 0..Len(s)
      BY <1>1 DEF n
    <3> QED BY <1>11, <3>1 DEF Gathers
  <2>5. <<>> \o rs[n] = rs[n]
    BY <2>4
  <2> QED BY <2>2, <2>3, <2>5
<1>15. ra[n] = ra[c]
  <2>1. c \in 0..Len(all) /\ n \in c..Len(all) /\ n = Len(s)
    BY <1>1, <1>2 DEF n
  <2>2. ASSUME NEW i, NEW k \in (c + 1)..n, Frame(all, i, k) PROVE FALSE
    <3>1. i \in 1..Len(all) /\ k \in (i + 1)..Len(all)
      BY <1>4, <2>2
    <3>2. i \in Nat /\ k \in Nat /\ i \in 1..Len(s) /\ k =< Len(s) /\ 0 + i = i /\ 0 + k = k
      BY <1>1, <1>2, <2>1, <2>2, <3>1
    <3>3. Frame(s, i, k)
      BY <1>1, <2>2, <3>2, WindowFrame
    <3>4. k =< c
      BY <3>3
    <3> QED BY <1>2, <2>2, <3>2, <3>4
  <2> QED BY <1>1, <1>10, <2>1, <2>2, GatherStays
<1>16. IntactFrames(all) = IntactFrames(s) \o found.frames
  BY <1>10, <1>11, <1>13, <1>14, <1>15
<1> QED BY <1>8, <1>9, <1>16 DEF all, d, found

LEMMA IntactStep ==
    ASSUME Alphabet = Byte, TypeInv, IntactInv, [Next]_vars
    PROVE  IntactInv'
<1>1. CASE Feed
  <2>1. PICK n \in Chunks :
          LET chunk == SubSeq(wire, 1, n)
              found == Parse(buf \o chunk)
          IN  /\ Take(n)
              /\ frames' = frames \o found.frames
              /\ stats' = Count(found)
              /\ buf' = Remaining(buf \o chunk, found.consumed)
              /\ received' = received \o chunk
              /\ UNCHANGED <<sent, faults>>
    BY <1>1 DEF Feed
  <2> DEFINE chunk == SubSeq(wire, 1, n)
             data == buf \o chunk
             all == received \o chunk
             found == Parse(data)
             c == Len(received) - Len(buf)
  <2>2. /\ Take(n) /\ frames' = frames \o found.frames
        /\ buf' = Remaining(data, found.consumed) /\ received' = all
    BY <2>1
  <2>3. chunk \in Seq(Byte) /\ data \in Seq(Byte)
    BY <2>2, FeedIs DEF TypeInv
  <2>4. /\ buf \in Seq(Byte) /\ received \in Seq(Byte) /\ Len(buf) =< Len(received)
        /\ \A i \in 1..Len(buf) : buf[i] = received[c + i]
    BY DEF TypeInv, Kept
  <2>5. c \in 0..Len(received) /\ c + Len(buf) = Len(received) /\ Len(buf) \in Nat
    BY <2>4
  <2>6. /\ frames = IntactFrames(received)
        /\ c # 0 => \E i : Frame(received, i, c)
        /\ \A i, e : Frame(received, i, e) => e =< c
    BY DEF IntactInv
  <2> HIDE DEF chunk, c
  <2>7. /\ Len(data) = Len(buf) + Len(chunk) /\ Window(buf, data, 0) /\ Window(chunk, data, Len(buf))
        /\ all \in Seq(Byte) /\ Len(all) = Len(received) + Len(chunk)
        /\ Window(received, all, 0) /\ Window(chunk, all, Len(received))
    BY <2>3, <2>4, ConcatWindows
  <2> HIDE DEF data
  <2>8. Window(data, all, c) /\ c + Len(data) = Len(all)
    <3> HIDE DEF all
    <3>1. c + Len(data) = Len(all) /\ c \in Nat /\ Len(chunk) \in Nat
      BY <2>3, <2>5, <2>7
    <3>2. ASSUME NEW i \in 1..Len(data) PROVE data[i] = all[c + i]
      <4>1. CASE i \in 1..Len(buf)
        <5>1. /\ 0 + i = i /\ c + i \in 1..Len(received) /\ 0 + (c + i) = c + i
          BY <2>5, <4>1
        <5>2. buf[i] = data[0 + i] /\ received[c + i] = all[0 + (c + i)]
          BY <2>7, <4>1, <5>1 DEF Window
        <5> QED BY <2>4, <4>1, <5>1, <5>2
      <4>2. CASE i \notin 1..Len(buf)
        <5> DEFINE j == i - Len(buf)
        <5>1. j \in 1..Len(chunk) /\ Len(buf) + j = i /\ Len(received) + j = c + i
          BY <2>5, <2>7, <3>1, <4>2
        <5> HIDE DEF j
        <5>2. chunk[j] = data[Len(buf) + j] /\ chunk[j] = all[Len(received) + j]
          BY <2>7, <5>1 DEF Window
        <5> QED BY <5>1, <5>2
      <4> QED BY <4>1, <4>2
    <3> QED BY <2>3, <2>7, <3>1, <3>2 DEF Window
  <2> DEFINE d == c + found.consumed
  <2>9. /\ IntactFrames(all) = IntactFrames(received) \o found.frames
        /\ d # 0 => \E i : Frame(all, i, d)
        /\ \A i, e : Frame(all, i, e) => e =< d
    BY <2>3, <2>4, <2>5, <2>6, <2>8, FeedReturns
  <2>10. found.consumed \in 0..Len(data) /\ Len(data) \in Nat
    BY <2>3, ParseFinds
  <2> HIDE DEF found, all
  <2>11. Len(received') - Len(buf') = d
    <3>1. Len(buf') = Len(data) - found.consumed
      BY <2>2, <2>3, <2>10, SuffixWindow DEF Remaining
    <3> QED BY <2>2, <2>5, <2>8, <2>10, <3>1
  <2>12. frames' = IntactFrames(received')
    BY <2>2, <2>6, <2>9
  <2>13. \A i, e : Frame(all, i, e) => i \in DOMAIN all
    BY DEF Frame, all
  <2> HIDE DEF d
  <2> QED BY <2>2, <2>9, <2>11, <2>12, <2>13 DEF IntactInv
<1>2. CASE UNCHANGED <<buf, frames, received>>
  BY <1>2 DEF IntactInv
<1>3. DeviceSends \/ NotificationLost \/ ByteDamaged \/ UNCHANGED vars => UNCHANGED <<buf, frames, received>>
  BY DEF DeviceSends, NotificationLost, ByteDamaged, vars
<1> QED BY <1>1, <1>2, <1>3 DEF Next

\* If payloads are of any bytes, as the real ones are: the bodies returned are
\* those of the frames received intact, each once and in order, whatever was
\* lost or damaged around them and however notifications cut them up.
THEOREM IntactFramesReturned == Alphabet = Byte => (Spec => []EveryIntactFrame)
<1> SUFFICES ASSUME Alphabet = Byte PROVE Spec => []EveryIntactFrame
  OBVIOUS
<1>1. Init => TypeInv /\ IntactInv
  BY TypeStart, IntactStart
<1>2. TypeInv /\ IntactInv /\ [Next]_vars => TypeInv' /\ IntactInv'
  BY TypeStep, IntactStep
<1>3. IntactInv => EveryIntactFrame
  BY DEF IntactInv, EveryIntactFrame
<1> QED BY <1>1, <1>2, <1>3, PTL DEF Spec
=============================================================================
