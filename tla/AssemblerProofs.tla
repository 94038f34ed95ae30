--------------------------- MODULE AssemblerProofs ---------------------------
(***************************************************************************)
(* What feed does to the assembler, however many frames a notification     *)
(* completes: an induction over its frames.                                *)
(***************************************************************************)
EXTENDS Assembler, FoldFacts

\* What feed's loop works on.
States == [parts : [Serials -> SUBSET Fields], order : Seq(Serials), masters : SUBSET Serials,
           roster : 0..MaxBatteries, unhandled : SUBSET Kinds, touched : SUBSET Serials]

\* What there is to know of such a state but its type.
Sound(st) ==
    /\ IsInjective(st.order)
    /\ \A s \in Serials : st.parts[s] # {} => s \in ToSet(st.order)
    /\ st.masters \subseteq ToSet(st.order) /\ st.touched \subseteq ToSet(st.order)

\* The batteries at the gateway's position, after one more frame.
Mastered(so_far, f) ==
    IF f.kind = "foreign" THEN so_far
    ELSE IF f.master THEN so_far \cup {f.serial} ELSE so_far \ {f.serial}

\* A frame one of the battery's fields is decoded from, and the fields that hold
\* something after it.
Speaks(f, s) == f.serial = s /\ f.kind \in Fields /\ (f.good \/ f.kind \in Lenient)

Heard(so_far, s, f) ==
    IF ~Speaks(f, s) THEN so_far
    ELSE IF f.good THEN so_far \cup {f.kind} ELSE so_far \ {f.kind}

\* A frame that claims a number of batteries there could be.
Claims(f) == f.kind = "topology" /\ f.count \in 1..MaxBatteries

\* A battery is listed once, at the end of the order.
LEMMA OrderGrows ==
    ASSUME NEW q \in Seq(Serials), NEW s \in Serials, IsInjective(q)
    PROVE  LET grown == IF Contains(q, s) THEN q ELSE Append(q, s)
           IN  grown \in Seq(Serials) /\ IsInjective(grown) /\ ToSet(grown) = ToSet(q) \cup {s}
<1>1. CASE Contains(q, s)
  BY <1>1 DEF Contains, ToSet
<1>2. CASE ~Contains(q, s)
  <2>1. \A i \in 1..Len(q) : q[i] # s /\ Append(q, s)[i] = q[i]
    BY <1>2 DEF Contains
  <2>2. Append(q, s) \in Seq(Serials) /\ Len(Append(q, s)) = Len(q) + 1
        /\ Append(q, s)[Len(q) + 1] = s
    OBVIOUS
  <2>3. IsInjective(Append(q, s))
    BY <2>1, <2>2 DEF IsInjective
  <2>4. ToSet(Append(q, s)) = ToSet(q) \cup {s}
    BY <2>1, <2>2 DEF ToSet
  <2> QED BY <1>2, <2>2, <2>3, <2>4
<1> QED BY <1>1, <1>2

LEMMA PlacedHolds ==
    ASSUME NEW st \in States, Sound(st), NEW f \in Frames, f.kind # "foreign"
    PROVE  LET placed == Placed(st, f)
           IN  /\ placed \in States /\ Sound(placed)
               /\ f.serial \in ToSet(placed.order)
               /\ placed.masters = Mastered(st.masters, f)
               /\ placed.parts = st.parts /\ placed.roster = st.roster
               /\ placed.unhandled = st.unhandled /\ placed.touched = st.touched
<1> DEFINE s == f.serial
           grown == IF Contains(st.order, s) THEN st.order ELSE Append(st.order, s)
           masters1 == IF f.master THEN st.masters \cup {s} ELSE st.masters \ {s}
           placed == [st EXCEPT !.order = grown, !.masters = masters1]
<1>1. s \in Serials /\ st.order \in Seq(Serials) /\ st.masters \in SUBSET Serials
  BY DEF Frames, States
<1>2. grown \in Seq(Serials) /\ IsInjective(grown) /\ ToSet(grown) = ToSet(st.order) \cup {s}
  BY <1>1, OrderGrows DEF Sound
<1>3. masters1 \in SUBSET Serials /\ masters1 \subseteq st.masters \cup {s}
  BY <1>1
<1>4. Placed(st, f) = placed /\ masters1 = Mastered(st.masters, f)
  BY DEF Placed, Mastered
<1> HIDE DEF grown, masters1
<1>5. /\ placed \in States /\ placed.order = grown /\ placed.masters = masters1
      /\ placed.parts = st.parts /\ placed.roster = st.roster
      /\ placed.unhandled = st.unhandled /\ placed.touched = st.touched
  BY <1>2, <1>3 DEF States
<1>6. Sound(placed)
  BY <1>2, <1>3, <1>5 DEF Sound
<1> QED BY <1>2, <1>4, <1>5, <1>6

\* What the loop body does with one frame.
Absorbed(st, f, next) ==
    /\ next.masters = Mastered(st.masters, f)
    /\ next.roster = IF Claims(f) /\ f.count > st.roster THEN f.count ELSE st.roster
    /\ st.touched \subseteq next.touched
    /\ \A s \in Serials : /\ next.parts[s] = Heard(st.parts[s], s, f)
                          /\ next.parts[s] # st.parts[s] => s \in next.touched

LEMMA AbsorbHolds ==
    ASSUME NEW st \in States, Sound(st), NEW f \in Frames
    PROVE  LET next == Absorb(st, f)
           IN  next \in States /\ Sound(next) /\ Absorbed(st, f, next)
<1> DEFINE placed == Placed(st, f)
           next == Absorb(st, f)
<1>1. CASE f.kind = "foreign"
  <2>1. next = st /\ ~Claims(f) /\ \A s \in Serials : ~Speaks(f, s)
    BY <1>1 DEF Absorb, Claims, Speaks, Fields, Lenient
  <2> QED BY <1>1, <2>1 DEF Mastered, Heard, Absorbed
<1>2. CASE f.kind # "foreign"
  <2>1. /\ placed \in States /\ Sound(placed) /\ f.serial \in ToSet(placed.order)
        /\ placed.masters = Mastered(st.masters, f)
        /\ placed.parts = st.parts /\ placed.roster = st.roster
        /\ placed.unhandled = st.unhandled /\ placed.touched = st.touched
    BY <1>2, PlacedHolds
  <2> HIDE DEF placed
  <2>2. f.serial \in Serials /\ f.kind \in Kinds
    BY DEF Frames
  <2>3. CASE Unknown(f)
    <3>1. next = [placed EXCEPT !.unhandled = @ \cup {f.kind}]
      BY <1>2, <2>3 DEF Absorb, placed
    <3> HIDE DEF next
    <3>2. /\ next \in States /\ next.parts = placed.parts /\ next.order = placed.order
          /\ next.masters = placed.masters /\ next.roster = placed.roster
          /\ next.touched = placed.touched
      BY <2>1, <2>2, <3>1 DEF States
    <3>3. Sound(next)
      BY <2>1, <3>2 DEF Sound
    <3>4. ~Claims(f) /\ \A s \in Serials : ~Speaks(f, s)
      BY <2>3 DEF Unknown, Claims, Speaks, Fields, Lenient
    <3> QED BY <2>1, <3>2, <3>3, <3>4 DEF next, Heard, Absorbed
  <2>4. CASE ~Unknown(f) /\ Refused(f)
    <3>1. next = placed
      BY <1>2, <2>4 DEF Absorb, placed
    <3>2. ~Claims(f)
      BY <2>4 DEF Refused, Claims, Frames
    <3>3. \A s \in Serials : ~Speaks(f, s)
      BY <2>4 DEF Refused, Speaks, Strict, Lenient, Fields
    <3> QED BY <2>1, <3>1, <3>2, <3>3 DEF Heard, Absorbed
  <2>5. CASE ~Unknown(f) /\ ~Refused(f)
    <3> DEFINE has == Stored(placed.parts[f.serial], f)
               claim == IF Plausible(f) /\ f.count > placed.roster THEN f.count ELSE placed.roster
    <3>1. next = [placed EXCEPT !.parts[f.serial] = has, !.roster = claim,
                                !.touched = @ \cup {f.serial}]
      BY <1>2, <2>5 DEF Absorb, placed, Returned
    <3>2. has = Heard(placed.parts[f.serial], f.serial, f)
      <4>1. f.kind \in Lenient => f.kind \in Fields
        BY DEF Fields
      <4>2. f.kind \in Fields /\ f.kind \notin Lenient => f.good
        BY <2>5 DEF Unknown, Refused, Strict, Fields
      <4> QED BY <4>1, <4>2 DEF Stored, Heard, Speaks
    <3>3. has \in SUBSET Fields
      BY <2>1, <2>2 DEF Stored, States
    <3>4. claim \in 0..MaxBatteries
          /\ claim = IF Claims(f) /\ f.count > placed.roster THEN f.count ELSE placed.roster
      BY <2>1 DEF Plausible, Claims, States
    <3> HIDE DEF has, claim, next
    <3>5. /\ next \in States
          /\ next.parts = [placed.parts EXCEPT ![f.serial] = has]
          /\ next.roster = claim /\ next.touched = placed.touched \cup {f.serial}
          /\ next.order = placed.order /\ next.masters = placed.masters
      BY <2>1, <2>2, <3>1, <3>3, <3>4 DEF States
    <3>6. \A s \in Serials : /\ next.parts[s] = Heard(placed.parts[s], s, f)
                             /\ next.parts[s] # placed.parts[s] => s = f.serial
      <4>1. \A s \in Serials : next.parts[s] = IF s = f.serial THEN has ELSE placed.parts[s]
        BY <2>1, <2>2, <3>5 DEF States
      <4>2. \A s \in Serials : s # f.serial => Heard(placed.parts[s], s, f) = placed.parts[s]
        BY DEF Heard, Speaks
      <4> QED BY <3>2, <4>1, <4>2
    <3>7. Sound(next)
      BY <2>1, <2>2, <3>5, <3>6 DEF Sound
    <3> QED BY <2>1, <3>4, <3>5, <3>6, <3>7 DEF next, Absorbed
  <2> QED BY <2>3, <2>4, <2>5
<1> QED BY <1>1, <1>2

LEMMA BurstsAreSequences == Bursts \subseteq Seq(Frames)
BY AssemblerAssumption DEF Bursts, BoundedSeq, SeqOf

-----------------------------------------------------------------------------
\* The states feed goes through, frame by frame.
LEMMA FeedRuns ==
    ASSUME NEW burst \in Seq(Frames), NEW before \in States, Sound(before)
    PROVE  \E run \in [0..Len(burst) -> {st \in States : Sound(st)}] :
             /\ run[0] = before
             /\ \A k \in 1..Len(burst) : run[k] = Absorb(run[k - 1], burst[k])
             /\ run[Len(burst)] = FoldLeft(Absorb, before, burst)
<1> DEFINE n == Len(burst)
           D == DOMAIN burst
           Good == {st \in States : Sound(st)}
           step == [p \in Good \X (1..n) |-> Absorb(p[1], burst[p[2]])]
           Folds(g) == g = [s \in SUBSET D |->
                      IF s = {} THEN before ELSE Absorb(g[s \ {Max(s)}], burst[Max(s)])]
           iter == CHOOSE iter : Folds(iter)
<1>1. FoldLeft(Absorb, before, burst) = iter[D]
  BY DEF FoldLeft, MapThenFoldSet
<1>2. D = 1..n /\ n \in Nat /\ \A k \in 1..n : burst[k] \in Frames
  OBVIOUS
<1>3. step \in [Good \X (1..n) -> Good]
  BY <1>2, AbsorbHolds
<1>4. PICK g \in [SUBSET (1..n) -> Good] : FoldsLeft(g, n, before, step)
  <2> HIDE DEF n, step, Good
  <2>1. before \in Good /\ n \in Nat
    BY <1>2 DEF Good
  <2> QED BY <1>3, <2>1, LeftFoldExists
<1>5. ASSUME NEW s \in (SUBSET D) \ {{}}
      PROVE  g[s] = Absorb(g[s \ {Max(s)}], burst[Max(s)])
  <2>1. Max(s) \in 1..n
    <3>1. s \in SUBSET (0..n) /\ s # {}
      BY <1>2
    <3> QED BY <1>2, <3>1, GreatestOf
  <2>2. g[s \ {Max(s)}] \in Good
    BY <1>2, <1>4
  <2>3. g[s] = step[<<g[s \ {Max(s)}], Max(s)>>]
    BY <1>2, <1>4 DEF FoldsLeft
  <2> HIDE DEF Good, n
  <2> QED BY <2>1, <2>2, <2>3
<1>6. Folds(g)
  <2>1. g = [s \in SUBSET D |-> g[s]] /\ g[{}] = before
    BY <1>2, <1>4 DEF FoldsLeft
  <2>2. \A s \in SUBSET D :
          g[s] = IF s = {} THEN before ELSE Absorb(g[s \ {Max(s)}], burst[Max(s)])
    BY <1>5, <2>1
  <2> QED BY <2>1, <2>2
<1> HIDE DEF Folds
<1>7. Folds(iter)
  BY <1>6
<1>8. iter[{}] = before
  BY <1>7 DEF Folds
<1>9. ASSUME NEW k \in 1..n PROVE iter[1..k] = Absorb(iter[1..(k - 1)], burst[k])
  <2>1. 1..k \in SUBSET D
    BY <1>2
  <2>2. 1..k # {} /\ Max(1..k) = k /\ (1..k) \ {k} = 1..(k - 1)
    BY SMTT(30), <1>2, PrefixStep
  <2> HIDE DEF D, iter
  <2>3. iter[1..k] = IF 1..k = {} THEN before
                     ELSE Absorb(iter[(1..k) \ {Max(1..k)}], burst[Max(1..k)])
    BY <1>7, <2>1 DEF Folds
  <2> QED BY <2>2, <2>3
<1> DEFINE run == [k \in 0..n |-> iter[1..k]]
<1>10. run[0] = before
  <2>1. 1..0 = {} /\ 0 \in 0..n
    BY <1>2
  <2> QED BY <1>8, <2>1
<1>11. \A k \in 1..n : run[k] = Absorb(run[k - 1], burst[k])
  <2>1. \A k \in 1..n : k \in 0..n /\ k - 1 \in 0..n
    BY <1>2
  <2> HIDE DEF iter
  <2> QED BY <1>9, <2>1
<1>12. run[n] = FoldLeft(Absorb, before, burst)
  <2> HIDE DEF iter
  <2> QED BY <1>1, <1>2
<1>13. \A k \in 0..n : run[k] \in Good
  <2> DEFINE I == {k \in 0..n : run[k] \in Good}
  <2> HIDE DEF run
  <2>1. 0 \in I
    BY <1>2, <1>10
  <2>2. ASSUME NEW k \in 1..n, k - 1 \in I PROVE k \in I
    BY SMTT(30), <1>2, <1>11, <2>2, AbsorbHolds
  <2> HIDE DEF I
  <2>3. 0..n \subseteq I
    BY <1>2, <2>1, <2>2, CountingUp
  <2> QED BY <2>3 DEF I
<1>14. run \in [0..n -> Good]
  BY <1>13
<1> HIDE DEF run
<1> QED BY <1>10, <1>11, <1>12, <1>14

-----------------------------------------------------------------------------
\* The places of a battery's own frames among the first k.
OwnUpTo(burst, s, k) == {i \in 1..k : burst[i].serial = s /\ burst[i].kind # "foreign"}

\* The batteries at the gateway's position after the first k frames, if so_far
\* were before.
NewestUpTo(burst, so_far, k) ==
    {s \in Serials : IF OwnUpTo(burst, s, k) = {} THEN s \in so_far
                     ELSE burst[Max(OwnUpTo(burst, s, k))].master}

LEMMA NewestNext ==
    ASSUME NEW burst \in Seq(Frames), NEW so_far \in SUBSET Serials, NEW k \in 1..Len(burst)
    PROVE  NewestUpTo(burst, so_far, k) = Mastered(NewestUpTo(burst, so_far, k - 1), burst[k])
<1> DEFINE f == burst[k]
<1>1. f \in Frames /\ f.serial \in Serials /\ f.master \in BOOLEAN
  <2>1. f \in Frames
    OBVIOUS
  <2> QED BY <2>1 DEF Frames
<1>2. ASSUME NEW s \in Serials, s # f.serial \/ f.kind = "foreign"
      PROVE  OwnUpTo(burst, s, k) = OwnUpTo(burst, s, k - 1)
  BY <1>2 DEF OwnUpTo
<1>3. ASSUME f.kind # "foreign"
      PROVE  /\ OwnUpTo(burst, f.serial, k) # {} /\ Max(OwnUpTo(burst, f.serial, k)) = k
  <2>1. k \in OwnUpTo(burst, f.serial, k) /\ OwnUpTo(burst, f.serial, k) \in SUBSET (1..k)
    BY <1>3 DEF OwnUpTo
  <2>2. k \in Nat
    OBVIOUS
  <2> QED BY <2>1, <2>2, MaxOfPrefix
<1> DEFINE before == NewestUpTo(burst, so_far, k - 1)
           after == NewestUpTo(burst, so_far, k)
<1>4. ASSUME NEW s \in Serials, s # f.serial \/ f.kind = "foreign"
      PROVE  s \in after <=> s \in before
  BY <1>2, <1>4 DEF NewestUpTo
<1>5. ASSUME f.kind # "foreign" PROVE f.serial \in after <=> f.master
  BY <1>1, <1>3, <1>5 DEF NewestUpTo
<1>6. before \subseteq Serials /\ after \subseteq Serials
  BY DEF NewestUpTo
<1> HIDE DEF before, after
<1>7. after = Mastered(before, f)
  BY <1>1, <1>4, <1>5, <1>6 DEF Mastered
<1> QED BY <1>7 DEF before, after

\* The places of the frames a battery's fields are decoded from, among the first
\* k, and the fields that hold something after those, if so_far did before.
SpokenUpTo(burst, s, k) == {i \in 1..k : Speaks(burst[i], s)}

SaidUpTo(burst, so_far, s, k) ==
    LET spoken == SpokenUpTo(burst, s, k)
    IN  (so_far \ {burst[i].kind : i \in spoken})
        \cup {burst[i].kind : i \in {j \in spoken :
                 burst[j].good /\ \A l \in spoken : burst[l].kind = burst[j].kind => l <= j}}

LEMMA SaidNext ==
    ASSUME NEW burst \in Seq(Frames), NEW so_far, NEW s \in Serials, NEW k \in 1..Len(burst)
    PROVE  SaidUpTo(burst, so_far, s, k)
             = Heard(SaidUpTo(burst, so_far, s, k - 1), s, burst[k])
<1> DEFINE f == burst[k]
           was == SpokenUpTo(burst, s, k - 1)
           now == SpokenUpTo(burst, s, k)
           before == SaidUpTo(burst, so_far, s, k - 1)
           after == SaidUpTo(burst, so_far, s, k)
           SaidLast(x, spoken) == \E j \in spoken :
               /\ burst[j].kind = x /\ burst[j].good
               /\ \A l \in spoken : burst[l].kind = x => l <= j
<1>1. /\ \A x : x \in before <=> \/ x \in so_far /\ ~\E i \in was : burst[i].kind = x
                                \/ SaidLast(x, was)
      /\ \A x : x \in after <=> \/ x \in so_far /\ ~\E i \in now : burst[i].kind = x
                               \/ SaidLast(x, now)
  BY DEF SaidUpTo
<1>2. CASE ~Speaks(f, s)
  <2>1. now = was
    BY <1>2 DEF SpokenUpTo
  <2> QED BY <1>2, <2>1 DEF SaidUpTo, Heard
<1>3. CASE Speaks(f, s)
  <2>1. now = was \cup {k} /\ was \in SUBSET (1..(k - 1))
    BY <1>3 DEF SpokenUpTo
  <2>2. k \in Nat /\ \A i \in was : i \in Nat /\ ~(k <= i) /\ i <= k
    BY <2>1
  <2> HIDE DEF was, now, before, after
  <2>3. ASSUME NEW x, x # f.kind PROVE x \in after <=> x \in before
    <3>1. (\E i \in now : burst[i].kind = x) <=> (\E i \in was : burst[i].kind = x)
      BY <2>1, <2>3
    <3>2. SaidLast(x, now) <=> SaidLast(x, was)
      BY <2>1, <2>3
    <3> HIDE DEF SaidLast
    <3> QED BY <1>1, <3>1, <3>2
  <2>4. f.kind \in after <=> f.good
    <3>1. k \in now /\ \A i \in now : i <= k
      BY <2>1, <2>2
    <3>2. SaidLast(f.kind, now) <=> f.good
      BY <2>1, <2>2, <3>1
    <3> HIDE DEF SaidLast
    <3> QED BY <1>1, <3>1, <3>2
  <2>5. after = IF f.good THEN before \cup {f.kind} ELSE before \ {f.kind}
    BY <2>3, <2>4
  <2> QED BY <1>3, <2>5 DEF Heard, before, after
<1> QED BY <1>2, <1>3

\* The counts claimed by the first k frames.
ClaimedUpTo(burst, k) == {burst[i].count : i \in {j \in 1..k : Claims(burst[j])}}

LEMMA ClaimedNext ==
    ASSUME NEW burst \in Seq(Frames), NEW k \in 1..Len(burst)
    PROVE  ClaimedUpTo(burst, k) = ClaimedUpTo(burst, k - 1)
                                   \cup (IF Claims(burst[k]) THEN {burst[k].count} ELSE {})
<1>1. {j \in 1..k : Claims(burst[j])}
        = {j \in 1..(k - 1) : Claims(burst[j])} \cup (IF Claims(burst[k]) THEN {k} ELSE {})
  OBVIOUS
<1> QED BY <1>1 DEF ClaimedUpTo

LEMMA CountsAreNumbers == \A f \in Frames : f.count \in Nat /\ (Claims(f) => f.count \in Counts)
<1> SUFFICES ASSUME NEW f \in Frames PROVE f.count \in Nat /\ (Claims(f) => f.count \in Counts)
  OBVIOUS
<1>1. f.count \in Counts \cup {0}
  BY DEF Frames
<1>2. Claims(f) => f.count # 0
  BY DEF Claims
<1>3. 0 \in Nat /\ Counts \subseteq Nat
  BY AssemblerAssumption
<1> HIDE DEF Claims
<1> QED BY <1>1, <1>2, <1>3

\* n is the greatest of the numbers claimed, 0 if there is none.
GreatestClaim(n, claimed) == n \in {0} \cup claimed /\ \A c \in claimed : c <= n

\* The positions kept are those of the newest frames, the parts and the roster
\* what those that can be decoded said.
MastersNewest == masters = newest
PartsSaid == parts = said
RosterClaimed == GreatestClaim(roster, claims)

IInv == TypeOK /\ MastersNewest /\ PartsSaid /\ RosterClaimed

\* What one notification does.
LEMMA FeedHolds ==
    ASSUME IInv, NEW burst \in Seq(Frames), Feed(burst)
    PROVE  IInv' /\ \A s \in Serials : parts'[s] # parts[s] => s \in touched'
<1> DEFINE before == [parts |-> parts, order |-> order, masters |-> masters,
                      roster |-> roster, unhandled |-> unhandled, touched |-> {}]
           after == FoldLeft(Absorb, before, burst)
           n == Len(burst)
           Good == {st \in States : Sound(st)}
<1>1. before \in States /\ Sound(before)
  <2>1. masters \in SUBSET Serials
    BY DEF IInv, TypeOK, ToSet
  <2> QED BY <2>1 DEF IInv, TypeOK, States, Sound
<1>2. PICK run \in [0..n -> Good] :
             /\ run[0] = before
             /\ \A k \in 1..n : run[k] = Absorb(run[k - 1], burst[k])
             /\ run[n] = after
  BY <1>1, FeedRuns
<1> HIDE DEF after
<1>3. /\ parts' = after.parts /\ order' = after.order /\ masters' = after.masters
      /\ roster' = after.roster /\ unhandled' = after.unhandled /\ touched' = after.touched
      /\ newest' = {s \in Serials : IF Own(burst, s) = {} THEN s \in newest
                                    ELSE burst[Max(Own(burst, s))].master}
  BY DEF Feed, after
<1> DEFINE Loop(k) ==
             /\ run[k].masters = NewestUpTo(burst, newest, k)
             /\ GreatestClaim(run[k].roster, claims \cup ClaimedUpTo(burst, k))
             /\ \A s \in Serials :
                  /\ run[k].parts[s] = SaidUpTo(burst, said[s], s, k)
                  /\ run[k].parts[s] # parts[s] => s \in run[k].touched
           I == {k \in 0..n : Loop(k)}
<1>4. n \in Nat /\ DOMAIN burst = 1..n /\ \A k \in 1..n : burst[k] \in Frames
  OBVIOUS
<1>5. newest \in SUBSET Serials /\ claims \in SUBSET Nat
  BY AssemblerAssumption DEF IInv, TypeOK
<1>6. Loop(0)
  <2>1. NewestUpTo(burst, newest, 0) = newest
    BY <1>5 DEF NewestUpTo, OwnUpTo
  <2>2. ClaimedUpTo(burst, 0) = {} /\ \A s \in Serials : SaidUpTo(burst, said[s], s, 0) = said[s]
    BY DEF ClaimedUpTo, SaidUpTo, SpokenUpTo
  <2>3. claims \cup ClaimedUpTo(burst, 0) = claims
    BY <2>2
  <2>4. run[0].masters = masters /\ run[0].roster = roster /\ run[0].parts = parts
    BY <1>2
  <2>5. masters = newest /\ parts = said /\ GreatestClaim(roster, claims)
    BY DEF IInv, MastersNewest, PartsSaid, RosterClaimed
  <2> HIDE DEF I, before, Good
  <2> QED BY <2>1, <2>2, <2>3, <2>4, <2>5
<1>7. ASSUME NEW k \in 1..n, Loop(k - 1) PROVE Loop(k)
  <2> DEFINE st == run[k - 1]
             next == run[k]
             f == burst[k]
  <2>1. st \in States /\ Sound(st) /\ f \in Frames
    BY <1>2, <1>4
  <2>2. next = Absorb(st, f)
    BY <1>2
  <2>3. Absorbed(st, f, next)
    BY <2>1, <2>2, AbsorbHolds
  <2>4. /\ next.masters = Mastered(st.masters, f)
        /\ next.roster = IF Claims(f) /\ f.count > st.roster THEN f.count ELSE st.roster
        /\ st.touched \subseteq next.touched
        /\ \A s \in Serials : /\ next.parts[s] = Heard(st.parts[s], s, f)
                              /\ next.parts[s] # st.parts[s] => s \in next.touched
    BY <2>3 DEF Absorbed
  <2>5. GreatestClaim(next.roster, claims \cup ClaimedUpTo(burst, k))
    <3> DEFINE said_before == claims \cup ClaimedUpTo(burst, k - 1)
               claimed == claims \cup ClaimedUpTo(burst, k)
    <3>1. claimed = said_before \cup (IF Claims(f) THEN {f.count} ELSE {})
      BY ClaimedNext
    <3>2. st.roster \in Nat /\ f.count \in Nat
      BY <2>1, AssemblerAssumption, CountsAreNumbers DEF States
    <3>3. said_before \in SUBSET Nat
      <4>1. \A j \in 1..(k - 1) : burst[j].count \in Nat
        BY <1>4, CountsAreNumbers
      <4> QED BY <1>5, <4>1 DEF ClaimedUpTo
    <3>4. GreatestClaim(st.roster, said_before)
      BY <1>7
    <3>5. Claims(f) => f.count \in 1..MaxBatteries
      BY DEF Claims
    <3> HIDE DEF said_before, claimed, st, next, f
    <3>6. GreatestClaim(next.roster, claimed)
      BY <2>4, <3>1, <3>2, <3>3, <3>4, <3>5 DEF GreatestClaim
    <3> QED BY <3>6 DEF claimed
  <2>6. \A s \in Serials : next.parts[s] = SaidUpTo(burst, said[s], s, k)
    BY <1>7, <2>4, SaidNext
  <2>7. \A s \in Serials : st.parts[s] # parts[s] => s \in st.touched
    BY <1>7
  <2>8. next.masters = NewestUpTo(burst, newest, k)
    BY <1>5, <1>7, <2>4, NewestNext
  <2> HIDE DEF st, next
  <2>9. \A s \in Serials : next.parts[s] # parts[s] => s \in next.touched
    BY <2>4, <2>7
  <2> QED BY <2>5, <2>6, <2>8, <2>9 DEF next
<1> HIDE DEF Loop
<1>8. Loop(n)
  <2>1. 0 \in I
    BY <1>4, <1>6
  <2>2. \A k \in 1..n : k - 1 \in I => k \in I
    BY <1>4, <1>7
  <2> HIDE DEF I, n
  <2>3. 0..n \subseteq I
    BY <1>4, <2>1, <2>2, CountingUp
  <2>4. n \in I
    BY <1>4, <2>3
  <2> QED BY <2>4 DEF I
<1>9. after \in States /\ Sound(after)
  BY <1>2, <1>4
<1>10. newest' = NewestUpTo(burst, newest, n)
  BY <1>3, <1>4 DEF NewestUpTo, OwnUpTo, Own
<1>11. claims' = claims \cup ClaimedUpTo(burst, n)
  BY <1>4 DEF Feed, ClaimedUpTo, Claims
<1>12. said' = [s \in Serials |-> SaidUpTo(burst, said[s], s, n)]
  <2>1. ASSUME NEW s \in Serials
        PROVE  SaidUpTo(burst, said[s], s, n)
                 = (said[s] \ {burst[i].kind : i \in Decoded(burst, s)})
                   \cup {burst[i].kind : i \in {j \in LastWords(burst, s) : burst[j].good}}
    <3>1. SpokenUpTo(burst, s, n) = Decoded(burst, s)
      BY <1>4 DEF SpokenUpTo, Speaks, Decoded, Own, Fields, Lenient
    <3>2. {j \in LastWords(burst, s) : burst[j].good}
            = {j \in Decoded(burst, s) : burst[j].good
                 /\ \A l \in Decoded(burst, s) : burst[l].kind = burst[j].kind => l <= j}
      BY DEF LastWords
    <3> QED BY <3>1, <3>2 DEF SaidUpTo
  <2> QED BY <2>1 DEF Feed
<1>13. PartsSaid'
  <2>1. \A s \in Serials : after.parts[s] = SaidUpTo(burst, said[s], s, n)
    BY <1>2, <1>8 DEF Loop
  <2>2. after.parts = [s \in Serials |-> after.parts[s]]
    BY <1>9 DEF States
  <2> QED BY <1>3, <1>12, <2>1, <2>2 DEF PartsSaid
<1>14. TypeOK'
  <2>1. newest' \subseteq Serials
    BY <1>3
  <2>2. masters' \subseteq ToSet(order') /\ touched' \subseteq ToSet(order')
    BY <1>3, <1>9 DEF Sound
  <2>3. claims' \subseteq Counts
    BY <1>4, <1>11, CountsAreNumbers DEF ClaimedUpTo, IInv, TypeOK
  <2>4. said' \in [Serials -> SUBSET Fields]
    BY <1>3, <1>9, <1>13 DEF PartsSaid, States
  <2> QED BY <1>3, <1>9, <2>1, <2>2, <2>3, <2>4 DEF TypeOK, States, Sound
<1>15. MastersNewest' /\ RosterClaimed'
  BY <1>2, <1>3, <1>8, <1>10, <1>11 DEF MastersNewest, RosterClaimed, Loop
<1>16. \A s \in Serials : parts'[s] # parts[s] => s \in touched'
  BY <1>2, <1>3, <1>8 DEF Loop
<1> QED BY <1>13, <1>14, <1>15, <1>16 DEF IInv

LEMMA AssemblerInductive == Spec => []IInv
<1>1. Init => IInv
  BY AssemblerAssumption DEF Init, IInv, TypeOK, MastersNewest, PartsSaid, RosterClaimed,
     GreatestClaim, IsInjective, ToSet
<1>2. IInv /\ [Next]_vars => IInv'
  <2> SUFFICES ASSUME IInv, [Next]_vars PROVE IInv'
    OBVIOUS
  <2>1. CASE UNCHANGED vars
    BY <2>1 DEF vars, IInv, TypeOK, MastersNewest, PartsSaid, RosterClaimed
  <2>2. CASE Next
    BY <2>2, FeedHolds, BurstsAreSequences DEF Next
  <2> QED BY <2>1, <2>2
<1> QED BY <1>1, <1>2, PTL DEF Spec

\* The assembler's state is what it should be, and what feed returns are
\* batteries it knows: TypeOK.
THEOREM AssemblerTypeOK == Spec => []TypeOK
<1>1. IInv => TypeOK
  BY DEF IInv
<1> QED BY <1>1, AssemblerInductive, PTL

\* However the frames are cut into notifications, each field holds what the
\* newest frame it can be decoded from said, and the roster is the greatest
\* plausible claim: NewestIsHeld.
THEOREM NewestFramesAreHeld == Spec => []NewestIsHeld
<1>1. IInv => NewestIsHeld
  <2> SUFFICES ASSUME IInv PROVE NewestIsHeld
    OBVIOUS
  <2>1. roster \in {0} \cup claims /\ \A c \in {0} \cup claims : roster >= c
    BY AssemblerAssumption DEF IInv, TypeOK, RosterClaimed, GreatestClaim
  <2>2. {0} \cup claims \in SUBSET Nat
    BY AssemblerAssumption DEF IInv, TypeOK
  <2>3. roster = Max({0} \cup claims)
    BY <2>1, <2>2, MaxIs
  <2> QED BY <2>3 DEF IInv, PartsSaid, NewestIsHeld
<1> QED BY <1>1, AssemblerInductive, PTL

\* Feed returns every battery whose data it changed, also when a later frame of
\* the notification is malformed: DataChangesAreReturned.
THEOREM FeedReturnsWhatChanged == Spec => DataChangesAreReturned
<1> DEFINE Told == \A s \in Serials : parts'[s] # parts[s] => s \in touched'
<1>1. IInv /\ [Next]_vars => [Told]_vars
  <2> SUFFICES ASSUME IInv, Next PROVE Told
    OBVIOUS
  <2> QED BY FeedHolds, BurstsAreSequences DEF Next
<1> QED BY <1>1, AssemblerInductive, PTL DEF Spec, DataChangesAreReturned

\* A reading names as its master a battery whose newest frame had the gateway's
\* position, if it holds one, else the serial given: MasterIsCurrent.
THEOREM ReadingNamesTheMaster == Spec => []MasterIsCurrent
<1> DEFINE found == {i \in 1..Len(order) : order[i] \in Usable \cap masters}
           first == SelectInSeq(order, LAMBDA s : s \in Usable \cap masters)
<1>1. IInv => MasterIsCurrent
  <2> SUFFICES ASSUME IInv PROVE MasterIsCurrent
    OBVIOUS
  <2>1. first = IF found # {} THEN Min(found) ELSE 0
    BY DEF SelectInSeq
  <2>2. MasterSerial = IF first = 0 THEN Given ELSE order[first]
    BY DEF MasterSerial
  <2>3. Usable \subseteq ToSet(order) /\ DOMAIN order = 1..Len(order)
    BY DEF IInv, TypeOK, Usable
  <2>4. CASE found = {}
    <3>1. Usable \cap masters = {}
      BY <2>3, <2>4 DEF ToSet
    <3> QED BY <2>1, <2>2, <2>4, <3>1 DEF MasterIsCurrent, IInv, MastersNewest
  <2>5. CASE found # {}
    <3>1. found \in SUBSET Nat
      OBVIOUS
    <3>2. Min(found) \in found
      <4> HIDE DEF found
      <4> QED BY <2>5, <3>1, LeastIsMin
    <3>3. MasterSerial \in Usable \cap masters
      <4> HIDE DEF first
      <4>1. first \in 1..Len(order) /\ order[first] \in Usable \cap masters
        BY <2>1, <2>5, <3>2
      <4> QED BY <2>2, <4>1
    <3> QED BY <3>3 DEF MasterIsCurrent, IInv, MastersNewest
  <2> QED BY <2>4, <2>5
<1> QED BY <1>1, AssemblerInductive, PTL
=============================================================================
