--------------------------- MODULE HostSetup_proofs ---------------------------
(***************************************************************************)
(* Proofs about HostSetup, for any terminals, hosts, ports and settings,   *)
(* any content of ~/.ssh/config, and any number of commands and faults.    *)
(*                                                                         *)
(* 1. What the editor's operators do to a file: where a block starts and   *)
(*    ends, what AddRemoteForward and RemoveRemoteForward change and what  *)
(*    they keep (AddHas, AddKeepsOwn, AddKeepsOthers, RemoveKeeps).        *)
(* 2. IInv, the inductive invariant: every command is at a step of a plan, *)
(*    and what it has read is what is there, or it is outdated.  A lemma   *)
(*    for each action says that it is kept.                                *)
(* 3. What follows from it for the states and for the steps.               *)
(* 4. CalmInv, the invariant of a command that runs alone: what it has     *)
(*    done holds, and what does not hold it has still to do.               *)
(***************************************************************************)
EXTENDS HostSetup, FiniteSetTheorems, TLAPS

-----------------------------------------------------------------------------
(* The least and the greatest element of a set of numbers. *)

Below == {p \in Nat \X Nat : p[1] < p[2]}

LEMMA NatMin ==
  ASSUME NEW S \in SUBSET Nat, S # {}
  PROVE  /\ Min(S) \in S
         /\ \A i \in S : Min(S) <= i
<1>1. IsWellFoundedOn(Below, Nat)
  BY NatLessThanWellFounded DEF OpToRel, Below
<1>2. PICK x \in S : \A y \in S : ~(<<y, x>> \in Below)
  BY <1>1, WFMin
<1>3. \A y \in S : x <= y
  <2> SUFFICES ASSUME NEW y \in S, y < x
               PROVE  FALSE
    OBVIOUS
  <2>1. <<y, x>> \in Below
    BY DEF Below
  <2> QED
    BY <1>2, <2>1
<1> QED
  BY <1>3 DEF Min

\* The distances from a bound have a least one.
LEMMA NatMax ==
  ASSUME NEW n \in Nat, NEW S \in SUBSET (0..n), S # {}
  PROVE  /\ Max(S) \in S
         /\ \A i \in S : i <= Max(S)
<1> DEFINE T == {j \in 0..n : n - j \in S}
<1>1. T \in SUBSET Nat /\ T # {}
  <2>1. PICK i \in S : TRUE
    OBVIOUS
  <2>2. n - i \in 0..n /\ n - (n - i) = i
    BY <2>1
  <2>3. n - i \in T
    BY <2>1, <2>2
  <2>4. \A j \in T : j \in Nat
    OBVIOUS
  <2> QED
    BY <2>3, <2>4
<1>2. Min(T) \in T /\ \A j \in T : Min(T) <= j
  BY <1>1, NatMin
<1>3. PICK j \in T : \A k \in T : j <= k
  BY <1>2
<1>4. n - j \in S /\ \A i \in S : n - j >= i
  <2> SUFFICES ASSUME NEW i \in S
               PROVE  n - j >= i
    BY <1>3
  <2>1. n - i \in T
    OBVIOUS
  <2>2. j <= n - i
    BY <1>3, <2>1
  <2> QED
    BY <1>3, <2>2
<1>5. PICK m \in S : \A i \in S : m >= i
  BY <1>4
<1> QED
  BY <1>5 DEF Max

\* Where they are given, they are the minimum and the maximum.
LEMMA MinIs ==
  ASSUME NEW S \in SUBSET Int, NEW m \in S, \A i \in S : m <= i
  PROVE  Min(S) = m
<1>1. PICK x \in S : x = Min(S) /\ \A i \in S : x <= i
  BY DEF Min
<1> QED
  BY <1>1

LEMMA MaxIs ==
  ASSUME NEW S \in SUBSET Int, NEW m \in S, \A i \in S : m >= i
  PROVE  Max(S) = m
<1>1. PICK x \in S : x = Max(S) /\ \A i \in S : x >= i
  BY DEF Max
<1> QED
  BY <1>1

-----------------------------------------------------------------------------
(* Blocks of ~/.ssh/config. *)

Names(line, a) == IsHeader(line) /\ line.arg = a

Forwards(line, port) == line.kind = "forward" /\ line.arg = port

\* Line s is the header of the first block named a.
Starts(file, a, s) ==
  s \in 1..Len(file) /\ Names(file[s], a) /\ \A i \in 1..s - 1 : ~Names(file[i], a)

\* Line j stands under it.
InBlock(file, a, j) ==
  \E s \in 1..Len(file) : /\ Starts(file, a, s)
                          /\ j \in s + 1..Len(file)
                          /\ \A i \in s + 1..j : ~IsHeader(file[i])

LEMMA BlockStartIs ==
  ASSUME NEW file \in Seq(Lines), NEW a
  PROVE  \/ /\ BlockStart(file, a) = 0
            /\ \A i \in 1..Len(file) : ~Names(file[i], a)
         \/ Starts(file, a, BlockStart(file, a))
<1> DEFINE headers == {i \in DOMAIN file : IsHeader(file[i]) /\ file[i].arg = a}
<1>1. CASE headers = {}
  BY <1>1 DEF BlockStart, Names
<1>2. CASE headers # {}
  <2>1. headers \in SUBSET Nat
    OBVIOUS
  <2>2. Min(headers) \in headers /\ \A i \in headers : Min(headers) <= i
    BY <1>2, <2>1, NatMin
  <2>3. BlockStart(file, a) = Min(headers)
    BY <1>2 DEF BlockStart
  <2> HIDE DEF headers
  <2>4. PICK s \in headers : s = Min(headers)
    BY <2>2
  <2> USE DEF headers
  <2>5. s \in 1..Len(file) /\ Names(file[s], a)
    BY DEF Names
  <2>6. ASSUME NEW i \in 1..s - 1, Names(file[i], a)
        PROVE  FALSE
    <3>1. i \in headers
      BY <2>5, <2>6 DEF Names
    <3> QED
      BY <2>2, <2>4, <2>5, <3>1
  <2> QED
    BY <2>3, <2>4, <2>5, <2>6 DEF Starts
<1> QED
  BY <1>1, <1>2

LEMMA StartsIsUnique ==
  ASSUME NEW file \in Seq(Lines), NEW a, NEW s, NEW t, Starts(file, a, s), Starts(file, a, t)
  PROVE  s = t
BY DEF Starts

LEMMA BlockLimitIs ==
  ASSUME NEW file \in Seq(Lines), NEW s \in 1..Len(file)
  PROVE  /\ BlockLimit(file, s) \in s + 1..Len(file) + 1
         /\ BlockLimit(file, s) <= Len(file) => IsHeader(file[BlockLimit(file, s)])
         /\ \A i \in s + 1..BlockLimit(file, s) - 1 : ~IsHeader(file[i])
<1> DEFINE S == {i \in s + 1..Len(file) : IsHeader(file[i])} \cup {Len(file) + 1}
<1>1. S \in SUBSET Nat /\ S # {}
  OBVIOUS
<1>2. Min(S) \in S /\ \A i \in S : Min(S) <= i
  BY <1>1, NatMin
<1>3. BlockLimit(file, s) = Min(S)
  BY DEF BlockLimit
<1> HIDE DEF S
<1>4. PICK l \in S : l = BlockLimit(file, s) /\ \A i \in S : l <= i
  BY <1>2, <1>3
<1>5. l \in s + 1..Len(file) + 1 /\ (l <= Len(file) => IsHeader(file[l]))
  BY DEF S
<1>6. ASSUME NEW i \in s + 1..l - 1, IsHeader(file[i])
      PROVE  FALSE
  <2>1. i \in S
    BY <1>5, <1>6 DEF S
  <2> QED
    BY <1>4, <1>5, <2>1
<1> QED
  BY <1>4, <1>5, <1>6

\* The lines of the block that the editor finds are those under its header.
LEMMA BlockIs ==
  ASSUME NEW file \in Seq(Lines), NEW a, BlockStart(file, a) # 0, NEW j \in Int
  PROVE  InBlock(file, a, j)
           <=> j \in BlockStart(file, a) + 1..BlockLimit(file, BlockStart(file, a)) - 1
<1>1. PICK s : s = BlockStart(file, a) /\ Starts(file, a, s)
  BY BlockStartIs
<1>2. s \in 1..Len(file)
  BY <1>1 DEF Starts
<1>3. PICK l : l = BlockLimit(file, s)
  OBVIOUS
<1>4. /\ l \in s + 1..Len(file) + 1
      /\ l <= Len(file) => IsHeader(file[l])
      /\ \A i \in s + 1..l - 1 : ~IsHeader(file[i])
  BY <1>2, <1>3, BlockLimitIs
<1>5. ASSUME InBlock(file, a, j)
      PROVE  j \in s + 1..l - 1
  <2>1. PICK t \in 1..Len(file) : /\ Starts(file, a, t)
                                  /\ j \in t + 1..Len(file)
                                  /\ \A i \in t + 1..j : ~IsHeader(file[i])
    BY <1>5 DEF InBlock
  <2>2. t = s
    BY <1>1, <2>1, StartsIsUnique
  <2> QED
    BY <1>2, <1>4, <2>1, <2>2
<1>6. ASSUME j \in s + 1..l - 1
      PROVE  InBlock(file, a, j)
  <2>1. j \in s + 1..Len(file) /\ \A i \in s + 1..j : ~IsHeader(file[i])
    BY <1>2, <1>4, <1>6
  <2> QED
    BY <1>1, <1>2, <2>1 DEF InBlock
<1> QED
  BY <1>1, <1>3, <1>5, <1>6

\* What HasRemoteForward and Conflicts say, line by line.
LEMMA HasForwardIs ==
  ASSUME NEW file \in Seq(Lines), NEW a, NEW port
  PROVE  HasRemoteForward(file, a, port)
           <=> \E j \in 1..Len(file) : /\ InBlock(file, a, j) /\ Forwards(file[j], port)
                                       /\ file[j].mark = a
<1>1. CASE BlockStart(file, a) = 0
  <2>1. \A i \in 1..Len(file) : ~Names(file[i], a)
    BY <1>1, BlockStartIs DEF Starts
  <2>2. \A j : ~InBlock(file, a, j)
    BY <2>1 DEF InBlock, Starts
  <2> QED
    BY <1>1, <2>2 DEF HasRemoteForward, Ours
<1>2. CASE BlockStart(file, a) # 0
  <2>1. PICK s : s = BlockStart(file, a) /\ Starts(file, a, s)
    BY <1>2, BlockStartIs
  <2>2. s \in 1..Len(file) /\ IsHeader(file[s])
    BY <2>1 DEF Starts, Names
  <2>3. PICK l : l = BlockLimit(file, s) /\ l \in s + 1..Len(file) + 1
    BY <2>2, BlockLimitIs
  <2>4. Ours(file, a, port) = {i \in s..l - 1 : Forwards(file[i], port) /\ file[i].mark = a}
    BY <1>2, <2>1, <2>3 DEF Ours, ForwardsIn, Forwards
  <2>5. ~Forwards(file[s], port)
    BY <2>2 DEF Forwards, IsHeader
  <2>6. \A j \in Int : InBlock(file, a, j) <=> j \in s + 1..l - 1
    BY <1>2, <2>1, <2>3, BlockIs
  <2>7. \A i \in s..l - 1 : Forwards(file[i], port) => i \in s + 1..l - 1 /\ i \in 1..Len(file)
    BY <2>2, <2>3, <2>5
  <2>8. \A i : i \in Ours(file, a, port)
               <=> /\ i \in 1..Len(file) /\ InBlock(file, a, i) /\ Forwards(file[i], port)
                   /\ file[i].mark = a
    <3>1. s + 1..l - 1 \subseteq s..l - 1 /\ 1..Len(file) \subseteq Int
      BY <2>2, <2>3
    <3>2. \A i \in 1..Len(file) : InBlock(file, a, i) <=> i \in s + 1..l - 1
      BY <2>6, <3>1
    <3> QED
      BY <2>4, <2>7, <3>1, <3>2
  <2> QED
    BY <2>8 DEF HasRemoteForward
<1> QED
  BY <1>1, <1>2

LEMMA ConflictsIs ==
  ASSUME NEW file \in Seq(Lines), NEW a, NEW port
  PROVE  Conflicts(file, a, port)
           <=> \E j \in 1..Len(file) :
                 /\ InBlock(file, a, j) /\ Forwards(file[j], port) /\ file[j].mark # a
                 /\ \A i \in 1..j - 1 : ~(InBlock(file, a, i) /\ Forwards(file[i], port))
<1>1. CASE BlockStart(file, a) = 0
  <2>1. \A i \in 1..Len(file) : ~Names(file[i], a)
    BY <1>1, BlockStartIs DEF Starts
  <2>2. \A j : ~InBlock(file, a, j)
    BY <2>1 DEF InBlock, Starts
  <2> QED
    BY <1>1, <2>2 DEF Conflicts
<1>2. CASE BlockStart(file, a) # 0
  <2>1. PICK s : s = BlockStart(file, a) /\ Starts(file, a, s)
    BY <1>2, BlockStartIs
  <2>2. s \in 1..Len(file) /\ IsHeader(file[s])
    BY <2>1 DEF Starts, Names
  <2>3. PICK l : l = BlockLimit(file, s) /\ l \in s + 1..Len(file) + 1
    BY <2>2, BlockLimitIs
  <2> DEFINE same == {i \in s..l - 1 : Forwards(file[i], port)}
  <2>4. Conflicts(file, a, port) <=> same # {} /\ file[Min(same)].mark # a
    BY <1>2, <2>1, <2>3 DEF Conflicts, ForwardsIn, Forwards
  <2>5. ~Forwards(file[s], port)
    BY <2>2 DEF Forwards, IsHeader
  <2>6. \A j \in Int : InBlock(file, a, j) <=> j \in s + 1..l - 1
    BY <1>2, <2>1, <2>3, BlockIs
  <2>7. \A i \in Int : i \in same <=> InBlock(file, a, i) /\ Forwards(file[i], port)
    BY <2>2, <2>3, <2>5, <2>6
  <2>8. same \in SUBSET (1..Len(file)) /\ same \in SUBSET Nat
    BY <2>2, <2>3
  <2> HIDE DEF same
  <2>9. ASSUME same # {}, file[Min(same)].mark # a
        PROVE  \E j \in 1..Len(file) :
                 /\ InBlock(file, a, j) /\ Forwards(file[j], port) /\ file[j].mark # a
                 /\ \A i \in 1..j - 1 : ~(InBlock(file, a, i) /\ Forwards(file[i], port))
    <3>1. Min(same) \in same /\ \A i \in same : Min(same) <= i
      BY <2>8, <2>9, NatMin
    <3>2. PICK j \in same : j = Min(same)
      BY <3>1
    <3>3. \A i \in 1..j - 1 : i \notin same
      BY <2>8, <3>1, <3>2
    <3>4. j \in 1..Len(file)
      BY <2>8
    <3> QED
      BY <2>7, <2>9, <3>2, <3>3, <3>4
  <2>10. ASSUME NEW j \in 1..Len(file),
                InBlock(file, a, j), Forwards(file[j], port), file[j].mark # a,
                \A i \in 1..j - 1 : ~(InBlock(file, a, i) /\ Forwards(file[i], port))
         PROVE  same # {} /\ file[Min(same)].mark # a
    <3>1. j \in same
      BY <2>7, <2>10
    <3>2. \A i \in same : j <= i
      BY <2>7, <2>8, <2>10
    <3>3. Min(same) = j
      BY <2>8, <3>1, <3>2, MinIs
    <3> QED
      BY <2>10, <3>1, <3>3
  <2> QED
    BY <2>4, <2>9, <2>10
<1> QED
  BY <1>1, <1>2
-----------------------------------------------------------------------------
(* Lines that come or go. *)

\* The file g is f with n lines more, after line k.
Spliced(f, g, k, n) ==
  /\ f \in Seq(Lines) /\ g \in Seq(Lines)
  /\ n \in Nat /\ k \in 0..Len(f) /\ Len(g) = Len(f) + n
  /\ \A i \in 1..k : g[i] = f[i]
  /\ \A i \in k + 1..Len(f) : g[i + n] = f[i]

\* Where line i of f is in g.
Place(k, n, i) == IF i <= k THEN i ELSE i + n

LEMMA PlaceIs ==
  ASSUME NEW f, NEW g, NEW k, NEW n, Spliced(f, g, k, n), NEW i \in 1..Len(f)
  PROVE  /\ Place(k, n, i) \in 1..Len(g)
         /\ Place(k, n, i) \notin k + 1..k + n
         /\ g[Place(k, n, i)] = f[i]
BY DEF Spliced, Place

LEMMA PlaceExists ==
  ASSUME NEW f, NEW g, NEW k, NEW n, Spliced(f, g, k, n),
         NEW j \in 1..Len(g), j \notin k + 1..k + n
  PROVE  \E i \in 1..Len(f) : Place(k, n, i) = j
<1>1. CASE j <= k
  BY <1>1 DEF Spliced, Place
<1>2. CASE j > k
  <2>1. j - n \in 1..Len(f) /\ j - n > k /\ (j - n) + n = j
    BY <1>2 DEF Spliced
  <2> QED
    BY <2>1 DEF Spliced, Place
<1> QED
  BY <1>1, <1>2 DEF Spliced

\* A line of a block stays in it when lines without a header come in, or any lines at the
\* end of the file;
LEMMA BlockGrows ==
  ASSUME NEW f, NEW g, NEW k, NEW n, Spliced(f, g, k, n), NEW a,
         \A i \in k + 1..k + n : ~Names(g[i], a),
         k = Len(f) \/ \A i \in k + 1..k + n : ~IsHeader(g[i]),
         NEW j \in 1..Len(f), InBlock(f, a, j)
  PROVE  InBlock(g, a, Place(k, n, j))
<1>1. PICK s \in 1..Len(f) : /\ Starts(f, a, s)
                             /\ j \in s + 1..Len(f)
                             /\ \A i \in s + 1..j : ~IsHeader(f[i])
  BY DEF InBlock
<1>2. n \in Nat /\ k \in 0..Len(f) /\ Len(g) \in Nat /\ Len(f) \in Nat
  BY DEF Spliced
<1>3. Place(k, n, s) \in 1..Len(g) /\ Names(g[Place(k, n, s)], a)
  BY <1>1, PlaceIs DEF Starts
<1>4. ASSUME NEW i \in 1..Place(k, n, s) - 1
      PROVE  ~Names(g[i], a)
  <2>1. CASE i \in k + 1..k + n
    BY <2>1
  <2>2. CASE i \notin k + 1..k + n
    <3>1. i \in 1..Len(g)
      BY <1>2, <1>3
    <3>2. PICK h \in 1..Len(f) : Place(k, n, h) = i
      BY <2>2, <3>1, PlaceExists
    <3>3. h < s
      BY <1>2, <3>2 DEF Place
    <3>4. ~Names(f[h], a)
      BY <1>1, <3>3 DEF Starts
    <3> QED
      BY <3>2, <3>4, PlaceIs
  <2> QED
    BY <2>1, <2>2
<1>5. Place(k, n, j) \in Place(k, n, s) + 1..Len(g)
  BY <1>1, <1>2, PlaceIs DEF Place
<1>6. ASSUME NEW i \in Place(k, n, s) + 1..Place(k, n, j)
      PROVE  ~IsHeader(g[i])
  <2>1. CASE i \in k + 1..k + n
    <3>1. k # Len(f)
      BY <1>1, <1>2, <2>1 DEF Place
    <3> QED
      BY <2>1, <3>1
  <2>2. CASE i \notin k + 1..k + n
    <3>1. i \in 1..Len(g)
      BY <1>2, <1>3, <1>5
    <3>2. PICK h \in 1..Len(f) : Place(k, n, h) = i
      BY <2>2, <3>1, PlaceExists
    <3>3. h \in s + 1..j
      BY <1>1, <1>2, <3>2 DEF Place
    <3> QED
      BY <1>1, <3>2, <3>3, PlaceIs
  <2> QED
    BY <2>1, <2>2
<1>7. Starts(g, a, Place(k, n, s))
  BY <1>3, <1>4 DEF Starts
<1> QED
  BY <1>3, <1>5, <1>6, <1>7 DEF InBlock

\* and when lines go that do not begin a block of that name.
LEMMA BlockShrinks ==
  ASSUME NEW f, NEW g, NEW k, NEW n, Spliced(f, g, k, n), NEW a,
         \A i \in k + 1..k + n : ~Names(g[i], a),
         NEW j \in 1..Len(f), InBlock(g, a, Place(k, n, j))
  PROVE  InBlock(f, a, j)
<1>1. PICK t \in 1..Len(g) : /\ Starts(g, a, t)
                             /\ Place(k, n, j) \in t + 1..Len(g)
                             /\ \A i \in t + 1..Place(k, n, j) : ~IsHeader(g[i])
  BY DEF InBlock
<1>2. n \in Nat /\ k \in 0..Len(f) /\ Len(g) \in Nat /\ Len(f) \in Nat
  BY DEF Spliced
<1>3. PICK s \in 1..Len(f) : Place(k, n, s) = t
  <2>1. t \notin k + 1..k + n
    BY <1>1 DEF Starts
  <2> QED
    BY <2>1, PlaceExists
<1>4. Names(f[s], a)
  BY <1>1, <1>3, PlaceIs DEF Starts
<1>5. ASSUME NEW i \in 1..s - 1
      PROVE  ~Names(f[i], a)
  <2>1. i \in 1..Len(f)
    BY <1>2
  <2>2. Place(k, n, i) \in 1..t - 1
    BY <1>2, <1>3, <2>1 DEF Place
  <2> QED
    BY <1>1, <2>1, <2>2, PlaceIs DEF Starts
<1>6. j \in s + 1..Len(f)
  BY <1>1, <1>2, <1>3 DEF Place
<1>7. ASSUME NEW i \in s + 1..j
      PROVE  ~IsHeader(f[i])
  <2>1. i \in 1..Len(f)
    BY <1>2, <1>6
  <2>2. Place(k, n, i) \in t + 1..Place(k, n, j)
    BY <1>2, <1>3, <1>6, <2>1 DEF Place
  <2>3. g[Place(k, n, i)] = f[i]
    BY <2>1, PlaceIs
  <2> QED
    BY <1>1, <2>2, <2>3
<1>8. Starts(f, a, s)
  BY <1>4, <1>5 DEF Starts
<1> QED
  BY <1>6, <1>7, <1>8 DEF InBlock
-----------------------------------------------------------------------------
(* The user's settings. *)

Own(line)         == IsContent(line) /\ ~IsHeader(line) /\ line.mark = NoMark
OwnLines(file)    == {i \in DOMAIN file : Own(file[i])}
OwnUpTo(file, i)  == {j \in OwnLines(file) : j <= i}
HeaderOf(file, i) == Max({0} \cup {j \in 1..i : IsHeader(file[j])})

Under(file, i) == IF HeaderOf(file, i) = 0 THEN Blank ELSE file[HeaderOf(file, i)]

LEMMA UserSettingsIs ==
  ASSUME NEW file
  PROVE  UserSettings(file) =
           {<<Cardinality(OwnUpTo(file, i)), file[i], Under(file, i)>> : i \in OwnLines(file)}
BY DEF UserSettings, OwnLines, OwnUpTo, Own, Under, HeaderOf

LEMMA HeaderOfIs ==
  ASSUME NEW file \in Seq(Lines), NEW i \in 1..Len(file)
  PROVE  /\ HeaderOf(file, i) \in 0..i
         /\ HeaderOf(file, i) = 0 \/ IsHeader(file[HeaderOf(file, i)])
         /\ \A j \in HeaderOf(file, i) + 1..i : ~IsHeader(file[j])
<1> DEFINE S == {0} \cup {j \in 1..i : IsHeader(file[j])}
<1>1. S \in SUBSET (0..i) /\ S # {} /\ i \in Nat
  OBVIOUS
<1>2. Max(S) \in S /\ \A j \in S : j <= Max(S)
  BY <1>1, NatMax
<1>3. HeaderOf(file, i) = Max(S)
  BY DEF HeaderOf
<1> HIDE DEF S
<1>4. PICK h \in S : h = HeaderOf(file, i) /\ \A j \in S : j <= h
  BY <1>2, <1>3
<1>5. h \in 0..i /\ (h = 0 \/ IsHeader(file[h]))
  BY DEF S
<1>6. ASSUME NEW j \in h + 1..i, IsHeader(file[j])
      PROVE  FALSE
  <2>1. j \in S
    BY <1>5, <1>6 DEF S
  <2> QED
    BY <1>4, <1>5, <2>1
<1> QED
  BY <1>4, <1>5, <1>6

LEMMA HeaderOfIsUnique ==
  ASSUME NEW file \in Seq(Lines), NEW i \in 1..Len(file), NEW h \in 0..i,
         h = 0 \/ IsHeader(file[h]), \A j \in h + 1..i : ~IsHeader(file[j])
  PROVE  HeaderOf(file, i) = h
<1>1. PICK m : m = HeaderOf(file, i)
  OBVIOUS
<1>2. m \in 0..i /\ (m = 0 \/ IsHeader(file[m])) /\ \A j \in m + 1..i : ~IsHeader(file[j])
  BY <1>1, HeaderOfIs
<1> QED
  BY <1>1, <1>2

\* Lines that are none of the user's settings come in or go, and no header comes or goes
\* over a setting.
LEMMA SettingsKept ==
  ASSUME NEW f, NEW g, NEW k, NEW n, Spliced(f, g, k, n),
         \A i \in k + 1..k + n : ~Own(g[i]),
         \/ \A i \in k + 1..k + n : ~IsHeader(g[i])
         \/ \A i \in k + 1..Len(f) : Own(f[i]) => \E j \in k + 1..i : IsHeader(f[j])
  PROVE  UserSettings(f) = UserSettings(g)
<1>1. n \in Nat /\ k \in 0..Len(f) /\ Len(g) \in Nat /\ Len(f) \in Nat /\ Len(g) = Len(f) + n
  BY DEF Spliced
<1>2. f \in Seq(Lines) /\ g \in Seq(Lines) /\ DOMAIN f = 1..Len(f) /\ DOMAIN g = 1..Len(g)
  BY DEF Spliced
<1>3. ASSUME NEW i \in OwnLines(f)
      PROVE  Place(k, n, i) \in OwnLines(g) /\ g[Place(k, n, i)] = f[i] /\ i \in 1..Len(f)
  BY <1>2, <1>3, PlaceIs DEF OwnLines
<1>4. ASSUME NEW j \in OwnLines(g)
      PROVE  \E i \in OwnLines(f) : Place(k, n, i) = j
  <2>1. j \in 1..Len(g) /\ j \notin k + 1..k + n /\ Own(g[j])
    BY <1>2, <1>4 DEF OwnLines
  <2>2. PICK i \in 1..Len(f) : Place(k, n, i) = j
    BY <2>1, PlaceExists
  <2> QED
    BY <1>2, <2>1, <2>2, PlaceIs DEF OwnLines
<1>5. ASSUME NEW i \in OwnLines(f)
      PROVE  Under(g, Place(k, n, i)) = Under(f, i)
  <2>1. PICK h : h = HeaderOf(f, i)
    OBVIOUS
  <2>2. h \in 0..i /\ (h = 0 \/ IsHeader(f[h])) /\ \A j \in h + 1..i : ~IsHeader(f[j])
    BY <1>2, <1>3, <2>1, HeaderOfIs
  <2>3. PICK p : p = IF h = 0 THEN 0 ELSE Place(k, n, h)
    OBVIOUS
  <2>4. Place(k, n, i) \in 1..Len(g) /\ i \in 1..Len(f) /\ Own(f[i])
    BY <1>2, <1>3, PlaceIs DEF OwnLines
  <2>5. p \in 0..Place(k, n, i)
    BY <1>1, <2>2, <2>3, <2>4 DEF Place
  <2>6. h # 0 => h \in 1..Len(f) /\ p \in 1..Len(g) /\ g[p] = f[h]
    <3> SUFFICES ASSUME h # 0
                 PROVE  h \in 1..Len(f) /\ p \in 1..Len(g) /\ g[p] = f[h]
      OBVIOUS
    <3>1. h \in 1..Len(f)
      BY <1>1, <2>2, <2>4
    <3> QED
      BY <2>3, <3>1, PlaceIs
  <2>7. p = 0 \/ IsHeader(g[p])
    BY <2>2, <2>3, <2>6
  <2>8. ASSUME NEW j \in p + 1..Place(k, n, i)
        PROVE  ~IsHeader(g[j])
    <3>1. j \in 1..Len(g)
      BY <1>1, <2>4, <2>5
    <3>2. CASE j \in k + 1..k + n
      <4>1. i > k /\ h <= k
        BY <1>1, <2>2, <2>3, <2>4, <2>6, <3>2 DEF Place
      <4>2. ~\E m \in k + 1..i : IsHeader(f[m])
        BY <1>1, <2>2, <4>1
      <4>3. i \in k + 1..Len(f)
        BY <1>1, <2>4, <4>1
      <4>4. \A m \in k + 1..k + n : ~IsHeader(g[m])
        BY <2>4, <4>2, <4>3
      <4> QED
        BY <3>2, <4>4
    <3>3. CASE j \notin k + 1..k + n
      <4>1. PICK m \in 1..Len(f) : Place(k, n, m) = j
        BY <3>1, <3>3, PlaceExists
      <4>2. m \in h + 1..i
        BY <1>1, <2>2, <2>3, <2>4, <4>1 DEF Place
      <4> QED
        BY <2>2, <4>1, <4>2, PlaceIs
    <3> QED
      BY <3>2, <3>3
  <2>9. HeaderOf(g, Place(k, n, i)) = p
    BY <1>2, <2>4, <2>5, <2>7, <2>8, HeaderOfIsUnique
  <2> QED
    BY <2>1, <2>3, <2>6, <2>9 DEF Under, Place
<1>6. ASSUME NEW i \in OwnLines(f)
      PROVE  Cardinality(OwnUpTo(f, i)) = Cardinality(OwnUpTo(g, Place(k, n, i)))
  <2> DEFINE S == OwnUpTo(f, i)
             T == OwnUpTo(g, Place(k, n, i))
             F == [j \in S |-> Place(k, n, j)]
  <2>1. S \subseteq OwnLines(f) /\ S \in SUBSET (1..Len(f))
    BY <1>3 DEF OwnUpTo
  <2>2. IsFiniteSet(S)
    <3>1. IsFiniteSet(1..Len(f))
      BY <1>1, FS_Interval
    <3> QED
      BY <2>1, <3>1, FS_Subset
  <2>3. \A a, b \in 1..Len(f) : a <= b <=> Place(k, n, a) <= Place(k, n, b)
    BY <1>1 DEF Place
  <2>4. ASSUME NEW j \in S
        PROVE  F[j] \in T
    BY <1>3, <2>1, <2>3 DEF OwnUpTo
  <2>5. ASSUME NEW j \in T
        PROVE  \E m \in S : F[m] = j
    <3>1. j \in OwnLines(g) /\ j <= Place(k, n, i)
      BY DEF OwnUpTo
    <3>2. PICK m \in OwnLines(f) : Place(k, n, m) = j
      BY <1>4, <3>1
    <3>3. m <= i
      BY <1>3, <2>3, <3>1, <3>2
    <3>4. m \in S
      BY <3>3 DEF OwnUpTo
    <3> QED
      BY <3>2, <3>4
  <2>6. \A a, b \in S : F[a] = F[b] => a = b
    BY <1>1, <2>1 DEF Place
  <2> HIDE DEF S, T
  <2>7. F \in [S -> T]
    BY <2>4
  <2>8. F \in Bijection(S, T)
    BY <2>5, <2>6, <2>7 DEF Bijection, Injection, Surjection, IsInjective
  <2>9. ExistsBijection(S, T)
    BY <2>8 DEF ExistsBijection
  <2>10. Cardinality(T) = Cardinality(S)
    BY <2>2, <2>9, FS_Bijection
  <2> QED
    BY <2>10 DEF S, T
<1>7. ASSUME NEW i \in OwnLines(f)
      PROVE  <<Cardinality(OwnUpTo(f, i)), f[i], Under(f, i)>> =
             <<Cardinality(OwnUpTo(g, Place(k, n, i))), g[Place(k, n, i)], Under(g, Place(k, n, i))>>
  BY <1>3, <1>5, <1>6
<1>8. UserSettings(f) \subseteq UserSettings(g)
  BY <1>3, <1>7, UserSettingsIs
<1>9. UserSettings(g) \subseteq UserSettings(f)
  <2> SUFFICES ASSUME NEW j \in OwnLines(g)
               PROVE  <<Cardinality(OwnUpTo(g, j)), g[j], Under(g, j)>> \in UserSettings(f)
    BY UserSettingsIs
  <2>1. PICK i \in OwnLines(f) : Place(k, n, i) = j
    BY <1>4
  <2>2. <<Cardinality(OwnUpTo(f, i)), f[i], Under(f, i)>> \in UserSettings(f)
    BY UserSettingsIs
  <2> QED
    BY <1>7, <2>1, <2>2
<1> QED
  BY <1>8, <1>9
-----------------------------------------------------------------------------
(* What the editor does to a file. *)

LEMMA LinesHave ==
  ASSUME NEW a \in Alias, NEW port \in Port
  PROVE  /\ Blank \in Lines /\ HostLine(a) \in Lines /\ Forward(port, a) \in Lines
         /\ ~IsHeader(Blank) /\ ~IsHeader(Forward(port, a)) /\ IsHeader(HostLine(a))
         /\ ~Own(Blank) /\ ~Own(HostLine(a)) /\ ~Own(Forward(port, a))
         /\ HostLine(a).arg = a /\ Forwards(Forward(port, a), port) /\ Forward(port, a).mark = a
BY SSHConfigAssumption
   DEF Lines, Line, Blank, HostLine, Forward, IsHeader, IsContent, Own, Forwards

\* The new line comes into the block.
LEMMA InsertIndexIs ==
  ASSUME NEW file \in Seq(Lines), NEW s \in 1..Len(file)
  PROVE  InsertIndex(file, s) \in s + 1..BlockLimit(file, s)
<1>1. PICK l : l = BlockLimit(file, s) /\ l \in s + 1..Len(file) + 1
  BY BlockLimitIs
<1> DEFINE content == {i \in s + 1..l - 1 : IsContent(file[i])}
<1>2. content \in SUBSET (0..l) /\ l \in Nat
  BY <1>1
<1>3. content # {} => Max(content) \in content
  <2> HIDE DEF content
  <2> QED
    BY <1>2, NatMax
<1>4. InsertIndex(file, s) = IF content # {} /\ Max(content) + 1 < l THEN Max(content) + 1 ELSE s + 1
  BY <1>1 DEF InsertIndex
<1>5. content # {} => Max(content) \in s + 1..l - 1
  BY <1>3
<1> HIDE DEF content
<1>6. CASE content # {} /\ Max(content) + 1 < l
  BY <1>1, <1>4, <1>5, <1>6
<1>7. CASE ~(content # {} /\ Max(content) + 1 < l)
  BY <1>1, <1>4, <1>7
<1> QED
  BY <1>6, <1>7

\* Part of a file, and two files one after the other.
Slice(s, file, m, n) ==
  s \in Seq(Lines) /\ Len(s) = n - m /\ \A i \in 1..n - m : s[i] = file[i + m]

LEMMA SliceIs ==
  ASSUME NEW file \in Seq(Lines), NEW n \in 0..Len(file), NEW m \in 0..n
  PROVE  Slice(SubSeq(file, m + 1, n), file, m, n)
BY DEF Slice

Joined(h, f, g) ==
  /\ h \in Seq(Lines) /\ Len(h) = Len(f) + Len(g)
  /\ \A i \in 1..Len(f) : h[i] = f[i]
  /\ \A i \in 1..Len(g) : h[Len(f) + i] = g[i]

LEMMA ConcatIs ==
  ASSUME NEW f \in Seq(Lines), NEW g \in Seq(Lines)
  PROVE  Joined(f \o g, f, g)
<1> DEFINE h == f \o g
<1>1. /\ h \in Seq(Lines) /\ Len(h) = Len(f) + Len(g)
      /\ \A i \in 1..Len(h) : h[i] = IF i <= Len(f) THEN f[i] ELSE g[i - Len(f)]
  OBVIOUS
<1>2. Len(f) \in Nat /\ Len(g) \in Nat
  OBVIOUS
<1> HIDE DEF h
<1>3. ASSUME NEW i \in 1..Len(g)
      PROVE  h[Len(f) + i] = g[i]
  <2>1. Len(f) + i \in 1..Len(h) /\ ~(Len(f) + i <= Len(f)) /\ (Len(f) + i) - Len(f) = i
    BY <1>1, <1>2
  <2> QED
    BY <1>1, <2>1
<1>4. ASSUME NEW i \in 1..Len(f)
      PROVE  h[i] = f[i]
  <2>1. i \in 1..Len(h) /\ i <= Len(f)
    BY <1>1, <1>2
  <2> QED
    BY <1>1, <2>1
<1>5. Joined(h, f, g)
  BY <1>1, <1>3, <1>4 DEF Joined
<1> QED
  BY <1>5 DEF h

LEMMA CutParts ==
  ASSUME NEW file \in Seq(Lines), NEW k \in 0..Len(file), NEW n \in 0..Len(file) - k,
         NEW A, Slice(A, file, 0, k), NEW B, Slice(B, file, k + n, Len(file)),
         NEW g, Joined(g, A, B)
  PROVE  Spliced(g, file, k, n)
<1>1. PICK r \in Nat : r = Len(file) - (k + n)
  <2>1. Len(file) - (k + n) \in Nat
    OBVIOUS
  <2> QED
    BY <2>1
<1>2. /\ g \in Seq(Lines) /\ Len(g) = k + r
      /\ \A i \in 1..k : g[i] = A[i]
      /\ \A i \in 1..r : g[k + i] = B[i]
  BY <1>1 DEF Joined, Slice
<1>3. Len(file) = Len(g) + n /\ k \in 0..Len(g) /\ n \in Nat
  BY <1>1, <1>2
<1>4. ASSUME NEW i \in k + 1..Len(g)
      PROVE  file[i + n] = g[i]
  <2>1. i - k \in 1..r /\ k + (i - k) = i /\ (i - k) + (k + n) = i + n
    BY <1>1, <1>2
  <2>2. g[i] = B[i - k]
    BY <1>2, <2>1
  <2>3. B[i - k] = file[i + n]
    BY <1>1, <2>1 DEF Slice
  <2> QED
    BY <2>2, <2>3
<1>5. \A i \in 1..k : file[i] = g[i]
  BY <1>2 DEF Slice
<1> QED
  BY <1>2, <1>3, <1>4, <1>5 DEF Spliced

LEMMA CutIs ==
  ASSUME NEW file \in Seq(Lines), NEW k \in 0..Len(file), NEW n \in 0..Len(file) - k
  PROVE  Spliced(SubSeq(file, 1, k) \o SubSeq(file, k + n + 1, Len(file)), file, k, n)
<1> DEFINE A == SubSeq(file, 1, k)
           B == SubSeq(file, k + n + 1, Len(file))
<1>1. Slice(A, file, 0, k)
  BY DEF Slice
<1>2. Slice(B, file, k + n, Len(file))
  <2>1. k + n \in 0..Len(file) /\ Len(file) \in 0..Len(file)
    OBVIOUS
  <2> QED
    BY <2>1, SliceIs
<1> HIDE DEF A, B
<1>3. Joined(A \o B, A, B)
  BY <1>1, <1>2, ConcatIs DEF Slice
<1>4. Spliced(A \o B, file, k, n)
  BY <1>1, <1>2, <1>3, CutParts
<1> QED
  BY <1>4 DEF A, B

LEMMA InsertParts ==
  ASSUME NEW file \in Seq(Lines), NEW k \in 0..Len(file),
         NEW A, Slice(A, file, 0, k), NEW one, Len(one) = 1,
         NEW B, Slice(B, file, k, Len(file)),
         NEW C, Joined(C, A, one), NEW g, Joined(g, C, B)
  PROVE  Spliced(file, g, k, 1) /\ g[k + 1] = one[1]
<1>1. PICK r \in Nat : r = Len(file) - k
  <2>1. Len(file) - k \in Nat
    OBVIOUS
  <2> QED
    BY <2>1
<1>2. /\ C \in Seq(Lines) /\ Len(C) = k + 1
      /\ \A i \in 1..k : C[i] = A[i]
      /\ \A i \in 1..1 : C[k + i] = one[i]
  BY DEF Joined, Slice
<1>3. PICK l \in Nat : l = k + 1 /\ l = Len(C)
  BY <1>2
<1>4. /\ g \in Seq(Lines) /\ Len(g) = l + r
      /\ \A i \in 1..l : g[i] = C[i]
      /\ \A i \in 1..r : g[l + i] = B[i]
  BY <1>1, <1>2, <1>3 DEF Joined, Slice
<1>5. ASSUME NEW i \in k + 1..Len(file)
      PROVE  g[i + 1] = file[i]
  <2>1. i - k \in 1..r /\ l + (i - k) = i + 1 /\ i - k + k = i
    BY <1>1, <1>3
  <2>2. g[i + 1] = B[i - k]
    BY <1>4, <2>1
  <2>3. B[i - k] = file[i]
    BY <1>1, <2>1 DEF Slice
  <2> QED
    BY <2>2, <2>3
<1>6. ASSUME NEW i \in 1..k
      PROVE  g[i] = file[i]
  BY <1>2, <1>3, <1>4 DEF Slice
<1>7. g[k + 1] = one[1]
  <2>1. k + 1 \in 1..l
    BY <1>3
  <2> QED
    BY <1>2, <1>4, <2>1
<1>8. Len(g) = Len(file) + 1
  <2>1. l + r = Len(file) + 1
    BY <1>1, <1>3
  <2> QED
    BY <1>4, <2>1
<1> QED
  BY <1>4, <1>5, <1>6, <1>7, <1>8 DEF Spliced

LEMMA InsertIs ==
  ASSUME NEW file \in Seq(Lines), NEW k \in 0..Len(file), NEW new \in Lines
  PROVE  LET g == SubSeq(file, 1, k) \o <<new>> \o SubSeq(file, k + 1, Len(file))
         IN  Spliced(file, g, k, 1) /\ g[k + 1] = new
<1> DEFINE A == SubSeq(file, 1, k)
           B == SubSeq(file, k + 1, Len(file))
           one == <<new>>
           C == A \o one
           g == C \o B
<1>1. Slice(A, file, 0, k)
  BY DEF Slice
<1>2. Slice(B, file, k, Len(file))
  <2>1. Len(file) \in 0..Len(file)
    OBVIOUS
  <2> QED
    BY <2>1, SliceIs
<1>3. one \in Seq(Lines) /\ Len(one) = 1 /\ one[1] = new
  OBVIOUS
<1> HIDE DEF A, B, one
<1>4. Joined(C, A, one)
  BY <1>1, <1>3, ConcatIs DEF Slice
<1> HIDE DEF C
<1>5. Joined(g, C, B)
  BY <1>2, <1>4, ConcatIs DEF Joined, Slice
<1> HIDE DEF g
<1>6. Spliced(file, g, k, 1) /\ g[k + 1] = one[1]
  BY <1>1, <1>2, <1>3, <1>4, <1>5, InsertParts
<1> QED
  BY <1>3, <1>6 DEF A, B, one, C, g

LEMMA AppendIs ==
  ASSUME NEW file \in Seq(Lines), NEW gap \in Seq(Lines), NEW two \in Seq(Lines),
         Len(gap) \in 0..1, Len(two) = 2
  PROVE  LET g == file \o gap \o two
             k == Len(file)
             n == Len(gap) + 2
         IN  /\ Spliced(file, g, k, n)
             /\ g[k + n - 1] = two[1] /\ g[k + n] = two[2]
             /\ Len(gap) = 1 => g[k + 1] = gap[1]
<1> DEFINE fg == file \o gap
           g == fg \o two
<1>1. Joined(fg, file, gap)
  BY ConcatIs
<1> HIDE DEF fg
<1>2. Joined(g, fg, two)
  BY <1>1, ConcatIs DEF Joined
<1> HIDE DEF g
<1>3. PICK k \in Nat, m \in 0..1 : k = Len(file) /\ m = Len(gap)
  OBVIOUS
<1>4. PICK l \in Nat, n \in Nat : l = k + m /\ n = m + 2 /\ l = Len(fg)
  BY <1>1, <1>3 DEF Joined
<1>5. /\ g \in Seq(Lines) /\ Len(g) = l + 2
      /\ \A i \in 1..l : g[i] = fg[i]
      /\ \A i \in 1..2 : g[l + i] = two[i]
  BY <1>2, <1>4 DEF Joined
<1>6. l + 1 = k + n - 1 /\ l + 2 = k + n
  BY <1>4
<1>7. g[l + 1] = two[1] /\ g[l + 2] = two[2]
  BY <1>5
<1>8. m = 1 => g[k + 1] = gap[1]
  <2> SUFFICES ASSUME m = 1
               PROVE  g[k + 1] = gap[1]
    OBVIOUS
  <2>1. k + 1 \in 1..l /\ 1 \in 1..m
    BY <1>4
  <2>2. fg[k + 1] = gap[1]
    BY <1>1, <1>3, <2>1 DEF Joined
  <2> QED
    BY <1>5, <2>1, <2>2
<1>9. \A i \in 1..k : g[i] = file[i]
  BY <1>1, <1>3, <1>4, <1>5 DEF Joined
<1>10. Spliced(file, g, k, n)
  <2>1. k \in 0..Len(file) /\ Len(g) = Len(file) + n
    BY <1>3, <1>4, <1>5
  <2>2. k + 1..Len(file) = {}
    BY <1>3
  <2> QED
    BY <1>5, <1>9, <2>1, <2>2 DEF Spliced
<1>11. /\ Spliced(file, g, Len(file), Len(gap) + 2)
       /\ g[Len(file) + (Len(gap) + 2) - 1] = two[1] /\ g[Len(file) + (Len(gap) + 2)] = two[2]
       /\ Len(gap) = 1 => g[Len(file) + 1] = gap[1]
  BY <1>3, <1>4, <1>6, <1>7, <1>8, <1>10
<1> QED
  BY <1>11 DEF g, fg

\* AddRemoteForward leaves a file that has the forward, and puts it into another after the
\* lines that the user sees before it, with a block of its own if there is none.
LEMMA AddIs ==
  ASSUME NEW file \in Seq(Lines), NEW a \in Alias, NEW port \in Port,
         NEW g, g = AddRemoteForward(file, a, port)
  PROVE  \/ /\ g = file
            /\ BlockStart(file, a) # 0
            /\ ForwardsIn(file, BlockStart(file, a), port) # {}
         \/ \E k \in 0..Len(file), n \in 1..3 :
              /\ Spliced(file, g, k, n)
              /\ InBlock(g, a, k + n) /\ g[k + n] = Forward(port, a)
              /\ \A i \in k + 1..k + n - 1 : g[i] \in {Blank, HostLine(a)}
              /\ \/ n = 1 /\ \A j \in 1..Len(file) : InBlock(file, a, j) => ~Forwards(file[j], port)
                 \/ k = Len(file) /\ \A j \in 1..Len(file) : ~Names(file[j], a)
<1>1. PICK s : s = BlockStart(file, a)
  OBVIOUS
<1>2. PICK new : new = Forward(port, a)
  OBVIOUS
<1>3. new \in Lines /\ Blank \in Lines /\ HostLine(a) \in Lines /\ ~IsHeader(new)
  BY <1>2, LinesHave
<1>4. CASE s # 0 /\ ForwardsIn(file, s, port) # {}
  BY <1>1, <1>4 DEF AddRemoteForward
<1>5. CASE s = 0
  <2>1. PICK gap : gap = IF file # <<>> /\ file[Len(file)] # Blank THEN <<Blank>> ELSE <<>>
    OBVIOUS
  <2>2. g = file \o gap \o <<HostLine(a), new>>
    BY <1>1, <1>2, <1>5, <2>1 DEF AddRemoteForward
  <2>3. gap \in Seq(Lines) /\ Len(gap) \in 0..1 /\ (Len(gap) = 1 => gap[1] = Blank)
    BY <1>3, <2>1
  <2>4. /\ <<HostLine(a), new>> \in Seq(Lines) /\ Len(<<HostLine(a), new>>) = 2
        /\ <<HostLine(a), new>>[1] = HostLine(a) /\ <<HostLine(a), new>>[2] = new
    BY <1>3
  <2>5. PICK k, n : k = Len(file) /\ n = Len(gap) + 2
    OBVIOUS
  <2>6. k \in 0..Len(file) /\ n \in 2..3
    <3>1. n \in 2..3
      <4>1. PICK m \in 0..1 : m = Len(gap)
        BY <2>3
      <4>2. m + 2 \in 2..3
        OBVIOUS
      <4> QED
        BY <2>5, <4>1, <4>2
    <3>2. k \in 0..Len(file)
      BY <2>5
    <3> QED
      BY <3>1, <3>2
  <2>7. /\ Spliced(file, g, k, n)
        /\ g[k + n - 1] = HostLine(a) /\ g[k + n] = new
        /\ Len(gap) = 1 => g[k + 1] = Blank
    <3>1. PICK two : two = <<HostLine(a), new>>
      OBVIOUS
    <3>2. /\ Spliced(file, file \o gap \o two, k, n)
          /\ (file \o gap \o two)[k + n - 1] = two[1] /\ (file \o gap \o two)[k + n] = two[2]
          /\ Len(gap) = 1 => (file \o gap \o two)[k + 1] = gap[1]
      BY <2>3, <2>4, <2>5, <3>1, AppendIs
    <3> QED
      BY <2>2, <2>3, <2>4, <3>1, <3>2
  <2>8. ASSUME NEW i \in k + 1..k + n - 2
        PROVE  g[i] = Blank
    <3>1. i = k + 1 /\ n = 3
      BY <2>6
    <3>2. Len(gap) = 1
      BY <2>3, <2>5, <3>1
    <3> QED
      BY <2>7, <3>1, <3>2
  <2>9. \A i \in k + 1..k + n - 1 : g[i] \in {Blank, HostLine(a)}
    <3> SUFFICES ASSUME NEW i \in k + 1..k + n - 1, i # k + n - 1
                 PROVE  g[i] = Blank
      BY <2>7
    <3>1. i \in k + 1..k + n - 2
      BY <2>6
    <3> QED
      BY <2>8, <3>1
  <2>10. g \in Seq(Lines) /\ Len(g) = k + n /\ \A i \in 1..k : g[i] = file[i]
    BY <2>5, <2>7 DEF Spliced
  <2>13. \A h \in 1..Len(file) : ~Names(file[h], a)
    <3>1. BlockStart(file, a) = 0 /\ ~(0 \in 1..Len(file))
      BY <1>1, <1>5
    <3>2. ~Starts(file, a, BlockStart(file, a))
      BY <3>1 DEF Starts
    <3> QED
      BY <3>2, BlockStartIs
  <2>11. Starts(g, a, k + n - 1)
    <3>1. Names(g[k + n - 1], a)
      BY <2>7, LinesHave DEF Names
    <3>2. ASSUME NEW i \in 1..k + n - 2, Names(g[i], a)
          PROVE  FALSE
      <4>1. CASE i <= k
        <5>1. g[i] = file[i] /\ i \in 1..Len(file)
          BY <2>5, <2>6, <2>10, <4>1
        <5> QED
          BY <2>13, <3>2, <5>1
      <4>2. CASE i > k
        <5>1. i \in k + 1..k + n - 2
          BY <2>6, <4>2
        <5>2. g[i] = Blank
          BY <2>8, <5>1
        <5> QED
          BY <3>2, <5>2, LinesHave DEF Names
      <4> QED
        BY <2>6, <4>1, <4>2
    <3>3. k + n - 1 \in 1..Len(g) /\ (k + n - 1) - 1 = k + n - 2
      BY <2>6, <2>10
    <3> QED
      BY <3>1, <3>2, <3>3 DEF Starts
  <2>12. InBlock(g, a, k + n)
    <3>1. k + n \in (k + n - 1) + 1..Len(g) /\ k + n - 1 \in 1..Len(g)
      BY <2>6, <2>10
    <3>2. \A i \in (k + n - 1) + 1..k + n : i = k + n
      BY <2>6
    <3> QED
      BY <1>3, <2>7, <2>11, <3>1, <3>2 DEF InBlock
  <2> QED
    BY <1>2, <2>5, <2>6, <2>7, <2>9, <2>12, <2>13
<1>6. CASE s # 0 /\ ForwardsIn(file, s, port) = {}
  <2>1. Starts(file, a, s) /\ s \in 1..Len(file)
    BY <1>1, <1>6, BlockStartIs DEF Starts
  <2>2. PICK l : /\ l = BlockLimit(file, s) /\ l \in s + 1..Len(file) + 1
                 /\ \A i \in s + 1..l - 1 : ~IsHeader(file[i])
    BY <2>1, BlockLimitIs
  <2>3. PICK at : at = InsertIndex(file, s) /\ at \in s + 1..l
    BY <2>1, <2>2, InsertIndexIs
  <2>4. PICK k : k = at - 1
    OBVIOUS
  <2>5. k \in s..Len(file) /\ k \in 0..Len(file) /\ k + 1 = at /\ k < l
    BY <2>1, <2>2, <2>3, <2>4
  <2>6. g = SubSeq(file, 1, k) \o <<new>> \o SubSeq(file, k + 1, Len(file))
    BY <1>1, <1>2, <1>6, <2>3, <2>4, <2>5 DEF AddRemoteForward
  <2>7. Spliced(file, g, k, 1) /\ g[k + 1] = new
    BY <1>3, <2>5, <2>6, InsertIs
  <2>8. g \in Seq(Lines) /\ Len(g) = Len(file) + 1 /\ \A i \in 1..k : g[i] = file[i]
    BY <2>7 DEF Spliced
  <2> HIDE <2>6
  <2>9. Starts(g, a, s)
    BY <2>1, <2>5, <2>8 DEF Starts
  <2>10. ASSUME NEW i \in s + 1..k + 1
         PROVE  ~IsHeader(g[i])
    <3>1. CASE i = k + 1
      BY <1>3, <2>7, <3>1
    <3>2. CASE i # k + 1
      <4>1. i \in 1..k /\ i \in s + 1..l - 1
        BY <2>1, <2>2, <2>5, <3>2
      <4> QED
        BY <2>2, <2>8, <4>1
    <3> QED
      BY <3>1, <3>2
  <2>11. InBlock(g, a, k + 1)
    <3>1. k + 1 \in s + 1..Len(g) /\ s \in 1..Len(g)
      BY <2>1, <2>5, <2>8
    <3> QED
      BY <2>9, <2>10, <3>1 DEF InBlock
  <2>12. \A i \in k + 1..k + 1 - 1 : FALSE
    BY <2>5
  <2>13. ASSUME NEW j \in 1..Len(file), InBlock(file, a, j), Forwards(file[j], port)
         PROVE  FALSE
    <3>1. j \in s + 1..l - 1
      BY <1>1, <1>6, <2>2, <2>13, BlockIs
    <3>2. j \in s..l - 1
      BY <2>1, <2>2, <3>1
    <3>3. j \in ForwardsIn(file, s, port)
      BY <2>2, <2>13, <3>2 DEF ForwardsIn, Forwards
    <3> QED
      BY <1>6, <3>3
  <2> QED
    BY <1>2, <2>5, <2>7, <2>11, <2>12, <2>13
<1> QED
  BY <1>1, <1>4, <1>5, <1>6

\* Lines of host a, blank lines and comments are taken out after line k, and no header
\* under which a setting is left.
TakenOut(file, g, a, k, n) ==
  /\ Spliced(g, file, k, n)
  /\ \A i \in k + 1..k + n : /\ ~Own(file[i])
                             /\ IsHeader(file[i]) => file[i].arg = a
                             /\ file[i].kind = "forward" => file[i].mark = a
  /\ \/ \A i \in k + 1..k + n : ~IsHeader(file[i])
     \/ \A i \in k + 1..Len(g) : Own(g[i]) => \E j \in k + 1..i : IsHeader(g[j])

LEMMA TwoElements ==
  ASSUME NEW S, IsFiniteSet(S), NEW a \in S, NEW b \in S, a # b
  PROVE  ~(Cardinality(S) <= 1)
<1>1. Cardinality({a}) = 1 /\ IsFiniteSet({a})
  BY FS_Singleton
<1>2. Cardinality({a} \cup {b}) = Cardinality({a}) + 1
  BY <1>1, FS_AddElement
<1>3. Cardinality({a} \cup {b}) <= Cardinality(S)
  BY FS_Subset
<1>4. PICK c \in Nat : c = Cardinality(S)
  BY FS_CardinalityType
<1>5. 2 <= c
  BY <1>1, <1>2, <1>3, <1>4
<1> QED
  BY <1>4, <1>5

LEMMA RemoveIs ==
  ASSUME NEW file \in Seq(Lines), NEW a \in Alias, NEW port \in Port,
         NEW g, g = RemoveRemoteForward(file, a, port), g # file
  PROVE  \E k \in Nat, n \in Nat : TakenOut(file, g, a, k, n)
<1>1. HasRemoteForward(file, a, port)
  BY DEF RemoveRemoteForward
<1>2. PICK s : s = BlockStart(file, a)
  OBVIOUS
<1>3. s # 0
  BY <1>1, <1>2 DEF HasRemoteForward, Ours
<1>4. Starts(file, a, s) /\ s \in 1..Len(file) /\ IsHeader(file[s]) /\ file[s].arg = a
  BY <1>2, <1>3, BlockStartIs DEF Starts, Names
<1>5. PICK l : /\ l = BlockLimit(file, s) /\ l \in s + 1..Len(file) + 1
               /\ l <= Len(file) => IsHeader(file[l])
               /\ \A i \in s + 1..l - 1 : ~IsHeader(file[i])
  BY <1>4, BlockLimitIs
<1> DEFINE ours == Ours(file, a, port)
<1>6. ours = {i \in s..l - 1 : Forwards(file[i], port) /\ file[i].mark = a}
  BY <1>2, <1>3, <1>5 DEF Ours, ForwardsIn, Forwards
<1>7. ours \in SUBSET Nat /\ ours # {}
  BY <1>1, <1>4, <1>5, <1>6 DEF HasRemoteForward
<1>8. PICK found \in ours : found = Min(ours)
  <2> HIDE DEF ours
  <2> QED
    BY <1>7, NatMin
<1>9. /\ found \in s + 1..l - 1 /\ found \in 1..Len(file)
      /\ file[found].kind = "forward" /\ file[found].mark = a
  <2>1. found \in s..l - 1 /\ file[found].kind = "forward" /\ file[found].mark = a
    BY <1>6 DEF Forwards
  <2>2. found # s
    BY <1>4, <2>1 DEF IsHeader
  <2> QED
    BY <1>4, <1>5, <2>1, <2>2
<1> DEFINE content == {i \in s..l - 1 : IsContent(file[i]) /\ i # found}
           same    == {i \in DOMAIN file : file[i] = file[found]}
<1>10. g = IF Cardinality(content) <= 1 THEN RemoveBlock(file, s)
           ELSE Cut(file, Min(same), Min(same))
  BY <1>1, <1>2, <1>5, <1>8 DEF RemoveRemoteForward
<1> HIDE DEF ours
<1>11. CASE Cardinality(content) <= 1
  <2>1. content = {s}
    <3>1. s \in content
      BY <1>4, <1>5, <1>9 DEF IsContent, IsHeader
    <3>2. IsFiniteSet(content)
      <4>1. IsFiniteSet(s..l - 1)
        BY <1>4, <1>5, FS_Interval
      <4> QED
        BY <4>1, FS_Subset
    <3>3. ASSUME NEW i \in content, i # s
          PROVE  FALSE
      BY <1>11, <3>1, <3>2, <3>3, TwoElements
    <3> QED
      BY <3>1, <3>3
  <2>2. ASSUME NEW i \in s + 1..l - 1, i # found
        PROVE  ~IsContent(file[i])
    <3>1. i \notin content
      BY <1>4, <1>5, <2>1, <2>2
    <3> QED
      BY <1>4, <1>5, <2>2, <3>1
  <2> DEFINE full == {i \in s..l - 1 : i = s \/ file[i] # Blank}
  <2>3. PICK last \in full : last = Max(full) /\ \A i \in full : i <= last
    <3>1. s \in full /\ full \in SUBSET (0..Len(file)) /\ Len(file) \in Nat
      BY <1>4, <1>5
    <3> HIDE DEF full
    <3>2. full # {}
      BY <3>1
    <3> QED
      BY <3>1, <3>2, NatMax
  <2>4. last \in s..l - 1 /\ last \in 1..Len(file)
    BY <1>4, <1>5
  <2>5. ASSUME NEW i \in last + 1..l - 1
        PROVE  file[i] = Blank
    BY <1>4, <1>5, <2>3, <2>4
  <2> HIDE DEF full
  <2>6. PICK first : first = IF s > 1 /\ file[s - 1] = Blank THEN s - 1 ELSE s
    OBVIOUS
  <2>7. /\ first \in 1..s /\ first \in s - 1..s /\ first \in 1..Len(file)
        /\ first # s => file[first] = Blank
    BY <1>4, <2>6
  <2>8. PICK k, n : k = first - 1 /\ n = last - first + 1
    OBVIOUS
  <2>9. k \in Nat /\ n \in Nat /\ k + 1 = first /\ k + n = last /\ n > 0
    BY <1>4, <2>4, <2>7, <2>8
  <2>10. Spliced(g, file, k, n)
    <3>1. g = Cut(file, first, last)
      BY <1>5, <1>10, <1>11, <2>3, <2>6 DEF RemoveBlock, full
    <3>2. g = SubSeq(file, 1, k) \o SubSeq(file, k + n + 1, Len(file))
      BY <2>8, <2>9, <3>1 DEF Cut
    <3>3. k \in 0..Len(file) /\ n \in 0..Len(file) - k
      BY <2>4, <2>7, <2>9
    <3> QED
      BY <3>2, <3>3, CutIs
  <2>11. ASSUME NEW i \in k + 1..k + n
         PROVE  /\ ~Own(file[i])
                /\ IsHeader(file[i]) => file[i].arg = a
                /\ file[i].kind = "forward" => file[i].mark = a
    <3>1. CASE i = s
      BY <1>4, <3>1 DEF Own, IsHeader
    <3>2. CASE i = found
      BY <1>4, <1>9, <3>2, SSHConfigAssumption DEF Own, IsHeader
    <3>3. CASE i < s
      <4>1. file[i] = Blank
        <5>1. i = first /\ first # s
          BY <1>4, <2>7, <2>9, <3>3
        <5> QED
          BY <2>7, <5>1
      <4> QED
        BY <4>1 DEF Blank, Line, Own, IsContent, IsHeader
    <3>4. CASE i > s /\ i # found
      <4>1. i \in s + 1..l - 1
        BY <1>4, <1>5, <2>4, <2>9, <3>4
      <4>2. ~IsContent(file[i]) /\ ~IsHeader(file[i])
        BY <1>5, <2>2, <3>4, <4>1
      <4> QED
        BY <4>2 DEF IsContent, Own
    <3> QED
      BY <1>4, <2>7, <2>9, <3>1, <3>2, <3>3, <3>4
  <2>12. ASSUME NEW i \in k + 1..Len(g), Own(g[i])
         PROVE  \E j \in k + 1..i : IsHeader(g[j])
    <3>1. /\ Len(file) = Len(g) + n /\ Len(g) \in Nat
          /\ \A j \in k + 1..Len(g) : file[j + n] = g[j]
      BY <2>10 DEF Spliced
    <3>2. file[i + n] = g[i] /\ i + n \in last + 1..Len(file)
      BY <2>9, <3>1
    <3>3. ~Own(Blank)
      BY DEF Blank, Line, Own, IsContent
    <3>4. i + n >= l
      <4>1. i + n \notin last + 1..l - 1
        BY <2>5, <2>12, <3>2, <3>3
      <4> QED
        BY <1>4, <1>5, <2>4, <3>2, <4>1
    <3>5. l - n \in k + 1..i /\ (l - n) + n = l /\ l <= Len(file)
      BY <1>4, <1>5, <2>4, <2>9, <3>1, <3>2, <3>4
    <3>6. PICK j \in k + 1..i : j + n = l
      BY <3>5
    <3>7. j \in k + 1..Len(g)
      BY <2>9, <3>1, <3>6
    <3> QED
      BY <1>5, <3>1, <3>5, <3>6, <3>7
  <2> QED
    BY <2>9, <2>10, <2>11, <2>12 DEF TakenOut
<1>12. CASE ~(Cardinality(content) <= 1)
  <2>1. found \in same /\ same \in SUBSET Nat
    BY <1>9
  <2>2. PICK first \in same : first = Min(same)
    <3> HIDE DEF same
    <3>1. same # {}
      BY <2>1
    <3> QED
      BY <2>1, <3>1, NatMin
  <2>3. first \in 1..Len(file) /\ file[first] = file[found]
    OBVIOUS
  <2> HIDE DEF same
  <2>4. PICK k : k = first - 1
    OBVIOUS
  <2>5. k \in Nat /\ k + 1 = first
    BY <2>3, <2>4
  <2>6. Spliced(g, file, k, 1)
    <3>1. g = Cut(file, first, first)
      BY <1>10, <1>12, <2>2
    <3>2. g = SubSeq(file, 1, k) \o SubSeq(file, k + 1 + 1, Len(file))
      BY <2>4, <2>5, <3>1 DEF Cut
    <3>3. k \in 0..Len(file) /\ 1 \in 0..Len(file) - k
      BY <2>3, <2>5
    <3> QED
      BY <3>2, <3>3, CutIs
  <2>7. /\ ~Own(file[first]) /\ ~IsHeader(file[first]) /\ file[first].mark = a
    BY <1>9, <2>3, SSHConfigAssumption DEF Own, IsHeader
  <2>8. \A i \in k + 1..k + 1 : i = first
    BY <2>5
  <2> QED
    BY <2>5, <2>6, <2>7, <2>8 DEF TakenOut
<1> QED
  BY <1>11, <1>12

-----------------------------------------------------------------------------
(* So an edit for one host keeps what the others have, and what the user has set. *)

LEMMA ParseKeeps ==
  ASSUME NEW file \in Seq(Lines)
  PROVE  /\ Parse(file) \in Seq(Lines)
         /\ UserSettings(Parse(file)) = UserSettings(file)
         /\ \A a, port : /\ HasRemoteForward(Parse(file), a, port) <=> HasRemoteForward(file, a, port)
                         /\ Conflicts(Parse(file), a, port) <=> Conflicts(file, a, port)
<1>1. CASE file # <<Blank>>
  BY <1>1 DEF Parse
<1>2. CASE file = <<Blank>>
  <2>1. Parse(file) = <<>> /\ <<>> \in Seq(Lines)
    BY <1>2 DEF Parse
  <2>2. Len(file) = 1 /\ file[1] = Blank /\ DOMAIN file = 1..1
    BY <1>2
  <2>3. ~IsHeader(Blank) /\ ~Own(Blank)
    BY DEF Blank, Line, IsHeader, Own, IsContent
  <2>4. OwnLines(file) = {} /\ OwnLines(<<>>) = {}
    BY <2>2, <2>3 DEF OwnLines
  <2>5. UserSettings(file) = UserSettings(<<>>)
    BY <2>4, UserSettingsIs
  <2>6. \A a, j : ~InBlock(file, a, j) /\ ~InBlock(<<>>, a, j)
    BY <2>2, <2>3 DEF InBlock, Starts, Names
  <2>7. ASSUME NEW a, NEW port
        PROVE  /\ ~HasRemoteForward(file, a, port) /\ ~HasRemoteForward(<<>>, a, port)
               /\ ~Conflicts(file, a, port) /\ ~Conflicts(<<>>, a, port)
    <3>1. PICK e \in Seq(Lines) : e = <<>>
      BY <2>1
    <3>2. \A j : ~InBlock(file, a, j) /\ ~InBlock(e, a, j)
      BY <2>6, <3>1
    <3>3. ~HasRemoteForward(file, a, port) /\ ~HasRemoteForward(e, a, port)
      BY <3>2, HasForwardIs
    <3>4. ~Conflicts(file, a, port) /\ ~Conflicts(e, a, port)
      BY <3>2, ConflictsIs
    <3> QED
      BY <3>1, <3>3, <3>4
  <2> QED
    BY <2>1, <2>5, <2>7
<1> QED
  BY <1>1, <1>2

\* After AddRemoteForward the host has its forward, in the file of what the user has set;
LEMMA AddHas ==
  ASSUME NEW file \in Seq(Lines), NEW a \in Alias, NEW port \in Port,
         ~Conflicts(file, a, port)
  PROVE  /\ AddRemoteForward(file, a, port) \in Seq(Lines)
         /\ HasRemoteForward(AddRemoteForward(file, a, port), a, port)
         /\ UserSettings(AddRemoteForward(file, a, port)) = UserSettings(file)
<1>1. PICK g : g = AddRemoteForward(file, a, port)
  OBVIOUS
<1>2. CASE /\ g = file
           /\ BlockStart(file, a) # 0
           /\ ForwardsIn(file, BlockStart(file, a), port) # {}
  <2>1. PICK s : s = BlockStart(file, a)
    OBVIOUS
  <2>2. PICK same : same = ForwardsIn(file, s, port)
    OBVIOUS
  <2>3. s \in 1..Len(file)
    BY <1>2, <2>1, BlockStartIs DEF Starts
  <2>4. same \in SUBSET Nat /\ same # {}
    BY <1>2, <2>1, <2>2, <2>3, BlockLimitIs DEF ForwardsIn
  <2>5. Min(same) \in same
    BY <2>4, NatMin
  <2>6. file[Min(same)].mark = a
    BY <1>2, <2>1, <2>2 DEF Conflicts
  <2>7. Min(same) \in Ours(file, a, port)
    BY <1>2, <2>1, <2>2, <2>5, <2>6 DEF Ours
  <2> QED
    BY <1>1, <1>2, <2>7 DEF HasRemoteForward
<1>3. ASSUME NEW k \in 0..Len(file), NEW n \in 1..3,
             Spliced(file, g, k, n),
             InBlock(g, a, k + n), g[k + n] = Forward(port, a),
             \A i \in k + 1..k + n - 1 : g[i] \in {Blank, HostLine(a)},
             n = 1 \/ k = Len(file)
      PROVE  g \in Seq(Lines) /\ HasRemoteForward(g, a, port) /\ UserSettings(g) = UserSettings(file)
  <2>1. g \in Seq(Lines) /\ Len(g) = Len(file) + n /\ k + n \in 1..Len(g)
    BY <1>3 DEF Spliced
  <2>2. HasRemoteForward(g, a, port)
    BY <1>3, <2>1, HasForwardIs, LinesHave
  <2>3. \A i \in k + 1..k + n : ~Own(g[i])
    BY <1>3, LinesHave
  <2>4. \/ \A i \in k + 1..k + n : ~IsHeader(g[i])
        \/ \A i \in k + 1..Len(file) : Own(file[i]) => \E j \in k + 1..i : IsHeader(file[j])
    <3>1. CASE n = 1
      <4>1. \A i \in k + 1..k + n : g[i] = Forward(port, a)
        BY <1>3, <3>1
      <4> QED
        BY <4>1, LinesHave
    <3>2. CASE k = Len(file)
      BY <3>2
    <3> QED
      BY <1>3, <3>1, <3>2
  <2>5. UserSettings(g) = UserSettings(file)
    BY <1>3, <2>3, <2>4, SettingsKept
  <2> QED
    BY <2>1, <2>2, <2>5
<1> QED
  BY <1>1, <1>2, <1>3, AddIs

\* it takes no forward from the host, and brings it into no conflict;
LEMMA AddKeepsOwn ==
  ASSUME NEW file \in Seq(Lines), NEW a \in Alias, NEW port \in Port
  PROVE  /\ \A p : HasRemoteForward(file, a, p) =>
                     HasRemoteForward(AddRemoteForward(file, a, port), a, p)
         /\ ~Conflicts(file, a, port) => ~Conflicts(AddRemoteForward(file, a, port), a, port)
<1>1. PICK g : g = AddRemoteForward(file, a, port)
  OBVIOUS
<1>2. CASE g = file
  BY <1>1, <1>2
<1>3. ASSUME NEW k \in 0..Len(file), NEW n \in 1..3,
             Spliced(file, g, k, n),
             g[k + n] = Forward(port, a),
             \A i \in k + 1..k + n - 1 : g[i] \in {Blank, HostLine(a)},
             \/ n = 1 /\ \A j \in 1..Len(file) : InBlock(file, a, j) => ~Forwards(file[j], port)
             \/ k = Len(file) /\ \A j \in 1..Len(file) : ~Names(file[j], a)
      PROVE  /\ \A p : HasRemoteForward(file, a, p) => HasRemoteForward(g, a, p)
             /\ ~Conflicts(g, a, port)
  <2>1. g \in Seq(Lines) /\ Len(g) = Len(file) + n /\ Len(file) \in Nat
    BY <1>3 DEF Spliced
  <2>2. ASSUME NEW j \in 1..Len(g), InBlock(g, a, j), Forwards(g[j], port), g[j].mark # a
        PROVE  j \notin k + 1..k + n
    <3>1. ~Forwards(Blank, port) /\ ~Forwards(HostLine(a), port) /\ Forward(port, a).mark = a
      BY LinesHave DEF Forwards, Blank, HostLine, Line
    <3>2. j # k + n
      BY <1>3, <2>2, <3>1
    <3>3. j \notin k + 1..k + n - 1
      BY <1>3, <2>2, <3>1
    <3> QED
      BY <3>2, <3>3
  <2>3. CASE n = 1 /\ \A j \in 1..Len(file) : InBlock(file, a, j) => ~Forwards(file[j], port)
    <3>1. \A i \in k + 1..k + n : g[i] = Forward(port, a)
      BY <1>3, <2>3
    <3>2. \A i \in k + 1..k + n : ~IsHeader(g[i]) /\ ~Names(g[i], a)
      BY <3>1, LinesHave DEF Names
    <3>3. ASSUME NEW p, HasRemoteForward(file, a, p)
          PROVE  HasRemoteForward(g, a, p)
      <4>1. PICK j \in 1..Len(file) : InBlock(file, a, j) /\ Forwards(file[j], p) /\ file[j].mark = a
        BY <3>3, HasForwardIs
      <4>2. InBlock(g, a, Place(k, n, j))
        BY <1>3, <3>2, <4>1, BlockGrows
      <4>3. Place(k, n, j) \in 1..Len(g) /\ g[Place(k, n, j)] = file[j]
        BY <1>3, PlaceIs
      <4> QED
        BY <2>1, <4>1, <4>2, <4>3, HasForwardIs
    <3>4. ASSUME Conflicts(g, a, port)
          PROVE  FALSE
      <4>1. PICK j \in 1..Len(g) : InBlock(g, a, j) /\ Forwards(g[j], port) /\ g[j].mark # a
        BY <2>1, <3>4, ConflictsIs
      <4>2. PICK h \in 1..Len(file) : Place(k, n, h) = j
        BY <1>3, <2>2, <4>1, PlaceExists
      <4>3. InBlock(file, a, h)
        BY <1>3, <3>2, <4>1, <4>2, BlockShrinks
      <4>4. Forwards(file[h], port)
        BY <1>3, <4>1, <4>2, PlaceIs
      <4> QED
        BY <2>3, <4>3, <4>4
    <3> QED
      BY <3>3, <3>4
  <2>4. CASE k = Len(file) /\ \A j \in 1..Len(file) : ~Names(file[j], a)
    <3>1. \A j \in 1..Len(file) : ~InBlock(file, a, j)
      BY <2>4 DEF InBlock, Starts
    <3>2. \A p : ~HasRemoteForward(file, a, p)
      BY <3>1, HasForwardIs
    <3>3. ASSUME Conflicts(g, a, port)
          PROVE  FALSE
      <4>1. PICK j \in 1..Len(g) : InBlock(g, a, j) /\ Forwards(g[j], port) /\ g[j].mark # a
        BY <2>1, <3>3, ConflictsIs
      <4>2. j \in 1..k
        BY <2>1, <2>2, <2>4, <4>1
      <4>3. PICK t \in 1..Len(g) : Starts(g, a, t) /\ j \in t + 1..Len(g)
        BY <4>1 DEF InBlock
      <4>4. t \in 1..k /\ Names(g[t], a)
        BY <2>1, <4>2, <4>3 DEF Starts
      <4>5. g[t] = file[t]
        BY <1>3, <4>4 DEF Spliced
      <4> QED
        BY <2>4, <4>4, <4>5
    <3> QED
      BY <3>2, <3>3
  <2> QED
    BY <1>3, <2>3, <2>4
<1> QED
  BY <1>1, <1>2, <1>3, AddIs

\* it keeps what another host has.
LEMMA AddKeepsOthers ==
  ASSUME NEW file \in Seq(Lines), NEW a \in Alias, NEW port \in Port, NEW b \in Alias \ {a}, NEW p
  PROVE  /\ HasRemoteForward(file, b, p) =>
              HasRemoteForward(AddRemoteForward(file, a, port), b, p)
         /\ Conflicts(file, b, p) => Conflicts(AddRemoteForward(file, a, port), b, p)
<1>1. PICK g : g = AddRemoteForward(file, a, port)
  OBVIOUS
<1>2. ASSUME NEW k \in 0..Len(file), NEW n \in 1..3,
             Spliced(file, g, k, n),
             InBlock(g, a, k + n), g[k + n] = Forward(port, a),
             \A i \in k + 1..k + n - 1 : g[i] \in {Blank, HostLine(a)},
             n = 1 \/ k = Len(file)
      PROVE  /\ HasRemoteForward(file, b, p) => HasRemoteForward(g, b, p)
             /\ Conflicts(file, b, p) => Conflicts(g, b, p)
  <2>1. g \in Seq(Lines) /\ Len(g) = Len(file) + n /\ Len(file) \in Nat
    BY <1>2 DEF Spliced
  <2>2. \A i \in k + 1..k + n : g[i] \in {Blank, HostLine(a), Forward(port, a)}
    BY <1>2
  <2>3. \A i \in k + 1..k + n : ~Names(g[i], b)
    BY <2>2, LinesHave DEF Names
  <2>4. k = Len(file) \/ \A i \in k + 1..k + n : ~IsHeader(g[i])
    <3>1. CASE n = 1
      <4>1. \A i \in k + 1..k + n : g[i] = Forward(port, a)
        BY <1>2, <3>1
      <4> QED
        BY <4>1, LinesHave
    <3> QED
      BY <1>2, <3>1
  <2>5. ASSUME NEW j \in 1..Len(file), InBlock(file, b, j)
        PROVE  /\ Place(k, n, j) \in 1..Len(g) /\ InBlock(g, b, Place(k, n, j))
               /\ g[Place(k, n, j)] = file[j]
    <3>1. InBlock(g, b, Place(k, n, j))
      BY <1>2, <2>3, <2>4, <2>5, BlockGrows
    <3>2. Place(k, n, j) \in 1..Len(g) /\ g[Place(k, n, j)] = file[j]
      BY <1>2, <2>5, PlaceIs
    <3> QED
      BY <3>1, <3>2
  <2>6. ASSUME HasRemoteForward(file, b, p)
        PROVE  HasRemoteForward(g, b, p)
    <3>1. PICK j \in 1..Len(file) : InBlock(file, b, j) /\ Forwards(file[j], p) /\ file[j].mark = b
      BY <2>6, HasForwardIs
    <3> QED
      BY <2>1, <2>5, <3>1, HasForwardIs
  <2>7. ASSUME Conflicts(file, b, p)
        PROVE  Conflicts(g, b, p)
    <3>1. PICK j \in 1..Len(file) :
            /\ InBlock(file, b, j) /\ Forwards(file[j], p) /\ file[j].mark # b
            /\ \A i \in 1..j - 1 : ~(InBlock(file, b, i) /\ Forwards(file[i], p))
      BY <2>7, ConflictsIs
    <3>2. ASSUME NEW i \in 1..Place(k, n, j) - 1, InBlock(g, b, i), Forwards(g[i], p)
          PROVE  FALSE
      <4>1. i \in 1..Len(g)
        BY <1>2, <2>1, <3>1 DEF Place
      <4>2. CASE i \in k + 1..k + n
        <5>1. i = k + n
          <6>1. ~Forwards(Blank, p) /\ ~Forwards(HostLine(a), p)
            BY DEF Forwards, Blank, HostLine, Line
          <6> QED
            BY <1>2, <3>2, <4>2, <6>1
        <5>2. PICK t \in 1..Len(g) : /\ Starts(g, b, t) /\ i \in t + 1..Len(g)
                                     /\ \A h \in t + 1..i : ~IsHeader(g[h])
          BY <3>2 DEF InBlock
        <5>3. PICK s \in 1..Len(g) : /\ Starts(g, a, s) /\ i \in s + 1..Len(g)
                                     /\ \A h \in s + 1..i : ~IsHeader(g[h])
          BY <1>2, <5>1 DEF InBlock
        <5>4. Names(g[t], b) /\ Names(g[s], a)
          BY <5>2, <5>3 DEF Starts
        <5>5. s = t
          BY <2>1, <5>2, <5>3, <5>4 DEF Names
        <5> QED
          BY <5>4, <5>5 DEF Names
      <4>3. CASE i \notin k + 1..k + n
        <5>1. PICK h \in 1..Len(file) : Place(k, n, h) = i
          BY <1>2, <4>1, <4>3, PlaceExists
        <5>2. InBlock(file, b, h)
          BY <1>2, <2>3, <3>2, <5>1, BlockShrinks
        <5>3. Forwards(file[h], p)
          BY <1>2, <3>2, <5>1, PlaceIs
        <5>4. h \in 1..j - 1
          BY <1>2, <2>1, <3>1, <5>1 DEF Place
        <5> QED
          BY <3>1, <5>2, <5>3, <5>4
      <4> QED
        BY <4>2, <4>3
    <3> QED
      BY <2>1, <2>5, <3>1, <3>2, ConflictsIs
  <2> QED
    BY <2>6, <2>7
<1> QED
  BY <1>1, <1>2, AddIs

\* RemoveRemoteForward keeps what another host has, and what the user has set.
LEMMA RemoveKeeps ==
  ASSUME NEW file \in Seq(Lines), NEW a \in Alias, NEW port \in Port
  PROVE  /\ RemoveRemoteForward(file, a, port) \in Seq(Lines)
         /\ UserSettings(RemoveRemoteForward(file, a, port)) = UserSettings(file)
         /\ \A b \in Alias \ {a} : \A p :
              HasRemoteForward(file, b, p) =>
                HasRemoteForward(RemoveRemoteForward(file, a, port), b, p)
<1>1. PICK g : g = RemoveRemoteForward(file, a, port)
  OBVIOUS
<1>2. CASE g = file
  BY <1>1, <1>2
<1>3. CASE g # file
  <2>1. PICK k \in Nat, n \in Nat : TakenOut(file, g, a, k, n)
    BY <1>1, <1>3, RemoveIs
  <2>2. g \in Seq(Lines)
    BY <2>1 DEF TakenOut, Spliced
  <2>3. UserSettings(g) = UserSettings(file)
    BY <2>1, SettingsKept DEF TakenOut
  <2>4. ASSUME NEW b \in Alias \ {a}, NEW p, HasRemoteForward(file, b, p)
        PROVE  HasRemoteForward(g, b, p)
    <3>1. PICK j \in 1..Len(file) : InBlock(file, b, j) /\ Forwards(file[j], p) /\ file[j].mark = b
      BY <2>4, HasForwardIs
    <3>2. j \notin k + 1..k + n
      BY <2>1, <3>1 DEF TakenOut, Forwards
    <3>3. PICK i \in 1..Len(g) : Place(k, n, i) = j
      BY <2>1, <3>2, PlaceExists DEF TakenOut
    <3>4. \A h \in k + 1..k + n : ~Names(file[h], b)
      BY <2>1 DEF TakenOut, Names
    <3>5. InBlock(g, b, i)
      BY <2>1, <3>1, <3>3, <3>4, BlockShrinks DEF TakenOut
    <3>6. g[i] = file[j]
      BY <2>1, <3>3, PlaceIs DEF TakenOut
    <3> QED
      BY <2>2, <3>1, <3>5, <3>6, HasForwardIs
  <2> QED
    BY <1>1, <2>2, <2>3, <2>4
<1> QED
  BY <1>2, <1>3

-----------------------------------------------------------------------------
(* The inductive invariant.                                                *)

Hostless == {"init", "init-no-keychain", "rotate-token", "uninstall", "uninstall-keep-config",
             "start", "stop", "restart"}
Hosted   == {"add-host", "update-token", "remove-host", "revoke"}
Inits    == {"init", "init-no-keychain"}

Fixes == {FixForward, FixBinary, FixTokenPerms, FixSkill}

\* What a command, or doctor from one point on, has to do.
IsPlan(plan, cmd) ==
  \/ cmd \in Inits /\ plan = <<"save", "store", "install-unit", "start">>
  \/ cmd = "add-host" /\ plan = Append(InstallPlan, "save")
  \/ cmd = "update-token" /\ plan = Append(TokenPlan, "save")
  \/ cmd = "remove-host" /\ plan = Append(UninstallPlan, "save")
  \/ cmd = "revoke" /\ plan = <<"save">>
  \/ cmd = "rotate-token" /\ plan = <<"store">>
  \/ cmd = "uninstall-keep-config" /\ plan = <<"stop", "remove-unit", "delete-token">>
  \/ /\ cmd = "uninstall"
     /\ plan = Append(<<"stop", "remove-unit", "delete-token">>, "delete-config")
  \/ cmd \in {"start", "stop", "restart"} /\ plan = <<cmd>>
  \/ /\ cmd = "doctor-fix"
     /\ plan \in Fixes \cup {<<"check-keychain", "check-host">>, <<"fix-keychain">>}

Job == [cmd : Command, step : Step, left : Seq(Step), host : Alias \cup {None}, cfg : Config,
        file : Seq(Lines), todo : SUBSET (Alias \cup {None}), fixes : Seq(Fixes),
        outdated : SUBSET {"config", "ssh"}, calm : BOOLEAN, fresh : BOOLEAN]

Runs == [Proc -> Job \cup {Idle}]

Types ==
  /\ config \in Config \cup {None}
  /\ keychain \in [here : BOOLEAN, token : Token \cup {None, Torn}]
  /\ tokenFile \in Token \cup {None, Torn}
  /\ service \in [unit : BOOLEAN, port : Port \cup {None}]
  /\ ssh \in Seq(Lines)
  /\ remote \in [Alias -> Installed]
  /\ used \in 0..MaxCommands + 1
  /\ run \in Runs
  /\ commands \in 0..MaxCommands /\ faults \in 0..MaxFaults
  /\ whole \subseteq Alias /\ delivered \subseteq Alias /\ clobbered \in BOOLEAN

\* A running command is at a step of its plan, with the rest of it left.
Placed(r) ==
  \E plan \in Seq(Step) : \E k \in 1..Len(plan) :
    /\ IsPlan(plan, r.cmd) /\ r.step = plan[k]
    /\ Len(r.left) = Len(plan) - k /\ \A i \in 1..Len(plan) - k : r.left[i] = plan[k + i]

\* It has a host, from the configuration it loaded, when it works on one, and none when
\* it writes the defaults.
Suited(r) ==
  /\ r.cmd \in Hostless => r.host = None
  /\ r.cmd \in Inits => Hosts(r.cfg) = {}
  /\ r.cmd \in Hosted => r.host \in Alias
  /\ r.cmd \in {"remove-host", "revoke"} => r.host \in Hosts(r.cfg)
  /\ r.cmd = "doctor-fix" =>
       /\ r.todo \subseteq Hosts(r.cfg) \cup {None}
       /\ \/ r.step \in {"check-keychain", "check-host", "fix-keychain"} /\ r.fixes = <<>>
          \/ r.host \in Hosts(r.cfg)

\* The port of every host is the one of the configuration.
OnePort(cfg) == \A h \in Hosts(cfg) : cfg.hosts[h].port = cfg.port

\* What a command has read is what is there, load and file s, or it is outdated, or it has
\* begun to delete it.
Current(r, load, s) ==
  /\ OnePort(r.cfg)
  /\ r.cmd \notin Inits /\ "config" \notin r.outdated /\ r.step # "delete-config" => r.cfg = load
  /\ r.step = "write-ssh" => /\ UserSettings(r.file) = UserSettings(s)
                             /\ "ssh" \notin r.outdated => r.file = Parse(s)

\* A host being removed is not counted as installed (set w), one about to be added is
\* forwarded.
Forwarded(r, s, w) ==
  /\ r.cmd = "remove-host" => r.host \notin w
  /\ r.cmd = "add-host" /\ r.step = "save" /\ r.outdated = {} =>
       HasRemoteForward(s, r.host, HostPort(r.cfg, r.host))

\* A host of m has the token t of the file.
HasToken(h, t, m) == t # None /\ m[h].token = t

\* The token a command copied since it last changed is there.
Copying == {"copy-binary", "make-executable", "copy-token"}

Delivers(r, t, m) ==
  r.cmd \in {"add-host", "update-token"} /\ r.fresh /\ r.step \notin Copying
  => HasToken(r.host, t, m)

JobOK(r, load, s, w, t, m) ==
  Placed(r) /\ Suited(r) /\ Current(r, load, s) /\ Forwarded(r, s, w) /\ Delivers(r, t, m)

Jobs == \A p \in Proc : run[p] # Idle => JobOK(run[p], Load, ssh, whole, tokenFile, remote)

Delivered == \A h \in delivered : HasToken(h, tokenFile, remote)

\* Every token generated, or about to be, has a command of its own, but for the first.
Waits(r)  == r.cmd \in Inits \cup {"rotate-token"} /\ r.step \in {"save", "store"}
Waiting   == {p \in Proc : Waits(run[p])}
Generated == IsFiniteSet(Waiting) /\ used + Cardinality(Waiting) <= commands + 1

IInv == Types /\ Generated /\ Jobs /\ OnePort(Load) /\ HostIsForwarded /\ Delivered

\* A fix of doctor is still to do.
Pending(r, fix) == \E i \in 1..Len(r.fixes) : r.fixes[i] = fix

-----------------------------------------------------------------------------
(* How a command goes through its steps.                                   *)

\* The steps of a command, and which comes after which within a plan.
HasStep(cmd, s) ==
  \/ cmd \in Inits /\ s \in {"save", "store", "install-unit", "start"}
  \/ /\ cmd = "add-host"
     /\ s \in {"copy-binary", "make-executable", "copy-token", "private", "verify", "copy-skill",
               "read-ssh", "write-ssh", "save"}
  \/ cmd = "update-token" /\ s \in {"copy-token", "private", "verify", "save"}
  \/ /\ cmd = "remove-host"
     /\ s \in {"rm-binary", "rm-token", "rm-skill", "read-ssh", "write-ssh", "save"}
  \/ cmd = "revoke" /\ s = "save"
  \/ cmd = "rotate-token" /\ s = "store"
  \/ cmd = "uninstall-keep-config" /\ s \in {"stop", "remove-unit", "delete-token"}
  \/ /\ cmd = "uninstall"
     /\ s \in {"stop", "remove-unit", "delete-token", "delete-config"}
  \/ cmd \in {"start", "stop", "restart"} /\ s = cmd
  \/ /\ cmd = "doctor-fix"
     /\ s \in {"check-keychain", "check-host", "fix-keychain", "read-ssh", "write-ssh",
               "copy-binary", "make-executable", "private", "copy-skill"}

Leads(cmd, s, t) ==
  \/ s = "save" /\ t = "store"
  \/ s = "store" /\ t = "install-unit"
  \/ s = "install-unit" /\ t = "start"
  \/ s = "copy-binary" /\ t = "make-executable"
  \/ s = "make-executable" /\ t = "copy-token"
  \/ s = "copy-token" /\ t = "private"
  \/ s = "private" /\ t = "verify"
  \/ s = "verify" /\ t = "copy-skill"
  \/ s = "copy-skill" /\ t = "read-ssh"
  \/ s = "read-ssh" /\ t = "write-ssh"
  \/ s = "write-ssh" /\ t = "save"
  \/ s = "verify" /\ t = "save" /\ cmd = "update-token"
  \/ s = "rm-binary" /\ t = "rm-token"
  \/ s = "rm-token" /\ t = "rm-skill"
  \/ s = "rm-skill" /\ t = "read-ssh"
  \/ s = "stop" /\ t = "remove-unit"
  \/ s = "remove-unit" /\ t = "delete-token"
  \/ s = "delete-token" /\ t = "delete-config"
  \/ s = "check-keychain" /\ t = "check-host"

Sound(plan, cmd) ==
  /\ Len(plan) \in Nat \ {0}
  /\ \A k \in 1..Len(plan) : HasStep(cmd, plan[k])
  /\ \A k \in 1..Len(plan) - 1 : Leads(cmd, plan[k], plan[k + 1])

LEMMA LongPlans ==
  ASSUME NEW plan
  PROVE  /\ plan = Append(InstallPlan, "save") =>
              /\ Len(plan) = 9
              /\ plan[1] = "copy-binary" /\ plan[2] = "make-executable" /\ plan[3] = "copy-token"
              /\ plan[4] = "private" /\ plan[5] = "verify" /\ plan[6] = "copy-skill"
              /\ plan[7] = "read-ssh" /\ plan[8] = "write-ssh" /\ plan[9] = "save"
         /\ plan = Append(TokenPlan, "save") =>
              /\ Len(plan) = 4
              /\ plan[1] = "copy-token" /\ plan[2] = "private" /\ plan[3] = "verify"
              /\ plan[4] = "save"
         /\ plan = Append(UninstallPlan, "save") =>
              /\ Len(plan) = 6
              /\ plan[1] = "rm-binary" /\ plan[2] = "rm-token" /\ plan[3] = "rm-skill"
              /\ plan[4] = "read-ssh" /\ plan[5] = "write-ssh" /\ plan[6] = "save"
  BY DEF InstallPlan, TokenPlan, UninstallPlan

\* The steps of a plan one by one.
LEMMA OneByOne ==
  ASSUME NEW plan, NEW cmd, Len(plan) \in 1..9,
         HasStep(cmd, plan[1]),
         Len(plan) > 1 => Leads(cmd, plan[1], plan[2]) /\ HasStep(cmd, plan[2]),
         Len(plan) > 2 => Leads(cmd, plan[2], plan[3]) /\ HasStep(cmd, plan[3]),
         Len(plan) > 3 => Leads(cmd, plan[3], plan[4]) /\ HasStep(cmd, plan[4]),
         Len(plan) > 4 => Leads(cmd, plan[4], plan[5]) /\ HasStep(cmd, plan[5]),
         Len(plan) > 5 => Leads(cmd, plan[5], plan[6]) /\ HasStep(cmd, plan[6]),
         Len(plan) > 6 => Leads(cmd, plan[6], plan[7]) /\ HasStep(cmd, plan[7]),
         Len(plan) > 7 => Leads(cmd, plan[7], plan[8]) /\ HasStep(cmd, plan[8]),
         Len(plan) > 8 => Leads(cmd, plan[8], plan[9]) /\ HasStep(cmd, plan[9])
  PROVE  Sound(plan, cmd)
<1>0. PICK n \in 1..9 : Len(plan) = n
  OBVIOUS
<1>1. ASSUME NEW k \in 1..n
      PROVE  HasStep(cmd, plan[k])
  <2>1. k = 1 \/ k = 2 \/ k = 3 \/ k = 4 \/ k = 5 \/ k = 6 \/ k = 7 \/ k = 8 \/ k = 9
    OBVIOUS
  <2> QED
    BY <1>0, <2>1
<1>2. ASSUME NEW k \in 1..n - 1
      PROVE  Leads(cmd, plan[k], plan[k + 1])
  <2>1. k = 1 \/ k = 2 \/ k = 3 \/ k = 4 \/ k = 5 \/ k = 6 \/ k = 7 \/ k = 8
    OBVIOUS
  <2>2. CASE k = 1
    BY <1>0, <2>2
  <2>3. CASE k = 2
    BY <1>0, <2>3
  <2>4. CASE k = 3
    BY <1>0, <2>4
  <2>5. CASE k = 4
    BY <1>0, <2>5
  <2>6. CASE k = 5
    BY <1>0, <2>6
  <2>7. CASE k = 6
    BY <1>0, <2>7
  <2>8. CASE k = 7
    BY <1>0, <2>8
  <2>9. CASE k = 8
    BY <1>0, <2>9
  <2> QED
    BY <2>1, <2>2, <2>3, <2>4, <2>5, <2>6, <2>7, <2>8, <2>9
<1> QED
  BY <1>0, <1>1, <1>2 DEF Sound

LEMMA LeadsHolds ==
  ASSUME NEW cmd
  PROVE
  /\ Leads(cmd, "save", "store") /\ Leads(cmd, "store", "install-unit") /\ Leads(cmd, "install-unit", "start")
  /\ Leads(cmd, "copy-binary", "make-executable") /\ Leads(cmd, "make-executable", "copy-token")
  /\ Leads(cmd, "copy-token", "private") /\ Leads(cmd, "private", "verify") /\ Leads(cmd, "verify", "copy-skill")
  /\ Leads(cmd, "copy-skill", "read-ssh") /\ Leads(cmd, "read-ssh", "write-ssh") /\ Leads(cmd, "write-ssh", "save")
  /\ (cmd = "update-token" => Leads(cmd, "verify", "save")) /\ Leads(cmd, "rm-binary", "rm-token") /\ Leads(cmd, "rm-token", "rm-skill")
  /\ Leads(cmd, "rm-skill", "read-ssh") /\ Leads(cmd, "stop", "remove-unit")
  /\ Leads(cmd, "remove-unit", "delete-token") /\ Leads(cmd, "delete-token", "delete-config")
  /\ Leads(cmd, "check-keychain", "check-host")
  BY DEF Leads

LEMMA PlansAreSound ==
  ASSUME NEW cmd \in Command, NEW plan \in Seq(Step), IsPlan(plan, cmd)
  PROVE  Sound(plan, cmd)
<1>1. CASE cmd \in Inits
  <2>1. /\ Len(plan) = 4
        /\ plan[1] = "save"
        /\ plan[2] = "store"
        /\ plan[3] = "install-unit"
        /\ plan[4] = "start"
    BY <1>1 DEF IsPlan, Inits
  <2>2. /\ HasStep(cmd, plan[1])
        /\ HasStep(cmd, plan[2])
        /\ HasStep(cmd, plan[3])
        /\ HasStep(cmd, plan[4])
    BY <1>1, <2>1 DEF HasStep
  <2>3. /\ Leads(cmd, plan[1], plan[2])
        /\ Leads(cmd, plan[2], plan[3])
        /\ Leads(cmd, plan[3], plan[4])
    BY <2>1, LeadsHolds
  <2> QED
    BY <2>1, <2>2, <2>3, OneByOne
<1>2. CASE cmd = "add-host"
  <2>1. /\ Len(plan) = 9
        /\ plan[1] = "copy-binary"
        /\ plan[2] = "make-executable"
        /\ plan[3] = "copy-token"
        /\ plan[4] = "private"
        /\ plan[5] = "verify"
        /\ plan[6] = "copy-skill"
        /\ plan[7] = "read-ssh"
        /\ plan[8] = "write-ssh"
        /\ plan[9] = "save"
    BY <1>2, LongPlans DEF IsPlan, Inits
  <2>2. /\ HasStep(cmd, plan[1])
        /\ HasStep(cmd, plan[2])
        /\ HasStep(cmd, plan[3])
        /\ HasStep(cmd, plan[4])
        /\ HasStep(cmd, plan[5])
        /\ HasStep(cmd, plan[6])
        /\ HasStep(cmd, plan[7])
        /\ HasStep(cmd, plan[8])
        /\ HasStep(cmd, plan[9])
    BY <1>2, <2>1 DEF HasStep
  <2>3. /\ Leads(cmd, plan[1], plan[2])
        /\ Leads(cmd, plan[2], plan[3])
        /\ Leads(cmd, plan[3], plan[4])
        /\ Leads(cmd, plan[4], plan[5])
        /\ Leads(cmd, plan[5], plan[6])
        /\ Leads(cmd, plan[6], plan[7])
        /\ Leads(cmd, plan[7], plan[8])
        /\ Leads(cmd, plan[8], plan[9])
    BY <2>1, LeadsHolds
  <2> QED
    BY <2>1, <2>2, <2>3, OneByOne
<1>3. CASE cmd = "update-token"
  <2>1. /\ Len(plan) = 4
        /\ plan[1] = "copy-token"
        /\ plan[2] = "private"
        /\ plan[3] = "verify"
        /\ plan[4] = "save"
    BY <1>3, LongPlans DEF IsPlan, Inits
  <2>2. /\ HasStep(cmd, plan[1])
        /\ HasStep(cmd, plan[2])
        /\ HasStep(cmd, plan[3])
        /\ HasStep(cmd, plan[4])
    BY <1>3, <2>1 DEF HasStep
  <2>3. /\ Leads(cmd, plan[1], plan[2])
        /\ Leads(cmd, plan[2], plan[3])
        /\ Leads(cmd, plan[3], plan[4])
    BY <1>3, <2>1, LeadsHolds
  <2> QED
    BY <2>1, <2>2, <2>3, OneByOne
<1>4. CASE cmd = "remove-host"
  <2>1. /\ Len(plan) = 6
        /\ plan[1] = "rm-binary"
        /\ plan[2] = "rm-token"
        /\ plan[3] = "rm-skill"
        /\ plan[4] = "read-ssh"
        /\ plan[5] = "write-ssh"
        /\ plan[6] = "save"
    BY <1>4, LongPlans DEF IsPlan, Inits
  <2>2. /\ HasStep(cmd, plan[1])
        /\ HasStep(cmd, plan[2])
        /\ HasStep(cmd, plan[3])
        /\ HasStep(cmd, plan[4])
        /\ HasStep(cmd, plan[5])
        /\ HasStep(cmd, plan[6])
    BY <1>4, <2>1 DEF HasStep
  <2>3. /\ Leads(cmd, plan[1], plan[2])
        /\ Leads(cmd, plan[2], plan[3])
        /\ Leads(cmd, plan[3], plan[4])
        /\ Leads(cmd, plan[4], plan[5])
        /\ Leads(cmd, plan[5], plan[6])
    BY <2>1, LeadsHolds
  <2> QED
    BY <2>1, <2>2, <2>3, OneByOne
<1>5. CASE cmd = "uninstall-keep-config"
  <2>1. /\ Len(plan) = 3
        /\ plan[1] = "stop"
        /\ plan[2] = "remove-unit"
        /\ plan[3] = "delete-token"
    BY <1>5 DEF IsPlan, Inits
  <2>2. /\ HasStep(cmd, plan[1])
        /\ HasStep(cmd, plan[2])
        /\ HasStep(cmd, plan[3])
    BY <1>5, <2>1 DEF HasStep
  <2>3. /\ Leads(cmd, plan[1], plan[2])
        /\ Leads(cmd, plan[2], plan[3])
    BY <2>1, LeadsHolds
  <2> QED
    BY <2>1, <2>2, <2>3, OneByOne
<1>6. CASE cmd = "uninstall"
  <2>1. /\ Len(plan) = 4
        /\ plan[1] = "stop"
        /\ plan[2] = "remove-unit"
        /\ plan[3] = "delete-token"
        /\ plan[4] = "delete-config"
    BY <1>6 DEF IsPlan, Inits
  <2>2. /\ HasStep(cmd, plan[1])
        /\ HasStep(cmd, plan[2])
        /\ HasStep(cmd, plan[3])
        /\ HasStep(cmd, plan[4])
    BY <1>6, <2>1 DEF HasStep
  <2>3. /\ Leads(cmd, plan[1], plan[2])
        /\ Leads(cmd, plan[2], plan[3])
        /\ Leads(cmd, plan[3], plan[4])
    BY <2>1, LeadsHolds
  <2> QED
    BY <2>1, <2>2, <2>3, OneByOne
<1>7. CASE cmd \in {"revoke", "rotate-token", "start", "stop", "restart"}
  <2>1. PICK s \in {"save", "store", "start", "stop", "restart"} : plan = <<s>> /\ HasStep(cmd, s)
    BY <1>7 DEF IsPlan, Inits, HasStep
  <2>2. Len(plan) = 1 /\ plan[1] = s
    BY <2>1
  <2> QED
    BY <2>1, <2>2, OneByOne
<1>8. CASE cmd = "doctor-fix"
  <2>1. \/ plan = <<"read-ssh", "write-ssh">> \/ plan = <<"copy-binary", "make-executable">>
        \/ plan = <<"private">> \/ plan = <<"copy-skill">> \/ plan = <<"fix-keychain">>
        \/ plan = <<"check-keychain", "check-host">>
    BY <1>8 DEF IsPlan, Inits, Fixes, FixForward, FixBinary, FixTokenPerms, FixSkill
  <2>2. CASE plan = <<"read-ssh", "write-ssh">>
    <3>1. /\ Len(plan) = 2
          /\ plan[1] = "read-ssh"
          /\ plan[2] = "write-ssh"
      BY <2>2
    <3>2. /\ HasStep(cmd, plan[1])
          /\ HasStep(cmd, plan[2])
      BY <1>8, <3>1 DEF HasStep
    <3>3. /\ Leads(cmd, plan[1], plan[2])
      BY <3>1, LeadsHolds
    <3> QED
      BY <3>1, <3>2, <3>3, OneByOne
  <2>3. CASE plan = <<"copy-binary", "make-executable">>
    <3>1. /\ Len(plan) = 2
          /\ plan[1] = "copy-binary"
          /\ plan[2] = "make-executable"
      BY <2>3
    <3>2. /\ HasStep(cmd, plan[1])
          /\ HasStep(cmd, plan[2])
      BY <1>8, <3>1 DEF HasStep
    <3>3. /\ Leads(cmd, plan[1], plan[2])
      BY <3>1, LeadsHolds
    <3> QED
      BY <3>1, <3>2, <3>3, OneByOne
  <2>4. CASE plan = <<"private">>
    <3>1. /\ Len(plan) = 1
          /\ plan[1] = "private"
      BY <2>4
    <3>2. /\ HasStep(cmd, plan[1])
      BY <1>8, <3>1 DEF HasStep
    <3> QED
      BY <3>1, <3>2, OneByOne
  <2>5. CASE plan = <<"copy-skill">>
    <3>1. /\ Len(plan) = 1
          /\ plan[1] = "copy-skill"
      BY <2>5
    <3>2. /\ HasStep(cmd, plan[1])
      BY <1>8, <3>1 DEF HasStep
    <3> QED
      BY <3>1, <3>2, OneByOne
  <2>6. CASE plan = <<"fix-keychain">>
    <3>1. /\ Len(plan) = 1
          /\ plan[1] = "fix-keychain"
      BY <2>6
    <3>2. /\ HasStep(cmd, plan[1])
      BY <1>8, <3>1 DEF HasStep
    <3> QED
      BY <3>1, <3>2, OneByOne
  <2>7. CASE plan = <<"check-keychain", "check-host">>
    <3>1. /\ Len(plan) = 2
          /\ plan[1] = "check-keychain"
          /\ plan[2] = "check-host"
      BY <2>7
    <3>2. /\ HasStep(cmd, plan[1])
          /\ HasStep(cmd, plan[2])
      BY <1>8, <3>1 DEF HasStep
    <3>3. /\ Leads(cmd, plan[1], plan[2])
      BY <3>1, LeadsHolds
    <3> QED
      BY <3>1, <3>2, <3>3, OneByOne
  <2> QED
    BY <2>1, <2>2, <2>3, <2>4, <2>5, <2>6, <2>7
<1> QED
  BY <1>1, <1>2, <1>3, <1>4, <1>5, <1>6, <1>7, <1>8 DEF Command, Inits

-----------------------------------------------------------------------------
(* What a command is after a step.                                         *)

\* All but the step, what is left and the fixes.
Same(r, n) ==
  /\ n \in Job
  /\ n.cmd = r.cmd /\ n.host = r.host /\ n.cfg = r.cfg /\ n.file = r.file /\ n.todo = r.todo
  /\ n.outdated = r.outdated /\ n.calm = r.calm /\ n.fresh = r.fresh

\* The first step of each fix.
FirstOf(fix) ==
  CASE fix = FixForward    -> "read-ssh"
    [] fix = FixBinary     -> "copy-binary"
    [] fix = FixTokenPerms -> "private"
    [] OTHER               -> "copy-skill"

FixSteps == {"read-ssh", "copy-binary", "private", "copy-skill"}

\* Doctor goes to the next fix, or to the next host.
Fixed(r, n) ==
  /\ r.cmd = "doctor-fix"
  /\ \/ r.fixes = <<>> /\ n.fixes = <<>> /\ n.step = "check-host"
     \/ /\ r.fixes # <<>> /\ n.step \in FixSteps
        /\ \A fix \in Fixes : Pending(r, fix) => Pending(n, fix) \/ n.step = FirstOf(fix)

Goes(r, n) ==
  /\ Same(r, n) /\ Placed(n)
  /\ \/ Leads(r.cmd, r.step, n.step) /\ n.fixes = r.fixes
     \/ Fixed(r, n)

LEMMA HeadTail ==
  ASSUME NEW S, NEW s \in Seq(S), s # <<>>
  PROVE  /\ Head(s) \in S /\ Head(s) = s[1] /\ Tail(s) \in Seq(S)
         /\ Len(s) \in Nat \ {0} /\ Len(Tail(s)) = Len(s) - 1
         /\ \A i \in 1..Len(s) - 1 : Tail(s)[i] = s[i + 1]
  OBVIOUS

LEMMA JobFields ==
  ASSUME NEW r \in Job
  PROVE  /\ r.cmd \in Command /\ r.step \in Step /\ r.left \in Seq(Step)
         /\ r.host \in Alias \cup {None} /\ r.cfg \in Config /\ r.file \in Seq(Lines)
         /\ r.todo \in SUBSET (Alias \cup {None}) /\ r.fixes \in Seq(Fixes)
         /\ r.outdated \in SUBSET {"config", "ssh"} /\ r.calm \in BOOLEAN /\ r.fresh \in BOOLEAN
         /\ r # Idle
  BY SetupAssumption DEF Job, Idle

LEMMA IdleFields ==
  /\ Idle.cmd = None /\ Idle.step = None /\ Idle.host = None /\ Idle \notin Job
  /\ None \notin Command /\ None \notin Step /\ None \notin Alias
  BY SetupAssumption DEF Idle, Job

LEMMA AtIsJob ==
  ASSUME NEW r \in Job \cup {Idle}, r.step \in Step \/ r.cmd \in Command \/ r.step # None \/ r # Idle
  PROVE  r \in Job
  BY IdleFields

LEMMA PlacedHas ==
  ASSUME NEW r \in Job, Placed(r)
  PROVE  HasStep(r.cmd, r.step)
  BY PlansAreSound, JobFields DEF Placed, Sound

LEMMA PlacedLeft ==
  ASSUME NEW r \in Job, Placed(r), r.left # <<>>,
         NEW n, n = [r EXCEPT !.step = Head(r.left), !.left = Tail(r.left)]
  PROVE  /\ Same(r, n) /\ Placed(n) /\ n.fixes = r.fixes
         /\ n.step = Head(r.left) /\ Leads(r.cmd, r.step, n.step)
<1>0. PICK plan \in Seq(Step) : \E k \in 1..Len(plan) :
        /\ IsPlan(plan, r.cmd) /\ r.step = plan[k]
        /\ Len(r.left) = Len(plan) - k /\ \A i \in 1..Len(plan) - k : r.left[i] = plan[k + i]
  BY DEF Placed
<1>1. PICK k \in 1..Len(plan) :
        /\ IsPlan(plan, r.cmd) /\ r.step = plan[k]
        /\ Len(r.left) = Len(plan) - k /\ \A i \in 1..Len(plan) - k : r.left[i] = plan[k + i]
  BY <1>0
<1>2. Sound(plan, r.cmd)
  BY <1>1, PlansAreSound, JobFields
<1>3. PICK m \in Nat : m = Len(plan)
  OBVIOUS
<1>4. r.left \in Seq(Step) /\ Head(r.left) \in Step /\ Tail(r.left) \in Seq(Step)
  BY JobFields
<1>a. /\ Len(r.left) \in Nat /\ Len(Tail(r.left)) = Len(r.left) - 1
      /\ \A i \in 1..Len(r.left) - 1 : Tail(r.left)[i] = r.left[i + 1]
  BY <1>4, HeadTail
<1>5. PICK l \in Nat : l = Len(r.left)
  BY <1>a
<1>6. l # 0
  BY <1>4, <1>5
<1>7. l = m - k /\ k + 1 \in 1..m /\ Head(r.left) = plan[k + 1]
  BY <1>1, <1>3, <1>4, <1>5, <1>6
<1>8. Len(Tail(r.left)) = m - (k + 1)
  BY <1>a, <1>5, <1>7
<1>9. \A i \in 1..m - (k + 1) : Tail(r.left)[i] = plan[k + 1 + i]
  <2> SUFFICES ASSUME NEW i \in 1..m - (k + 1)
               PROVE  Tail(r.left)[i] = plan[k + 1 + i]
    OBVIOUS
  <2>1. Tail(r.left)[i] = r.left[i + 1]
    BY <1>a, <1>5, <1>7
  <2>2. i + 1 \in 1..Len(plan) - k /\ k + (i + 1) = k + 1 + i
    BY <1>3, <1>7
  <2> QED
    BY <1>1, <2>1, <2>2
<1>10. /\ n \in Job /\ n.step = Head(r.left) /\ n.left = Tail(r.left) /\ n.fixes = r.fixes
       /\ Same(r, n)
  BY <1>4 DEF Job, Same
<1>11. Leads(r.cmd, r.step, n.step)
  BY <1>1, <1>2, <1>3, <1>7, <1>10 DEF Sound
<1>12. Placed(n)
  <2>1. IsPlan(plan, n.cmd) /\ n.step = plan[k + 1] /\ k + 1 \in 1..Len(plan)
    BY <1>1, <1>3, <1>7, <1>10 DEF Same
  <2>2. /\ Len(n.left) = Len(plan) - (k + 1)
        /\ \A i \in 1..Len(plan) - (k + 1) : n.left[i] = plan[k + 1 + i]
    BY <1>3, <1>8, <1>9, <1>10
  <2> QED
    BY <2>1, <2>2 DEF Placed
<1> QED
  BY <1>10, <1>11, <1>12

LEMMA FixIs ==
  ASSUME NEW fix \in Fixes
  PROVE  /\ fix \in Seq(Step) /\ Head(fix) = FirstOf(fix) /\ Head(fix) \in FixSteps
         /\ Tail(fix) \in Seq(Step) /\ Head(fix) = fix[1]
         /\ Len(fix) \in 1..2 /\ Len(Tail(fix)) = Len(fix) - 1
         /\ \A i \in 1..Len(fix) - 1 : Tail(fix)[i] = fix[1 + i]
<1>1. fix \in {FixForward, FixBinary, FixTokenPerms, FixSkill}
  BY DEF Fixes
<1>2. fix \in Seq(Step) /\ Len(fix) \in 1..2
  <2>1. \A s, t \in Step : <<s>> \in Seq(Step) /\ <<s, t>> \in Seq(Step)
    OBVIOUS
  <2>2. \A s, t : Len(<<s>>) = 1 /\ Len(<<s, t>>) = 2
    OBVIOUS
  <2>3. /\ "read-ssh" \in Step /\ "write-ssh" \in Step /\ "copy-binary" \in Step
        /\ "make-executable" \in Step /\ "private" \in Step /\ "copy-skill" \in Step
    BY DEF Step
  <2> QED
    BY <1>1, <2>1, <2>2, <2>3 DEF FixForward, FixBinary, FixTokenPerms, FixSkill
<1>3. fix[1] = FirstOf(fix) /\ fix[1] \in FixSteps
  BY <1>1 DEF FirstOf, FixSteps, FixForward, FixBinary, FixTokenPerms, FixSkill
<1> QED
  BY <1>2, <1>3

LEMMA NextFixIs ==
  ASSUME NEW r \in Job, r.cmd = "doctor-fix", NEW n, n = NextFix(r)
  PROVE  /\ Same(r, n) /\ Placed(n) /\ Fixed(r, n)
         /\ r.fixes # <<>> => n.step \in FixSteps
<1>1. CASE r.fixes = <<>>
  <2>1. n = [r EXCEPT !.step = "check-host", !.left = <<>>]
    BY <1>1 DEF NextFix
  <2>2. "check-host" \in Step /\ <<>> \in Seq(Step)
    BY DEF Step
  <2>3. Same(r, n) /\ n.step = "check-host" /\ n.left = <<>> /\ n.fixes = r.fixes
    BY <2>1, <2>2 DEF Job, Same
  <2>4. Placed(n)
    <3> DEFINE plan == <<"check-keychain", "check-host">>
    <3>1. plan \in Seq(Step) /\ Len(plan) = 2 /\ plan[2] = "check-host"
      BY DEF Step
    <3>2. IsPlan(plan, n.cmd)
      BY <2>3 DEF IsPlan, Same
    <3>3. 2 \in 1..Len(plan) /\ Len(n.left) = Len(plan) - 2 /\ 1..Len(plan) - 2 = {}
      BY <2>3, <3>1
    <3> HIDE DEF plan
    <3> QED
      BY <2>3, <3>1, <3>2, <3>3 DEF Placed
  <2> QED
    BY <1>1, <2>3, <2>4 DEF Fixed
<1>2. CASE r.fixes # <<>>
  <2> DEFINE plan == Head(r.fixes)
             rest == Tail(r.fixes)
  <2>1. n = [r EXCEPT !.step = Head(plan), !.left = Tail(plan), !.fixes = rest]
    BY <1>2 DEF NextFix
  <2>2. r.fixes \in Seq(Fixes) /\ plan \in Fixes /\ rest \in Seq(Fixes)
    BY <1>2, JobFields
  <2>3. PICK l \in Nat : l = Len(r.fixes)
    BY <2>2
  <2>4. /\ l # 0 /\ plan = r.fixes[1] /\ Len(rest) = l - 1
        /\ \A i \in 1..l - 1 : rest[i] = r.fixes[i + 1]
    BY <1>2, <2>2, <2>3
  <2> HIDE DEF plan, rest
  <2>5. /\ plan \in Seq(Step) /\ Head(plan) = FirstOf(plan) /\ Head(plan) \in FixSteps
        /\ Tail(plan) \in Seq(Step)
    BY <2>2, FixIs
  <2>6. Head(plan) \in Step
    BY <2>5 DEF FixSteps, Step
  <2>7. Same(r, n) /\ n.step = Head(plan) /\ n.left = Tail(plan) /\ n.fixes = rest
    BY <2>1, <2>2, <2>5, <2>6 DEF Job, Same
  <2>8. Placed(n)
    <3>1. /\ Head(plan) = plan[1] /\ Len(Tail(plan)) = Len(plan) - 1 /\ 1 \in 1..Len(plan)
          /\ \A i \in 1..Len(plan) - 1 : Tail(plan)[i] = plan[1 + i]
      BY <2>2, FixIs
    <3>2. IsPlan(plan, n.cmd)
      BY <2>2, <2>7 DEF IsPlan, Same
    <3> QED
      BY <2>5, <2>7, <3>1, <3>2 DEF Placed
  <2>9. ASSUME NEW fix \in Fixes, Pending(r, fix)
        PROVE  Pending(n, fix) \/ n.step = FirstOf(fix)
    <3>1. PICK i \in 1..l : r.fixes[i] = fix
      BY <2>3, <2>9 DEF Pending
    <3>2. CASE i = 1
      BY <2>4, <2>5, <2>7, <3>1, <3>2
    <3>3. CASE i # 1
      <4>1. i - 1 \in 1..l - 1 /\ rest[i - 1] = r.fixes[i]
        BY <2>4, <3>1, <3>3
      <4> QED
        BY <2>4, <2>7, <3>1, <4>1 DEF Pending
    <3> QED
      BY <3>2, <3>3
  <2> QED
    BY <1>2, <2>5, <2>7, <2>8, <2>9 DEF Fixed
<1> QED
  BY <1>1, <1>2

LEMMA AfterIs ==
  ASSUME NEW r \in Job, Placed(r), NEW n, n = After(r)
  PROVE  \/ n = Idle /\ r.left = <<>> /\ r.cmd # "doctor-fix"
         \/ Goes(r, n)
<1>1. CASE r.left # <<>>
  <2>1. n = [r EXCEPT !.step = Head(r.left), !.left = Tail(r.left)]
    BY <1>1 DEF After
  <2> QED
    BY <1>1, <2>1, PlacedLeft DEF Goes
<1>2. CASE r.left = <<>> /\ r.cmd = "doctor-fix"
  <2>1. n = NextFix(r)
    BY <1>2 DEF After
  <2> QED
    BY <1>2, <2>1, NextFixIs DEF Goes
<1>3. CASE r.left = <<>> /\ r.cmd # "doctor-fix"
  <2>1. n = Idle
    BY <1>3 DEF After
  <2> QED
    BY <1>3, <2>1
<1> QED
  BY <1>1, <1>2, <1>3

-----------------------------------------------------------------------------
(* Configurations.                                                         *)

LEMMA ConfigFields ==
  ASSUME NEW cfg \in Config
  PROVE  /\ cfg # None /\ cfg.port \in Port /\ Hosts(cfg) \subseteq Alias
         /\ \A a \in Alias : /\ cfg.hosts[a] \in Host \cup {None}
                             /\ HostPort(cfg, a) \in Port
                             /\ OnePort(cfg) => HostPort(cfg, a) = cfg.port
         /\ \A h \in Hosts(cfg) : cfg.hosts[h] \in Host
<1>1. cfg # None /\ cfg.port \in Port /\ Hosts(cfg) \subseteq Alias
  BY SetupAssumption DEF Config, Hosts
<1>2. \A a \in Alias : cfg.hosts[a] \in Host \cup {None}
  BY DEF Config
<1>3. \A h \in Hosts(cfg) : cfg.hosts[h] \in Host
  BY <1>2 DEF Hosts
<1>4. ASSUME NEW a \in Alias
      PROVE  /\ HostPort(cfg, a) \in Port
             /\ OnePort(cfg) => HostPort(cfg, a) = cfg.port
  BY <1>1, <1>2 DEF HostPort, Host, OnePort, Hosts
<1> QED
  BY <1>1, <1>2, <1>3, <1>4

LEMMA DefaultIs ==
  ASSUME NEW port \in Port
  PROVE  /\ Default(port) \in Config /\ Hosts(Default(port)) = {} /\ OnePort(Default(port))
         /\ Default(port).port = port
  BY DEF Default, Config, Hosts, OnePort

LEMMA LoadIs ==
  ASSUME config \in Config \cup {None}
  PROVE  Load \in Config /\ (config # None => Load = config)
  BY DefaultIs, SetupAssumption DEF Load

\* What the commands on a host save.
LEMMA AfterCommandIs ==
  ASSUME NEW cfg \in Config, OnePort(cfg), NEW a \in Alias, NEW cmd \in Hosted,
         cmd \in {"remove-host", "revoke"} => a \in Hosts(cfg),
         NEW c, c = AfterCommand(cmd, cfg, a)
  PROVE  /\ c \in Config /\ OnePort(c) /\ c.port = cfg.port
         /\ \A h \in Alias \ {a} : c.hosts[h] = cfg.hosts[h]
         /\ cmd = "remove-host" => a \notin Hosts(c)
         /\ cmd # "remove-host" => /\ a \in Hosts(c) /\ c.hosts[a].permissions = {}
                                   /\ HostPort(c, a) = HostPort(cfg, a)
<1> DEFINE new == [port |-> HostPort(cfg, a), permissions |-> {}]
<1>0. /\ cfg.port \in Port /\ \A b \in Alias : cfg.hosts[b] \in Host \cup {None}
      /\ HostPort(cfg, a) = cfg.port /\ \A b \in Hosts(cfg) : cfg.hosts[b].port = cfg.port
  BY ConfigFields DEF OnePort
<1>1. new \in Host /\ new # None /\ new.port = cfg.port /\ new.permissions = {}
  BY <1>0, SetupAssumption DEF Host
<1>2. CASE cmd \in {"add-host", "update-token"}
  <2>1. c = [cfg EXCEPT !.hosts[a] = new]
    BY <1>2 DEF AfterCommand
  <2>2. /\ c \in Config /\ c.port = cfg.port /\ c.hosts[a] = new
        /\ \A h \in Alias \ {a} : c.hosts[h] = cfg.hosts[h]
    BY <1>1, <2>1 DEF Config
  <2> HIDE DEF new
  <2> QED
    BY <1>0, <1>1, <1>2, <2>2 DEF OnePort, Hosts, HostPort
<1>3. CASE cmd = "remove-host"
  <2>1. c = [cfg EXCEPT !.hosts[a] = None]
    BY <1>3 DEF AfterCommand
  <2>2. /\ c \in Config /\ c.port = cfg.port /\ c.hosts[a] = None
        /\ \A h \in Alias \ {a} : c.hosts[h] = cfg.hosts[h]
    BY <2>1 DEF Config
  <2> QED
    BY <1>0, <1>3, <2>2 DEF OnePort, Hosts, HostPort
<1>4. CASE cmd = "revoke"
  <2> DEFINE old == cfg.hosts[a]
             bare == [old EXCEPT !.permissions = {}]
  <2>1. old \in Host /\ old.port = cfg.port
    BY <1>0, <1>4, ConfigFields
  <2>2. c = [cfg EXCEPT !.hosts[a] = bare]
    BY <1>4 DEF AfterCommand, Config
  <2>3. bare \in Host /\ bare # None /\ bare.port = old.port /\ bare.permissions = {}
    BY <2>1, SetupAssumption DEF Host
  <2> HIDE DEF bare, old
  <2>4. /\ c \in Config /\ c.port = cfg.port /\ c.hosts[a] = bare
        /\ \A h \in Alias \ {a} : c.hosts[h] = cfg.hosts[h]
    BY <2>2, <2>3 DEF Config
  <2> QED
    BY <1>0, <1>4, <2>1, <2>3, <2>4 DEF OnePort, Hosts, HostPort
<1> QED
  BY <1>2, <1>3, <1>4 DEF Hosted

-----------------------------------------------------------------------------
(* What a step of one command is for the others.                           *)

\* Another command stays where it is, but what it has read may have become older.
Kept(r, n) ==
  \/ r = Idle /\ n = Idle
  \/ /\ r \in Job /\ n \in Job
     /\ n.cmd = r.cmd /\ n.step = r.step /\ n.left = r.left /\ n.host = r.host /\ n.cfg = r.cfg
     /\ n.file = r.file /\ n.todo = r.todo /\ n.fixes = r.fixes
     /\ r.outdated \subseteq n.outdated /\ n.fresh \in {r.fresh, FALSE}
     /\ n.calm \in {r.calm, FALSE}

LEMMA KeptJobOK ==
  ASSUME NEW r \in Job, NEW n \in Job, Kept(r, n),
         NEW l, NEW s, NEW w, NEW t, NEW m, JobOK(r, l, s, w, t, m),
         NEW l2, l2 = l \/ "config" \in n.outdated,
         NEW s2, s2 = s \/ ("ssh" \in n.outdated /\ UserSettings(s2) = UserSettings(s)),
         NEW w2, r.cmd = "remove-host" => (r.host \in w2 => r.host \in w),
         NEW t2, NEW m2,
         n.fresh /\ r.cmd \in {"add-host", "update-token"} /\ HasToken(r.host, t, m)
           => HasToken(r.host, t2, m2)
  PROVE  JobOK(n, l2, s2, w2, t2, m2)
<1>1. /\ n.cmd = r.cmd /\ n.step = r.step /\ n.left = r.left /\ n.host = r.host /\ n.cfg = r.cfg
      /\ n.file = r.file /\ n.todo = r.todo /\ n.fixes = r.fixes
      /\ r.outdated \subseteq n.outdated /\ n.fresh \in {r.fresh, FALSE}
  BY IdleFields DEF Kept
<1>2. Placed(n)
  BY <1>1 DEF JobOK, Placed
<1>3. Suited(n)
  BY <1>1 DEF JobOK, Suited
<1>4. Current(n, l2, s2)
  BY <1>1 DEF JobOK, Current
<1>5. Forwarded(n, s2, w2)
  <2>1. n.outdated = {} => r.outdated = {} /\ s2 = s
    BY <1>1
  <2> QED
    BY <1>1, <2>1 DEF JobOK, Forwarded
<1>6. Delivers(n, t2, m2)
  BY <1>1 DEF JobOK, Delivers
<1> QED
  BY <1>2, <1>3, <1>4, <1>5, <1>6 DEF JobOK

LEMMA KeptSame ==
  ASSUME NEW runs \in Runs, NEW q \in Proc
  PROVE  Kept(runs[q], runs[q])
  BY DEF Runs, Kept

LEMMA OutdateIs ==
  ASSUME NEW runs \in Runs, NEW p \in Proc, NEW file \in {"config", "ssh"},
         NEW g, g = Outdate(runs, p, file)
  PROVE  /\ g \in Runs /\ g[p] = runs[p]
         /\ \A q \in Proc \ {p} : /\ Kept(runs[q], g[q])
                                  /\ g[q] # Idle => file \in g[q].outdated
<1>1. ASSUME NEW q \in Proc, runs[q] = Idle \/ q = p
      PROVE  g[q] = runs[q]
  BY <1>1 DEF Outdate
<1>2. ASSUME NEW q \in Proc \ {p}, runs[q] # Idle
      PROVE  /\ g[q] \in Job /\ Kept(runs[q], g[q]) /\ file \in g[q].outdated
  <2> DEFINE r == runs[q]
  <2>1. g[q] = [r EXCEPT !.outdated = @ \cup {file}] /\ r \in Job
    BY <1>2 DEF Outdate, Runs
  <2> HIDE DEF r
  <2>2. r.outdated \cup {file} \in SUBSET {"config", "ssh"}
    BY <2>1, JobFields
  <2>3. /\ g[q] \in Job /\ g[q].outdated = r.outdated \cup {file}
        /\ g[q].cmd = r.cmd /\ g[q].step = r.step /\ g[q].left = r.left /\ g[q].host = r.host
        /\ g[q].cfg = r.cfg /\ g[q].file = r.file /\ g[q].todo = r.todo
        /\ g[q].fixes = r.fixes /\ g[q].fresh = r.fresh /\ g[q].calm = r.calm
    BY <2>1, <2>2 DEF Job
  <2>4. Kept(r, g[q])
    BY <2>1, <2>3 DEF Kept
  <2> QED
    BY <2>3, <2>4 DEF r
<1>3. g \in Runs
  <2>1. g = [q \in Proc |-> g[q]]
    BY DEF Outdate
  <2>2. \A q \in Proc : g[q] \in Job \cup {Idle}
    BY <1>1, <1>2 DEF Runs
  <2> QED
    BY <2>1, <2>2 DEF Runs
<1> QED
  BY <1>1, <1>2, <1>3, KeptSame

LEMMA StaleIs ==
  ASSUME NEW runs \in Runs, NEW g, g = Stale(runs)
  PROVE  /\ g \in Runs
         /\ \A q \in Proc : Kept(runs[q], g[q]) /\ (g[q] # Idle => ~g[q].fresh)
         /\ \A q \in Proc : runs[q] # Idle => g[q] = [runs[q] EXCEPT !.fresh = FALSE]
<1>1. ASSUME NEW q \in Proc, runs[q] = Idle
      PROVE  g[q] = Idle
  BY <1>1 DEF Stale
<1>2. ASSUME NEW q \in Proc, runs[q] # Idle
      PROVE  /\ g[q] \in Job /\ Kept(runs[q], g[q]) /\ ~g[q].fresh
             /\ g[q] = [runs[q] EXCEPT !.fresh = FALSE]
  <2> DEFINE r == runs[q]
  <2>1. g[q] = [r EXCEPT !.fresh = FALSE] /\ r \in Job
    BY <1>2 DEF Stale, Runs
  <2> HIDE DEF r
  <2>2. /\ g[q] \in Job /\ g[q].outdated = r.outdated
        /\ g[q].cmd = r.cmd /\ g[q].step = r.step /\ g[q].left = r.left /\ g[q].host = r.host
        /\ g[q].cfg = r.cfg /\ g[q].file = r.file /\ g[q].todo = r.todo
        /\ g[q].fixes = r.fixes /\ g[q].fresh = FALSE /\ g[q].calm = r.calm
    BY <2>1 DEF Job
  <2>3. Kept(r, g[q])
    BY <2>1, <2>2 DEF Kept
  <2> QED
    BY <2>1, <2>2, <2>3 DEF r
<1>3. g \in Runs
  <2>1. g = [q \in Proc |-> g[q]]
    BY DEF Stale
  <2>2. \A q \in Proc : g[q] \in Job \cup {Idle}
    BY <1>1, <1>2 DEF Runs
  <2> QED
    BY <2>1, <2>2 DEF Runs
<1> QED
  BY <1>1, <1>2, <1>3 DEF Kept

-----------------------------------------------------------------------------
(* A step of one command.                                                  *)

LEMMA GeneratedKept ==
  ASSUME Types, Generated, used' = used, commands' = commands,
         \A q \in Proc : Waits(run'[q]) => Waits(run[q])
  PROVE  Generated'
<1>1. Waiting' \subseteq Waiting
  BY DEF Waiting, Waits
<1>2. IsFiniteSet(Waiting') /\ Cardinality(Waiting') <= Cardinality(Waiting)
  BY <1>1, FS_Subset DEF Generated
<1>3. Cardinality(Waiting) \in Nat /\ Cardinality(Waiting') \in Nat
  BY <1>2, FS_CardinalityType DEF Generated
<1>4. used \in Nat /\ commands \in Nat
  BY SetupAssumption DEF Types
<1>5. used + Cardinality(Waiting) <= commands + 1
  BY DEF Generated
<1>6. used + Cardinality(Waiting') <= commands + 1
  BY <1>2, <1>3, <1>4, <1>5
<1> QED
  BY <1>2, <1>6 DEF Generated

\* One that generates a token was waiting for it.
LEMMA GeneratedStored ==
  ASSUME Types, Generated, NEW p \in Proc, Waits(run[p]), ~Waits(run'[p]),
         used' = used + 1, commands' = commands,
         \A q \in Proc : Waits(run'[q]) => Waits(run[q])
  PROVE  Generated' /\ used' \in Token
<1>1. Waiting' \subseteq Waiting \ {p} /\ p \in Waiting
  BY DEF Waiting, Waits
<1>2. IsFiniteSet(Waiting \ {p}) /\ Cardinality(Waiting \ {p}) = Cardinality(Waiting) - 1
  BY <1>1, FS_RemoveElement DEF Generated
<1>3. IsFiniteSet(Waiting') /\ Cardinality(Waiting') <= Cardinality(Waiting \ {p})
  BY <1>1, <1>2, FS_Subset
<1>4. /\ Cardinality(Waiting) \in Nat /\ Cardinality(Waiting') \in Nat
      /\ Cardinality(Waiting \ {p}) \in Nat
  BY <1>2, <1>3, FS_CardinalityType DEF Generated
<1>5. used \in Nat /\ commands \in Nat /\ commands <= MaxCommands /\ MaxCommands \in Nat
  BY SetupAssumption DEF Types
<1>6. used + Cardinality(Waiting) <= commands + 1
  BY DEF Generated
<1>7. /\ used + 1 + Cardinality(Waiting') <= commands + 1
      /\ used + 1 \in 1..MaxCommands + 1
  BY <1>2, <1>3, <1>4, <1>5, <1>6
<1> QED
  BY <1>3, <1>7 DEF Generated, Token

\* One that starts may wait for one.
LEMMA GeneratedStarted ==
  ASSUME Types, Generated, NEW p \in Proc, used' = used, commands' = commands + 1,
         \A q \in Proc \ {p} : Waits(run'[q]) => Waits(run[q])
  PROVE  Generated'
<1>1. Waiting' \subseteq Waiting \cup {p}
  BY DEF Waiting, Waits
<1>2. /\ IsFiniteSet(Waiting \cup {p}) /\ Cardinality(Waiting) \in Nat
      /\ Cardinality(Waiting \cup {p}) \in {Cardinality(Waiting), Cardinality(Waiting) + 1}
  BY FS_AddElement, FS_CardinalityType DEF Generated
<1>3. IsFiniteSet(Waiting') /\ Cardinality(Waiting') <= Cardinality(Waiting \cup {p})
  BY <1>1, <1>2, FS_Subset
<1>4. Cardinality(Waiting') \in Nat
  BY <1>3, FS_CardinalityType
<1>5. used \in Nat /\ commands \in Nat
  BY SetupAssumption DEF Types
<1>6. used + Cardinality(Waiting) <= commands + 1
  BY DEF Generated
<1>7. used + Cardinality(Waiting') <= commands + 1 + 1
  BY <1>2, <1>3, <1>4, <1>5, <1>6
<1> QED
  BY <1>3, <1>7 DEF Generated

\* The types of what the commands share.
SharedTypes ==
  /\ config \in Config \cup {None}
  /\ keychain \in [here : BOOLEAN, token : Token \cup {None, Torn}]
  /\ tokenFile \in Token \cup {None, Torn}
  /\ service \in [unit : BOOLEAN, port : Port \cup {None}]
  /\ ssh \in Seq(Lines)
  /\ remote \in [Alias -> Installed]
  /\ used \in 0..MaxCommands + 1
  /\ commands \in 0..MaxCommands /\ faults \in 0..MaxFaults
  /\ whole \subseteq Alias /\ delivered \subseteq Alias /\ clobbered \in BOOLEAN

LEMMA TypesAre == Types <=> SharedTypes /\ run \in Runs
  BY DEF Types, SharedTypes

\* What the other commands need for the jobs to stay right.
Undisturbed(q) ==
  /\ Kept(run[q], run'[q])
  /\ Load' = Load \/ "config" \in run'[q].outdated
  /\ ssh' = ssh \/ ("ssh" \in run'[q].outdated /\ UserSettings(ssh') = UserSettings(ssh))
  /\ run[q].cmd = "remove-host" => (run[q].host \in whole' => run[q].host \in whole)
  /\ run'[q].fresh /\ run[q].cmd \in {"add-host", "update-token"}
       /\ HasToken(run[q].host, tokenFile, remote)
     => HasToken(run[q].host, tokenFile', remote')

LEMMA JobsKept ==
  ASSUME Types, Jobs, NEW p \in Proc, run' \in Runs,
         \A q \in Proc \ {p} : run'[q] = Idle \/ Undisturbed(q),
         run'[p] = Idle \/ JobOK(run'[p], Load', ssh', whole', tokenFile', remote')
  PROVE  Jobs'
<1> SUFFICES ASSUME NEW q \in Proc, run'[q] # Idle
             PROVE  JobOK(run'[q], Load', ssh', whole', tokenFile', remote')
  BY DEF Jobs
<1>1. CASE q = p
  BY <1>1
<1>2. CASE q # p
  <2>1. Undisturbed(q)
    BY <1>2
  <2>2. run[q] \in Job /\ run'[q] \in Job /\ Kept(run[q], run'[q])
    BY <2>1, IdleFields DEF Undisturbed, Kept
  <2>3. JobOK(run[q], Load, ssh, whole, tokenFile, remote)
    BY <2>2, IdleFields DEF Jobs
  <2> QED
    BY <2>1, <2>2, <2>3, KeptJobOK DEF Undisturbed
<1> QED
  BY <1>1, <1>2

LEMMA GoesSuited ==
  ASSUME NEW r \in Job, Placed(r), Suited(r), NEW n, Goes(r, n)
  PROVE  Suited(n)
<1>1. Same(r, n) /\ Placed(n) /\ n \in Job
  BY DEF Goes, Same
<1>2. r.cmd # "doctor-fix" => Suited(n)
  BY <1>1 DEF Suited, Same
<1>3. CASE r.cmd = "doctor-fix" /\ Leads(r.cmd, r.step, n.step) /\ n.fixes = r.fixes
  <2>1. n.step = "check-host" \/ r.step \notin {"check-keychain", "check-host", "fix-keychain"}
    BY <1>3 DEF Leads
  <2>2. n.step = "check-host" => r.step = "check-keychain"
    BY <1>3 DEF Leads
  <2> QED
    BY <1>1, <1>3, <2>1, <2>2 DEF Suited, Same
<1>4. CASE r.cmd = "doctor-fix" /\ Fixed(r, n)
  BY <1>1, <1>4 DEF Suited, Same, Fixed
<1> QED
  BY <1>2, <1>3, <1>4 DEF Goes

\* From one step to the next that needs no more of what the commands share.
QuietTo(r, n) ==
  /\ n \in Job /\ n.cmd = r.cmd /\ n.cfg = r.cfg /\ n.outdated = r.outdated /\ n.fresh = r.fresh
  /\ n.host = r.host \/ r.cmd = "doctor-fix"
  /\ Placed(n) /\ Suited(n)
  /\ n.step # "write-ssh"
  /\ r.step = "delete-config" => n.step = "delete-config"
  /\ n.cmd = "add-host" => n.step # "save"
  /\ n.cmd \in {"add-host", "update-token"} /\ n.step \notin Copying => r.step \notin Copying
  /\ Waits(n) => Waits(r)

LEMMA GoesQuiet ==
  ASSUME NEW r \in Job, Placed(r), Suited(r), NEW n, Goes(r, n),
         r.step \notin {"read-ssh", "write-ssh"},
         r.step = "copy-token" => r.cmd \notin {"add-host", "update-token"}
  PROVE  QuietTo(r, n)
<1>1. Same(r, n) /\ Placed(n) /\ n \in Job /\ Suited(n)
  BY GoesSuited DEF Goes, Same
<1>2. HasStep(r.cmd, r.step) /\ HasStep(n.cmd, n.step)
  BY <1>1, PlacedHas
<1>3. CASE Leads(r.cmd, r.step, n.step)
  <2>1. n.step # "write-ssh"
    BY <1>3 DEF Leads
  <2>2. n.cmd = "add-host" => n.step # "save"
    BY <1>1, <1>3 DEF Leads, Same
  <2>3. n.cmd \in {"add-host", "update-token"} /\ n.step \notin Copying => r.step \notin Copying
    BY <1>1, <1>3 DEF Leads, Same, Copying
  <2>4. Waits(n) => Waits(r)
    BY <1>1, <1>2, <1>3 DEF Leads, Same, Waits, HasStep, Inits
  <2>5. r.step # "delete-config"
    BY <1>3 DEF Leads
  <2> QED
    BY <1>1, <2>1, <2>2, <2>3, <2>4, <2>5 DEF QuietTo, Same
<1>4. CASE Fixed(r, n)
  <2>1. n.cmd = "doctor-fix" /\ n.step \notin {"write-ssh", "save", "store"}
    BY <1>1, <1>4 DEF Fixed, Same, FixSteps
  <2>2. r.step # "delete-config"
    BY <1>1, <1>2, <2>1 DEF Same, HasStep, Inits
  <2> QED
    BY <1>1, <2>1, <2>2 DEF QuietTo, Same, Waits, Inits
<1> QED
  BY <1>3, <1>4 DEF Goes

LEMMA QuietJobOK ==
  ASSUME NEW r \in Job, NEW n \in Job, QuietTo(r, n),
         NEW l, NEW s, NEW w, NEW t, NEW m, JobOK(r, l, s, w, t, m),
         NEW m2, HasToken(r.host, t, m) => HasToken(r.host, t, m2)
  PROVE  JobOK(n, l, s, w, t, m2)
<1>1. Placed(n) /\ Suited(n)
  BY DEF QuietTo
<1>2. Current(n, l, s)
  BY DEF QuietTo, JobOK, Current
<1>3. Forwarded(n, s, w)
  BY DEF QuietTo, JobOK, Forwarded
<1>4. Delivers(n, t, m2)
  BY DEF QuietTo, JobOK, Delivers
<1> QED
  BY <1>1, <1>2, <1>3, <1>4 DEF JobOK

LEMMA QuietInv ==
  ASSUME IInv, NEW p \in Proc, run[p] \in Job,
         NEW x, run' = [run EXCEPT ![p] = x],
         \/ x = Idle
         \/ QuietTo(run[p], x),
         SharedTypes',
         UNCHANGED <<config, tokenFile, ssh, used, commands, whole, delivered, clobbered>>,
         \A h \in Alias : remote'[h].token = remote[h].token
  PROVE  IInv'
<1>1. /\ Types /\ Generated /\ Jobs /\ OnePort(Load) /\ HostIsForwarded /\ Delivered
      /\ run \in Runs
  BY TypesAre DEF IInv
<1>2. x \in Job \cup {Idle}
  BY DEF QuietTo
<1>3. run' \in Runs /\ run'[p] = x /\ \A q \in Proc \ {p} : run'[q] = run[q]
  <2>1. run \in Runs /\ run' = [run EXCEPT ![p] = x]
    BY <1>1
  <2> QED
    BY <1>2, <2>1 DEF Runs
<1>4. Types'
  BY <1>3, TypesAre DEF Types, SharedTypes
<1>5. Load' = Load
  BY DEF Load
<1>6. Generated'
  <2>1. \A q \in Proc : Waits(run'[q]) => Waits(run[q])
    BY <1>3, IdleFields DEF QuietTo, Waits, Inits
  <2> QED
    BY <1>1, <2>1, GeneratedKept
<1>7. \A h \in Alias : HasToken(h, tokenFile, remote) => HasToken(h, tokenFile', remote')
  BY DEF HasToken
<1>8. Jobs'
  <2>1. ASSUME NEW q \in Proc \ {p}, run'[q] # Idle
        PROVE  Undisturbed(q)
    <3>1. run[q] \in Job /\ run'[q] = run[q]
      BY <1>1, <1>3, <2>1 DEF Runs
    <3>2. run[q].cmd \in {"add-host", "update-token"} => run[q].host \in Alias
      BY <1>1, <3>1, IdleFields DEF Jobs, JobOK, Suited, Hosted
    <3> QED
      BY <1>1, <1>3, <1>5, <1>7, <3>1, <3>2, KeptSame DEF Undisturbed
  <2>2. ASSUME x # Idle
        PROVE  JobOK(x, Load', ssh', whole', tokenFile', remote')
    <3>1. JobOK(run[p], Load, ssh, whole, tokenFile, remote)
      BY <1>1, IdleFields DEF Jobs
    <3>2. x \in Job /\ QuietTo(run[p], x)
      BY <1>2, <2>2
    <3>3. CASE run[p].host \in Alias
      BY <1>5, <1>7, <3>1, <3>2, <3>3, QuietJobOK
    <3>4. CASE run[p].host \notin Alias
      <4>1. run[p].cmd \notin {"add-host", "update-token"}
        BY <3>1, <3>4 DEF JobOK, Suited, Hosted
      <4>2. JobOK(x, Load, ssh, whole, tokenFile, remote)
        BY <3>1, <3>2, QuietJobOK
      <4>3. Delivers(x, tokenFile', remote')
        BY <3>2, <4>1 DEF Delivers, QuietTo
      <4> QED
        BY <1>5, <4>2, <4>3 DEF JobOK
    <3> QED
      BY <3>3, <3>4
  <2> QED
    BY <1>1, <1>3, <2>1, <2>2, JobsKept
<1>9. HostIsForwarded'
  BY <1>1, <1>5 DEF HostIsForwarded
<1>10. Delivered'
  BY <1>1, <1>7 DEF Delivered, Types
<1>11. OnePort(Load)'
  BY <1>1, <1>5
<1> QED
  BY <1>4, <1>6, <1>8, <1>9, <1>10, <1>11 DEF IInv

\* The steps on a host.
HostSteps == {"copy-binary", "make-executable", "copy-token", "private", "verify", "copy-skill",
              "read-ssh", "write-ssh", "rm-binary", "rm-token", "rm-skill"}

LEMMA JobAt ==
  ASSUME IInv, NEW p \in Proc, run[p].step \in Step \/ run[p] # Idle
  PROVE  /\ run[p] \in Job /\ JobOK(run[p], Load, ssh, whole, tokenFile, remote)
         /\ Placed(run[p]) /\ Suited(run[p]) /\ HasStep(run[p].cmd, run[p].step)
         /\ run[p].step \in HostSteps => run[p].host \in Alias
<1>1. run[p] \in Job
  BY IdleFields DEF IInv, Types, Runs
<1>2. JobOK(run[p], Load, ssh, whole, tokenFile, remote)
  BY <1>1, IdleFields DEF IInv, Jobs
<1>3. Placed(run[p]) /\ Suited(run[p]) /\ HasStep(run[p].cmd, run[p].step)
  BY <1>1, <1>2, PlacedHas DEF JobOK
<1>4. run[p].step \in HostSteps => run[p].cmd \in Hosted \cup {"doctor-fix"}
  BY <1>3 DEF HasStep, HostSteps, Hosted, Inits
<1>5. run[p].cmd \in Hosted => run[p].host \in Alias
  BY <1>3 DEF Suited
<1>6. run[p].step \in HostSteps /\ run[p].cmd = "doctor-fix" => run[p].host \in Hosts(run[p].cfg)
  BY <1>3 DEF Suited, HostSteps
<1> QED
  BY <1>1, <1>2, <1>3, <1>4, <1>5, <1>6 DEF Hosts

LEMMA AdvanceInv ==
  ASSUME IInv, NEW p \in Proc, Advance(p),
         run[p].step \in Step \ {"read-ssh", "write-ssh", "copy-token"},
         SharedTypes',
         UNCHANGED <<config, tokenFile, ssh, used, commands, whole, delivered, clobbered>>,
         \A h \in Alias : remote'[h].token = remote[h].token
  PROVE  IInv'
<1>1. run[p] \in Job /\ Placed(run[p]) /\ Suited(run[p])
  BY JobAt
<1>2. PICK x : x = After(run[p])
  OBVIOUS
<1>3. run' = [run EXCEPT ![p] = x]
  BY <1>2 DEF Advance
<1>4. x = Idle \/ QuietTo(run[p], x)
  BY <1>1, <1>2, AfterIs, GoesQuiet
<1> QED
  BY <1>1, <1>3, <1>4, QuietInv

LEMMA InstalledIs ==
  ASSUME NEW m \in [Alias -> Installed], NEW h \in Alias, NEW x \in Installed,
         NEW g, g = [m EXCEPT ![h] = x]
  PROVE  /\ g \in [Alias -> Installed] /\ g[h] = x
         /\ \A b \in Alias \ {h} : g[b] = m[b]
  OBVIOUS

LEMMA Fields ==
  ASSUME NEW x \in Installed
  PROVE  /\ x.binary \in {"none", "plain", "executable"} /\ x.token \in Token \cup {None, Torn}
         /\ x.open \in BOOLEAN /\ x.skill \in BOOLEAN
  BY DEF Installed

\* A change of what is installed on a host, but for the token.
LEMMA InstallInv ==
  ASSUME IInv, NEW p \in Proc, Advance(p),
         run[p].step \in HostSteps \ {"read-ssh", "write-ssh", "copy-token"},
         NEW x \in Installed, x.token = remote[run[p].host].token,
         remote' = [remote EXCEPT ![run[p].host] = x],
         UNCHANGED <<local, used, commands, faults, history>>
  PROVE  IInv'
<1> DEFINE h == run[p].host
<1>1. run[p].step \in Step \ {"read-ssh", "write-ssh", "copy-token"}
  BY DEF HostSteps, Step
<1>2. h \in Alias
  BY <1>1, JobAt
<1>3. remote \in [Alias -> Installed]
  BY DEF IInv, Types
<1> HIDE DEF h
<1>4. remote' \in [Alias -> Installed] /\ \A a \in Alias : remote'[a].token = remote[a].token
  BY <1>2, <1>3, InstalledIs DEF h
<1>5. UNCHANGED <<config, keychain, tokenFile, service, ssh, used, commands, faults, whole,
                  delivered, clobbered>>
  BY DEF local, history
<1>6. SharedTypes'
  BY <1>4, <1>5 DEF SharedTypes, IInv, Types
<1> QED
  BY <1>1, <1>4, <1>5, <1>6, AdvanceInv

LEMMA CopyBinaryInv == ASSUME IInv, NEW p \in Proc, CopyBinary(p) PROVE IInv'
<1> DEFINE old == remote[run[p].host]
<1>1. run[p].step = "copy-binary" /\ "copy-binary" \in HostSteps \ {"read-ssh", "write-ssh", "copy-token"}
  BY DEF CopyBinary, At, HostSteps
<1>2. old \in Installed /\ remote \in [Alias -> Installed]
  <2>1. run[p].host \in Alias
    BY <1>1, JobAt DEF HostSteps, Step
  <2> QED
    BY <2>1 DEF IInv, Types
<1>3. PICK x : x = [old EXCEPT !.binary = IF old.binary = "executable" THEN old.binary ELSE "plain"]
  OBVIOUS
<1>4. x \in Installed /\ x.token = old.token
  BY <1>2, <1>3 DEF Installed
<1>5. /\ remote' = [remote EXCEPT ![run[p].host] = x]
      /\ Advance(p) /\ UNCHANGED <<local, used, commands, faults, history>>
  BY <1>2, <1>3 DEF CopyBinary
<1> QED
  BY <1>1, <1>4, <1>5, InstallInv

LEMMA MakeExecutableInv == ASSUME IInv, NEW p \in Proc, MakeExecutable(p) PROVE IInv'
<1> DEFINE old == remote[run[p].host]
<1>1. run[p].step = "make-executable" /\ "make-executable" \in HostSteps \ {"read-ssh", "write-ssh", "copy-token"}
  BY DEF MakeExecutable, At, HostSteps
<1>2. old \in Installed /\ remote \in [Alias -> Installed]
  <2>1. run[p].host \in Alias
    BY <1>1, JobAt DEF HostSteps, Step
  <2> QED
    BY <2>1 DEF IInv, Types
<1>3. PICK x : x = [old EXCEPT !.binary = "executable"]
  OBVIOUS
<1>4. x \in Installed /\ x.token = old.token
  BY <1>2, <1>3 DEF Installed
<1>5. /\ remote' = [remote EXCEPT ![run[p].host] = x]
      /\ Advance(p) /\ UNCHANGED <<local, used, commands, faults, history>>
  BY <1>2, <1>3 DEF MakeExecutable
<1> QED
  BY <1>1, <1>4, <1>5, InstallInv

LEMMA PrivateInv == ASSUME IInv, NEW p \in Proc, Private(p) PROVE IInv'
<1> DEFINE old == remote[run[p].host]
<1>1. run[p].step = "private" /\ "private" \in HostSteps \ {"read-ssh", "write-ssh", "copy-token"}
  BY DEF Private, At, HostSteps
<1>2. old \in Installed /\ remote \in [Alias -> Installed]
  <2>1. run[p].host \in Alias
    BY <1>1, JobAt DEF HostSteps, Step
  <2> QED
    BY <2>1 DEF IInv, Types
<1>3. PICK x : x = [old EXCEPT !.open = FALSE]
  OBVIOUS
<1>4. x \in Installed /\ x.token = old.token
  BY <1>2, <1>3 DEF Installed
<1>5. /\ remote' = [remote EXCEPT ![run[p].host] = x]
      /\ Advance(p) /\ UNCHANGED <<local, used, commands, faults, history>>
  BY <1>2, <1>3 DEF Private
<1> QED
  BY <1>1, <1>4, <1>5, InstallInv

LEMMA CopySkillInv == ASSUME IInv, NEW p \in Proc, CopySkill(p) PROVE IInv'
<1> DEFINE old == remote[run[p].host]
<1>1. run[p].step = "copy-skill" /\ "copy-skill" \in HostSteps \ {"read-ssh", "write-ssh", "copy-token"}
  BY DEF CopySkill, At, HostSteps
<1>2. old \in Installed /\ remote \in [Alias -> Installed]
  <2>1. run[p].host \in Alias
    BY <1>1, JobAt DEF HostSteps, Step
  <2> QED
    BY <2>1 DEF IInv, Types
<1>3. PICK x : x = [old EXCEPT !.skill = TRUE]
  OBVIOUS
<1>4. x \in Installed /\ x.token = old.token
  BY <1>2, <1>3 DEF Installed
<1>5. /\ remote' = [remote EXCEPT ![run[p].host] = x]
      /\ Advance(p) /\ UNCHANGED <<local, used, commands, faults, history>>
  BY <1>2, <1>3 DEF CopySkill
<1> QED
  BY <1>1, <1>4, <1>5, InstallInv

\* A step that changes nothing but keychain and service.
LEMMA LocalInv ==
  ASSUME IInv, NEW p \in Proc, Advance(p),
         run[p].step \in Step \ {"read-ssh", "write-ssh", "copy-token"},
         keychain' \in [here : BOOLEAN, token : Token \cup {None, Torn}],
         service' \in [unit : BOOLEAN, port : Port \cup {None}],
         UNCHANGED <<config, tokenFile, ssh, remote, used, commands, faults, history>>
  PROVE  IInv'
<1>1. UNCHANGED <<whole, delivered, clobbered>>
  BY DEF history
<1>2. SharedTypes'
  BY <1>1 DEF SharedTypes, IInv, Types
<1> QED
  BY <1>1, <1>2, AdvanceInv

LEMMA VerifyInv == ASSUME IInv, NEW p \in Proc, Verify(p) PROVE IInv'
<1>1. run[p].step = "verify" /\ "verify" \in Step \ {"read-ssh", "write-ssh", "copy-token"}
  BY DEF Verify, At, Step
<1>2. /\ Advance(p)
      /\ UNCHANGED <<config, keychain, service, tokenFile, ssh, remote, used, commands, faults,
                     history>>
  BY DEF Verify, local
<1> QED
  BY <1>1, <1>2, LocalInv DEF IInv, Types

\* The steps on the service.
LEMMA ServiceInv ==
  ASSUME IInv, NEW p \in Proc,
         InstallUnit(p) \/ StartService(p) \/ RestartService(p) \/ StopService(p) \/ RemoveUnit(p)
  PROVE  IInv'
<1>1. PICK state :
        /\ Service(p, state)
        /\ state \in {[service EXCEPT !.unit = TRUE],
                       [service EXCEPT !.port = IF service.port = None THEN Load.port ELSE service.port],
                       [service EXCEPT !.port = Load.port], [service EXCEPT !.port = None],
                       [unit |-> FALSE, port |-> None]}
  BY DEF InstallUnit, StartService, RestartService, StopService, RemoveUnit
<1>2. Load.port \in Port /\ service \in [unit : BOOLEAN, port : Port \cup {None}]
  BY LoadIs, ConfigFields DEF IInv, Types
<1>3. state \in [unit : BOOLEAN, port : Port \cup {None}]
  <2> DEFINE S == [unit : BOOLEAN, port : Port \cup {None}]
  <2>1. [unit |-> FALSE, port |-> None] \in S /\ [service EXCEPT !.unit = TRUE] \in S
    BY <1>2
  <2>2. \A port \in Port \cup {None} : [service EXCEPT !.port = port] \in S
    BY <1>2
  <2>3. /\ None \in Port \cup {None} /\ Load.port \in Port \cup {None}
        /\ (IF service.port = None THEN Load.port ELSE service.port) \in Port \cup {None}
    BY <1>2
  <2>4. PICK port : port = IF service.port = None THEN Load.port ELSE service.port
    OBVIOUS
  <2>5. state \in {[service EXCEPT !.unit = TRUE], [service EXCEPT !.port = port],
                  [service EXCEPT !.port = Load.port], [service EXCEPT !.port = None],
                  [unit |-> FALSE, port |-> None]}
    BY <1>1, <2>4
  <2> HIDE DEF S
  <2>6. state \in S
    BY <2>1, <2>2, <2>3, <2>4, <2>5
  <2> QED
    BY <2>6 DEF S
<1>4. run[p].step \in {"install-unit", "start", "restart", "stop", "remove-unit"}
  BY DEF InstallUnit, StartService, RestartService, StopService, RemoveUnit, At
<1>5. run[p].step \in Step \ {"read-ssh", "write-ssh", "copy-token"}
  BY <1>4 DEF Step
<1>6. /\ Advance(p) /\ service' = state
      /\ UNCHANGED <<config, keychain, tokenFile, ssh, remote, used, commands, faults, history>>
  BY <1>1 DEF Service
<1> QED
  BY <1>3, <1>5, <1>6, LocalInv DEF IInv, Types

LEMMA FixKeychainInv == ASSUME IInv, NEW p \in Proc, FixKeychain(p) PROVE IInv'
<1>1. run[p].step = "fix-keychain" /\ "fix-keychain" \in Step \ {"read-ssh", "write-ssh", "copy-token"}
  BY DEF FixKeychain, At, Step
<1>2. /\ Advance(p)
      /\ UNCHANGED <<config, service, tokenFile, ssh, remote, used, commands, faults, history>>
      /\ keychain' = IF keychain.here THEN [keychain EXCEPT !.token = tokenFile] ELSE keychain
  BY DEF FixKeychain
<1>3. /\ keychain' \in [here : BOOLEAN, token : Token \cup {None, Torn}]
      /\ service' \in [unit : BOOLEAN, port : Port \cup {None}]
  BY <1>2 DEF IInv, Types
<1> QED
  BY <1>1, <1>2, <1>3, LocalInv

LEMMA PlacedSame ==
  ASSUME NEW n \in Job, Placed(n), NEW x, x.cmd = n.cmd, x.step = n.step, x.left = n.left
  PROVE  Placed(x)
  BY DEF Placed

LEMMA AtCheckHost ==
  ASSUME NEW r \in Job, Placed(r), r.step = "check-host"
  PROVE  r.cmd = "doctor-fix" /\ r.left = <<>>
<1>1. r.cmd = "doctor-fix"
  BY PlacedHas DEF HasStep, Inits
<1>2. PICK plan \in Seq(Step) : \E k \in 1..Len(plan) :
        /\ IsPlan(plan, r.cmd) /\ r.step = plan[k] /\ Len(r.left) = Len(plan) - k
  BY DEF Placed
<1>3. \/ plan = <<"read-ssh", "write-ssh">> \/ plan = <<"copy-binary", "make-executable">>
      \/ plan = <<"private">> \/ plan = <<"copy-skill">> \/ plan = <<"fix-keychain">>
      \/ plan = <<"check-keychain", "check-host">>
  BY <1>1, <1>2 DEF IsPlan, Inits, Fixes, FixForward, FixBinary, FixTokenPerms, FixSkill
<1>4. plan = <<"check-keychain", "check-host">> /\ Len(r.left) = Len(plan) - 2
  BY <1>2, <1>3
<1>5. Len(r.left) = 0
  BY <1>4
<1> QED
  BY <1>1, <1>5, JobFields

LEMMA CheckKeychainInv == ASSUME IInv, NEW p \in Proc, CheckKeychain(p) PROVE IInv'
<1> DEFINE r == run[p]
<1>1. r.step = "check-keychain" /\ r.step \in Step
  BY DEF CheckKeychain, At, Step
<1>2. r \in Job /\ Placed(r) /\ Suited(r) /\ HasStep(r.cmd, r.step)
  BY <1>1, JobAt
<1>3. r.cmd = "doctor-fix"
  BY <1>1, <1>2 DEF HasStep, Inits
<1>4. PICK n : n = After(r)
  OBVIOUS
<1>5. PICK T : T = Hosts(r.cfg) \cup (IF Retrieve = None THEN {None} ELSE {})
  OBVIOUS
<1>6. PICK x : x = [n EXCEPT !.todo = T]
  OBVIOUS
<1>7. /\ run' = [run EXCEPT ![p] = x]
      /\ UNCHANGED <<config, keychain, tokenFile, service, ssh, remote, used, commands, faults,
                     whole, delivered, clobbered>>
  BY <1>4, <1>5, <1>6 DEF CheckKeychain, local, history
<1> HIDE DEF r
<1>8. Goes(r, n) /\ n.step # "write-ssh"
  BY <1>1, <1>2, <1>3, <1>4, AfterIs, GoesQuiet DEF QuietTo
<1>9. QuietTo(r, n)
  BY <1>1, <1>2, <1>8, GoesQuiet
<1>10. T \in SUBSET (Hosts(r.cfg) \cup {None}) /\ T \in SUBSET (Alias \cup {None})
  BY <1>2, <1>5, JobFields, ConfigFields
<1>11. n \in Job
  BY <1>9 DEF QuietTo
<1>12. /\ x \in Job /\ x.todo = T
       /\ x.cmd = n.cmd /\ x.step = n.step /\ x.left = n.left /\ x.host = n.host
       /\ x.cfg = n.cfg /\ x.fixes = n.fixes /\ x.outdated = n.outdated /\ x.fresh = n.fresh
  BY <1>6, <1>10, <1>11 DEF Job
<1>13. Placed(x)
  BY <1>9, <1>11, <1>12, PlacedSame DEF QuietTo
<1>14. Suited(x)
  BY <1>9, <1>10, <1>12 DEF QuietTo, Suited
<1>15. QuietTo(r, x)
  BY <1>9, <1>12, <1>13, <1>14 DEF QuietTo, Waits
<1>16. SharedTypes'
  BY <1>7 DEF SharedTypes, IInv, Types
<1> QED
  BY <1>2, <1>7, <1>15, <1>16, QuietInv DEF r

LEMMA FailingIs ==
  ASSUME NEW cfg, NEW h, NEW answers
  PROVE  Failing(cfg, h, answers) \in Seq(Fixes)
<1>1. /\ FixForward \in Fixes /\ FixBinary \in Fixes /\ FixTokenPerms \in Fixes
      /\ FixSkill \in Fixes
  BY DEF Fixes
<1>2. \A failed, fix : fix \in Fixes => (IF failed THEN <<fix>> ELSE <<>>) \in Seq(Fixes)
  OBVIOUS
<1>3. \A s, t \in Seq(Fixes) : s \o t \in Seq(Fixes)
  OBVIOUS
<1> QED
  BY <1>1, <1>2, <1>3 DEF Failing

LEMMA CheckHostInv == ASSUME IInv, NEW p \in Proc, CheckHost(p) PROVE IInv'
<1> DEFINE r == run[p]
<1>1. r.step = "check-host" /\ r.step \in Step
  BY DEF CheckHost, At, Step
<1>2. r \in Job /\ Placed(r) /\ Suited(r)
  BY <1>1, JobAt
<1>3. r.cmd = "doctor-fix" /\ r.left = <<>>
  BY <1>1, <1>2, AtCheckHost
<1>4. UNCHANGED <<config, keychain, tokenFile, service, ssh, remote, used, commands, whole,
                  delivered, clobbered>>
  BY DEF CheckHost, local, history
<1>5. faults' \in 0..MaxFaults
  <2>1. PICK f \in {faults, faults + 1} : faults' = f /\ (f = faults \/ faults < MaxFaults)
    BY DEF CheckHost
  <2>2. f \in 0..MaxFaults
    BY <2>1, SetupAssumption DEF IInv, Types
  <2> QED
    BY <2>1, <2>2
<1>6. SharedTypes'
  BY <1>4, <1>5 DEF SharedTypes, IInv, Types
<1>7. ASSUME NEW h \in r.todo \ {None}, NEW answers \in BOOLEAN,
             run' = [run EXCEPT ![p] = NextFix([r EXCEPT
                       !.todo = @ \ {h}, !.host = h, !.calm = @ /\ answers,
                       !.fixes = Failing(r.cfg, h, answers)])]
      PROVE  IInv'
  <2>1. PICK F : F = Failing(r.cfg, h, answers)
    OBVIOUS
  <2>2. PICK c : c = (r.calm /\ answers)
    OBVIOUS
  <2>3. PICK s : s = [r EXCEPT !.todo = @ \ {h}, !.host = h, !.calm = c, !.fixes = F]
    OBVIOUS
  <2>4. PICK x : x = NextFix(s)
    OBVIOUS
  <2>5. run' = [run EXCEPT ![p] = x]
    BY <1>7, <2>1, <2>2, <2>3, <2>4
  <2> HIDE DEF r
  <2>6. h \in Hosts(r.cfg) /\ h \in Alias /\ r.todo \subseteq Hosts(r.cfg) \cup {None}
    BY <1>2, <1>3, JobFields, ConfigFields DEF Suited
  <2>7. F \in Seq(Fixes) /\ c \in BOOLEAN /\ r.todo \ {h} \in SUBSET (Alias \cup {None})
    BY <1>2, <2>1, <2>2, FailingIs, JobFields
  <2>8. /\ s \in Job /\ s.todo = r.todo \ {h} /\ s.host = h /\ s.fixes = F
        /\ s.cmd = r.cmd /\ s.cfg = r.cfg /\ s.outdated = r.outdated /\ s.fresh = r.fresh
    BY <1>2, <2>3, <2>6, <2>7 DEF Job
  <2>9. Same(s, x) /\ Placed(x) /\ Fixed(s, x)
    BY <1>3, <2>4, <2>8, NextFixIs
  <2>10. Suited(x)
    BY <1>3, <2>6, <2>8, <2>9 DEF Suited, Same, Hostless, Hosted, Inits
  <2>11. x.step \in FixSteps \cup {"check-host"}
    BY <2>9 DEF Fixed
  <2>12. QuietTo(r, x)
    BY <1>1, <1>3, <2>8, <2>9, <2>10, <2>11 DEF QuietTo, Same, FixSteps, Waits, Inits
  <2> QED
    BY <1>2, <1>4, <1>6, <2>5, <2>12, QuietInv DEF r
<1>8. ASSUME r.todo \subseteq {None},
             run' = [run EXCEPT ![p] = IF r.todo = {} THEN Idle
                       ELSE [r EXCEPT !.step = "fix-keychain", !.todo = {}]]
      PROVE  IInv'
  <2>1. PICK x : x = IF r.todo = {} THEN Idle ELSE [r EXCEPT !.step = "fix-keychain", !.todo = {}]
    OBVIOUS
  <2>2. run' = [run EXCEPT ![p] = x]
    BY <1>8, <2>1
  <2>3. ASSUME r.todo # {}
        PROVE  QuietTo(r, x)
    <3>1. x = [r EXCEPT !.step = "fix-keychain", !.todo = {}]
      BY <2>1, <2>3
    <3> HIDE DEF r
    <3>2. /\ x \in Job /\ x.step = "fix-keychain" /\ x.todo = {} /\ x.left = r.left
          /\ x.cmd = r.cmd /\ x.host = r.host /\ x.cfg = r.cfg /\ x.fixes = r.fixes
          /\ x.outdated = r.outdated /\ x.fresh = r.fresh
      BY <1>2, <3>1 DEF Job, Step
    <3>3. Placed(x)
      <4> DEFINE plan == <<"fix-keychain">>
      <4>1. plan \in Seq(Step) /\ Len(plan) = 1 /\ plan[1] = "fix-keychain"
        BY DEF Step
      <4>2. IsPlan(plan, x.cmd)
        BY <1>3, <3>2 DEF IsPlan
      <4>3. 1 \in 1..Len(plan) /\ Len(x.left) = Len(plan) - 1 /\ 1..Len(plan) - 1 = {}
        BY <1>3, <3>2, <4>1
      <4> HIDE DEF plan
      <4> QED
        BY <3>2, <4>1, <4>2, <4>3 DEF Placed
    <3>4. Suited(x)
      BY <1>1, <1>2, <1>3, <3>2 DEF Suited, Hostless, Hosted
    <3> QED
      BY <1>1, <1>3, <3>2, <3>3, <3>4 DEF QuietTo, Waits, Inits
  <2>4. x = Idle \/ QuietTo(r, x)
    BY <2>1, <2>3
  <2> QED
    BY <1>2, <1>4, <1>6, <2>2, <2>4, QuietInv
<1> QED
  BY <1>7, <1>8 DEF CheckHost

LEMMA FaultIs ==
  ASSUME Types, faults' = faults \/ (faults < MaxFaults /\ faults' = faults + 1)
  PROVE  faults' \in 0..MaxFaults
<1>1. PICK f \in {faults, faults + 1} : faults' = f /\ (f = faults \/ faults < MaxFaults)
  OBVIOUS
<1>2. f \in 0..MaxFaults
  BY <1>1, SetupAssumption DEF Types
<1> QED
  BY <1>1, <1>2

\* What a command is after a step that failed needs no more than before.
LEMMA AfterFailureIs ==
  ASSUME NEW r \in Job, Placed(r), Suited(r), r.step # "check-host", r.step # "check-keychain",
         NEW n, n = AfterFailure(r)
  PROVE  n = Idle \/ QuietTo(r, n)
<1>1. CASE r.cmd = "doctor-fix"
  <2>1. PICK s : s = [r EXCEPT !.file = <<>>]
    OBVIOUS
  <2>2. /\ s \in Job /\ s.cmd = r.cmd /\ s.step = r.step /\ s.left = r.left /\ s.host = r.host
        /\ s.cfg = r.cfg /\ s.todo = r.todo /\ s.fixes = r.fixes /\ s.outdated = r.outdated
        /\ s.fresh = r.fresh
    <3>1. <<>> \in Seq(Lines)
      OBVIOUS
    <3> QED
      BY <2>1, <3>1 DEF Job
  <2>3. n = NextFix(s)
    BY <1>1, <2>1 DEF AfterFailure
  <2>4. Same(s, n) /\ Placed(n) /\ Fixed(s, n) /\ (s.fixes # <<>> => n.step \in FixSteps)
    BY <1>1, <2>2, <2>3, NextFixIs
  <2>5. Placed(s) /\ Suited(s)
    BY <2>2, PlacedSame DEF Suited
  <2>6. Goes(s, n)
    BY <2>4 DEF Goes
  <2>7. Suited(n)
    BY <2>2, <2>5, <2>6, GoesSuited
  <2>8. n.step \in FixSteps \cup {"check-host"}
    BY <2>4 DEF Fixed
  <2>9. r.step # "delete-config"
    BY <1>1, PlacedHas DEF HasStep, Inits
  <2> QED
    BY <1>1, <2>2, <2>4, <2>7, <2>8, <2>9 DEF QuietTo, Same, FixSteps, Waits, Inits
<1>2. CASE r.cmd = "remove-host" /\ r.step \in {"read-ssh", "write-ssh"}
  <2>1. n = [r EXCEPT !.step = "save", !.left = <<>>, !.file = <<>>]
    BY <1>2 DEF AfterFailure
  <2>2. /\ n \in Job /\ n.cmd = r.cmd /\ n.step = "save" /\ n.left = <<>> /\ n.host = r.host
        /\ n.cfg = r.cfg /\ n.todo = r.todo /\ n.fixes = r.fixes /\ n.outdated = r.outdated
        /\ n.fresh = r.fresh
    <3>1. <<>> \in Seq(Lines) /\ <<>> \in Seq(Step) /\ "save" \in Step
      BY DEF Step
    <3> QED
      BY <2>1, <3>1 DEF Job
  <2>3. Placed(n)
    <3> DEFINE plan == Append(UninstallPlan, "save")
    <3>1. UninstallPlan \in Seq(Step) /\ "save" \in Step
      <4>1. \A a, b, c, d, e \in Step : <<a, b, c, d, e>> \in Seq(Step)
        OBVIOUS
      <4>2. /\ "rm-binary" \in Step /\ "rm-token" \in Step /\ "rm-skill" \in Step
            /\ "read-ssh" \in Step /\ "write-ssh" \in Step /\ "save" \in Step
        BY DEF Step
      <4> QED
        BY <4>1, <4>2 DEF UninstallPlan
    <3>2. plan \in Seq(Step)
      BY <3>1
    <3>3. Len(plan) = 6 /\ plan[6] = "save"
      BY LongPlans
    <3>4. IsPlan(plan, n.cmd)
      BY <1>2, <2>2 DEF IsPlan
    <3>5. 6 \in 1..Len(plan) /\ Len(n.left) = Len(plan) - 6 /\ 1..Len(plan) - 6 = {}
      BY <2>2, <3>3
    <3> HIDE DEF plan
    <3> QED
      BY <2>2, <3>2, <3>3, <3>4, <3>5 DEF Placed
  <2>4. Suited(n)
    BY <1>2, <2>2 DEF Suited
  <2> QED
    BY <1>2, <2>2, <2>3, <2>4 DEF QuietTo, Waits, Inits
<1>3. CASE \/ r.cmd = "remove-host" /\ r.step \in {"rm-binary", "rm-token", "rm-skill"}
           \/ r.cmd \in {"uninstall", "uninstall-keep-config"} /\ r.step # "delete-config"
  <2>1. n = After(r)
    BY <1>3 DEF AfterFailure
  <2>2. r.step \notin {"read-ssh", "write-ssh", "copy-token"}
    BY <1>3, PlacedHas DEF HasStep, Inits
  <2> QED
    BY <1>3, <2>1, <2>2, AfterIs, GoesQuiet
<1>4. CASE /\ r.cmd # "doctor-fix"
           /\ ~(r.cmd = "remove-host" /\ r.step \in {"read-ssh", "write-ssh"})
           /\ ~(r.cmd = "remove-host" /\ r.step \in {"rm-binary", "rm-token", "rm-skill"})
           /\ ~(r.cmd \in {"uninstall", "uninstall-keep-config"} /\ r.step # "delete-config")
  BY <1>4 DEF AfterFailure
<1> QED
  BY <1>1, <1>2, <1>3, <1>4

LEMMA FailInv == ASSUME IInv, NEW p \in Proc, Fail(p) PROVE IInv'
<1> DEFINE r == run[p]
<1>1. r.step \notin {"check-host", "check-keychain"} /\ r # Idle
  BY IdleFields DEF Fail
<1>2. r \in Job /\ Placed(r) /\ Suited(r)
  BY <1>1, JobAt
<1>3. PICK n : n = AfterFailure(r)
  OBVIOUS
<1>4. /\ UNCHANGED <<config, keychain, tokenFile, service, ssh, remote, used, commands, whole,
                     delivered, clobbered>>
      /\ faults' = faults \/ (faults < MaxFaults /\ faults' = faults + 1)
      /\ \/ run' = [run EXCEPT ![p] = n]
         \/ run' = [run EXCEPT ![p] = IF n = Idle THEN Idle ELSE [n EXCEPT !.calm = FALSE]]
  BY <1>3 DEF Fail, local, history
<1>5. faults' \in 0..MaxFaults
  BY <1>4, FaultIs DEF IInv
<1>6. SharedTypes'
  BY <1>4, <1>5 DEF SharedTypes, IInv, Types
<1>7. n = Idle \/ QuietTo(r, n)
  BY <1>1, <1>2, <1>3, AfterFailureIs
<1>8. PICK x : /\ run' = [run EXCEPT ![p] = x]
               /\ \/ x = n
                  \/ n = Idle /\ x = Idle
                  \/ n # Idle /\ x = [n EXCEPT !.calm = FALSE]
  BY <1>4
<1>9. x = Idle \/ QuietTo(r, x)
  <2>1. CASE n # Idle /\ x = [n EXCEPT !.calm = FALSE]
    <3>1. n \in Job
      BY <1>7, <2>1 DEF QuietTo
    <3>2. /\ x \in Job /\ x.cmd = n.cmd /\ x.step = n.step /\ x.left = n.left /\ x.host = n.host
          /\ x.cfg = n.cfg /\ x.todo = n.todo /\ x.fixes = n.fixes /\ x.outdated = n.outdated
          /\ x.fresh = n.fresh
      BY <2>1, <3>1 DEF Job
    <3>3. Placed(x)
      BY <1>7, <2>1, <3>1, <3>2, PlacedSame DEF QuietTo
    <3>4. Suited(x)
      BY <1>7, <2>1, <3>2 DEF QuietTo, Suited
    <3> QED
      BY <1>7, <2>1, <3>2, <3>3, <3>4 DEF QuietTo, Waits
  <2> QED
    BY <1>7, <1>8, <2>1
<1> QED
  BY <1>2, <1>4, <1>6, <1>8, <1>9, QuietInv

LEMMA KillInv == ASSUME IInv, NEW p \in Proc, Kill(p) PROVE IInv'
<1>1. run[p] \in Job
  BY JobAt DEF Kill
<1>2. /\ UNCHANGED <<config, keychain, tokenFile, service, ssh, remote, used, commands, whole,
                     delivered, clobbered>>
      /\ faults < MaxFaults /\ faults' = faults + 1
      /\ run' = [run EXCEPT ![p] = Idle]
  BY DEF Kill, local, history
<1>3. faults' \in 0..MaxFaults
  BY <1>2, FaultIs DEF IInv
<1>4. SharedTypes'
  BY <1>2, <1>3 DEF SharedTypes, IInv, Types
<1> QED
  BY <1>1, <1>2, <1>4, QuietInv

LEMMA ReadSSHInv == ASSUME IInv, NEW p \in Proc, ReadSSH(p) PROVE IInv'
<1> DEFINE r == run[p]
<1>1. r.step = "read-ssh" /\ r.step \in Step
  BY DEF ReadSSH, At, Step
<1>2. /\ r \in Job /\ Placed(r) /\ Suited(r) /\ HasStep(r.cmd, r.step)
      /\ JobOK(r, Load, ssh, whole, tokenFile, remote)
  BY <1>1, JobAt
<1>3. PICK n : n = After(r)
  OBVIOUS
<1>4. PICK x : x = [n EXCEPT !.file = Parse(ssh), !.outdated = n.outdated \ {"ssh"}]
  OBVIOUS
<1>5. /\ run' = [run EXCEPT ![p] = x]
      /\ UNCHANGED <<config, keychain, tokenFile, service, ssh, remote, used, commands, faults,
                     whole, delivered, clobbered>>
  BY <1>3, <1>4 DEF ReadSSH, local, history
<1> HIDE DEF r
<1>6. /\ Types /\ Generated /\ Jobs /\ OnePort(Load) /\ HostIsForwarded /\ Delivered
      /\ run \in Runs /\ ssh \in Seq(Lines)
  BY DEF IInv, Types
<1>7. n = Idle \/ (Goes(r, n) /\ Suited(n))
  BY <1>2, <1>3, AfterIs, GoesSuited
<1>8. n # Idle
  <2>1. r.left # <<>> \/ r.cmd = "doctor-fix"
    <3>1. PICK plan \in Seq(Step) : \E k \in 1..Len(plan) :
            /\ IsPlan(plan, r.cmd) /\ r.step = plan[k] /\ Len(r.left) = Len(plan) - k
      BY <1>2 DEF Placed
    <3>2. PICK k \in 1..Len(plan) : r.step = plan[k] /\ Len(r.left) = Len(plan) - k
      BY <3>1
    <3>3. CASE r.cmd = "add-host"
      <4>1. plan = Append(InstallPlan, "save")
        BY <3>1, <3>3 DEF IsPlan, Inits
      <4>2. Len(plan) = 9 /\ plan[9] = "save"
        BY <4>1, LongPlans
      <4>3. k # 9 /\ k \in 1..9
        BY <1>1, <3>2, <4>2
      <4>4. Len(r.left) # 0
        BY <3>2, <4>2, <4>3
      <4> QED
        BY <4>4
    <3>4. CASE r.cmd = "remove-host"
      <4>1. plan = Append(UninstallPlan, "save")
        BY <3>1, <3>4 DEF IsPlan, Inits
      <4>2. Len(plan) = 6 /\ plan[6] = "save"
        BY <4>1, LongPlans
      <4>3. k # 6 /\ k \in 1..6
        BY <1>1, <3>2, <4>2
      <4>4. Len(r.left) # 0
        BY <3>2, <4>2, <4>3
      <4> QED
        BY <4>4
    <3> QED
      BY <1>1, <1>2, <3>3, <3>4 DEF HasStep, Inits
  <2> QED
    BY <1>2, <1>3, <2>1, AfterIs, IdleFields DEF Goes, Same
<1>9. n \in Job
  BY <1>7, <1>8 DEF Goes, Same
<1>10. Parse(ssh) \in Seq(Lines) /\ UserSettings(Parse(ssh)) = UserSettings(ssh)
  BY <1>6, ParseKeeps
<1>11. /\ x \in Job /\ x.cmd = n.cmd /\ x.step = n.step /\ x.left = n.left /\ x.host = n.host
       /\ x.cfg = n.cfg /\ x.todo = n.todo /\ x.fixes = n.fixes /\ x.fresh = n.fresh
       /\ x.file = Parse(ssh) /\ x.outdated = n.outdated \ {"ssh"}
  BY <1>4, <1>9, <1>10 DEF Job
<1>12. Placed(x)
  BY <1>7, <1>8, <1>9, <1>11, PlacedSame DEF Goes
<1>13. Suited(x)
  BY <1>7, <1>8, <1>11 DEF Suited
<1>14. /\ x.cmd = r.cmd /\ x.host = r.host /\ x.cfg = r.cfg /\ x.fresh = r.fresh
       /\ "config" \in r.outdated => "config" \in x.outdated
  BY <1>7, <1>8, <1>11 DEF Goes, Same
<1>15. Load' = Load
  BY <1>5 DEF Load
<1>16. x.step # "save" /\ (x.step \in {"save", "store"} => x.cmd = "doctor-fix")
  BY <1>1, <1>2, <1>7, <1>8, <1>11 DEF Goes, Leads, Fixed, FixSteps, HasStep, Inits
<1>17. JobOK(x, Load, ssh, whole, tokenFile, remote)
  <2>1. Current(x, Load, ssh)
    BY <1>1, <1>2, <1>10, <1>11, <1>14 DEF JobOK, Current
  <2>2. Forwarded(x, ssh, whole)
    BY <1>2, <1>14, <1>16 DEF JobOK, Forwarded
  <2>3. Delivers(x, tokenFile, remote)
    BY <1>1, <1>2, <1>14 DEF JobOK, Delivers, Copying
  <2> QED
    BY <1>12, <1>13, <2>1, <2>2, <2>3 DEF JobOK
<1>18. run' \in Runs /\ run'[p] = x /\ \A q \in Proc \ {p} : run'[q] = run[q]
  BY <1>5, <1>6, <1>11 DEF Runs
<1>19. Jobs'
  <2>1. ASSUME NEW q \in Proc \ {p}, run'[q] # Idle
        PROVE  Undisturbed(q)
    BY <1>5, <1>6, <1>15, <1>18, KeptSame DEF Undisturbed
  <2>2. JobOK(run'[p], Load', ssh', whole', tokenFile', remote')
    BY <1>5, <1>15, <1>17, <1>18
  <2> QED
    BY <1>6, <1>18, <2>1, <2>2, JobsKept
<1>20. Generated'
  <2>1. \A q \in Proc : Waits(run'[q]) => Waits(run[q])
    BY <1>16, <1>18 DEF Waits, Inits
  <2> QED
    BY <1>5, <1>6, <2>1, GeneratedKept
<1>21. Types'
  BY <1>5, <1>6, <1>18 DEF Types
<1>22. HostIsForwarded' /\ OnePort(Load)' /\ Delivered'
  BY <1>5, <1>6, <1>15 DEF HostIsForwarded, Delivered
<1> QED
  BY <1>19, <1>20, <1>21, <1>22 DEF IInv

\* A command on a host ends with its save.
LEMMA LastIs ==
  ASSUME NEW r \in Job, Placed(r), r.cmd \in Hosted
  PROVE  r.step = "save" <=> r.left = <<>>
<1>1. PICK plan \in Seq(Step) : \E k \in 1..Len(plan) :
        /\ IsPlan(plan, r.cmd) /\ r.step = plan[k] /\ Len(r.left) = Len(plan) - k
  BY DEF Placed
<1>2. PICK k \in 1..Len(plan) : r.step = plan[k] /\ Len(r.left) = Len(plan) - k
  BY <1>1
<1>3. PICK m \in Nat : m = Len(plan)
  OBVIOUS
<1>4. m \in 1..9 /\ \A i \in 1..m : plan[i] = "save" <=> i = m
  <2>1. CASE r.cmd = "add-host"
    <3>1. plan = Append(InstallPlan, "save")
      BY <1>1, <2>1 DEF IsPlan, Inits
    <3>2. /\ m = 9
          /\ plan[1] = "copy-binary" /\ plan[2] = "make-executable" /\ plan[3] = "copy-token"
          /\ plan[4] = "private" /\ plan[5] = "verify" /\ plan[6] = "copy-skill"
          /\ plan[7] = "read-ssh" /\ plan[8] = "write-ssh" /\ plan[9] = "save"
      BY <1>3, <3>1, LongPlans
    <3> QED
      BY <3>2
  <2>2. CASE r.cmd = "update-token"
    <3>1. plan = Append(TokenPlan, "save")
      BY <1>1, <2>2 DEF IsPlan, Inits
    <3>2. /\ m = 4
          /\ plan[1] = "copy-token" /\ plan[2] = "private" /\ plan[3] = "verify"
          /\ plan[4] = "save"
      BY <1>3, <3>1, LongPlans
    <3> QED
      BY <3>2
  <2>3. CASE r.cmd = "remove-host"
    <3>1. plan = Append(UninstallPlan, "save")
      BY <1>1, <2>3 DEF IsPlan, Inits
    <3>2. /\ m = 6
          /\ plan[1] = "rm-binary" /\ plan[2] = "rm-token" /\ plan[3] = "rm-skill"
          /\ plan[4] = "read-ssh" /\ plan[5] = "write-ssh" /\ plan[6] = "save"
      BY <1>3, <3>1, LongPlans
    <3> QED
      BY <3>2
  <2>4. CASE r.cmd = "revoke"
    <3>1. plan = <<"save">>
      BY <1>1, <2>4 DEF IsPlan, Inits
    <3> QED
      BY <1>3, <3>1
  <2> QED
    BY <2>1, <2>2, <2>3, <2>4 DEF Hosted
<1>5. r.left = <<>> <=> Len(r.left) = 0
  BY JobFields
<1> QED
  BY <1>2, <1>3, <1>4, <1>5

\* The host of a job that needs the token.
LEMMA DelivererHost ==
  ASSUME NEW r \in Job, Suited(r), r.cmd \in {"add-host", "update-token"}
  PROVE  r.host \in Alias
  BY DEF Suited, Hosted

LEMMA CopyTokenInv == ASSUME IInv, NEW p \in Proc, CopyToken(p) PROVE IInv'
<1> DEFINE r == run[p]
           h == r.host
<1>1. r.step = "copy-token" /\ r.step \in Step \cap HostSteps /\ tokenFile # None
  BY DEF CopyToken, At, Step, HostSteps
<1>2. /\ r \in Job /\ Placed(r) /\ Suited(r) /\ HasStep(r.cmd, r.step) /\ h \in Alias
      /\ JobOK(r, Load, ssh, whole, tokenFile, remote)
  BY <1>1, JobAt
<1>3. PICK n : n = After(r)
  OBVIOUS
<1>4. PICK x : x = [n EXCEPT !.fresh = TRUE]
  OBVIOUS
<1>5. PICK open \in BOOLEAN \cup {remote[h].open} :
        /\ remote' = [remote EXCEPT ![h].token = tokenFile, ![h].open = open]
        /\ run' = [run EXCEPT ![p] = x]
        /\ UNCHANGED <<config, keychain, tokenFile, service, ssh, used, commands, faults,
                       whole, delivered, clobbered>>
  BY <1>3, <1>4 DEF CopyToken, local, history
<1>6. /\ Types /\ Generated /\ Jobs /\ OnePort(Load) /\ HostIsForwarded /\ Delivered
      /\ run \in Runs /\ remote \in [Alias -> Installed] /\ tokenFile \in Token \cup {None, Torn}
  BY DEF IInv, Types
<1> HIDE DEF h
<1>7. /\ remote' \in [Alias -> Installed] /\ remote'[h].token = tokenFile
      /\ \A a \in Alias \ {h} : remote'[a] = remote[a]
  <2>1. PICK y : y = [remote[h] EXCEPT !.token = tokenFile, !.open = open]
    OBVIOUS
  <2>2. remote[h] \in Installed /\ open \in BOOLEAN
    BY <1>2, <1>5, <1>6, Fields
  <2>3. y \in Installed /\ y.token = tokenFile
    BY <1>6, <2>1, <2>2 DEF Installed
  <2>4. remote' = [remote EXCEPT ![h] = y]
    BY <1>2, <1>5, <1>6, <2>1
  <2> QED
    BY <1>2, <1>6, <2>3, <2>4, InstalledIs
<1>8. /\ \A a \in Alias : HasToken(a, tokenFile, remote) => HasToken(a, tokenFile', remote')
      /\ HasToken(h, tokenFile', remote')
  BY <1>1, <1>2, <1>5, <1>7 DEF HasToken
<1>9. r.cmd \in {"add-host", "update-token"}
  BY <1>1, <1>2 DEF HasStep, Inits
<1> HIDE DEF r
<1>10. Goes(r, n) /\ Suited(n)
  <2>1. r.left # <<>>
    BY <1>1, <1>2, <1>9, LastIs DEF Hosted
  <2>2. Goes(r, n)
    BY <1>2, <1>3, <2>1, AfterIs
  <2> QED
    BY <1>2, <2>2, GoesSuited
<1>11. /\ x \in Job /\ x.cmd = n.cmd /\ x.step = n.step /\ x.left = n.left /\ x.host = n.host
       /\ x.cfg = n.cfg /\ x.todo = n.todo /\ x.fixes = n.fixes /\ x.outdated = n.outdated
  BY <1>4, <1>10 DEF Goes, Same, Job
<1>12. n.cmd = r.cmd /\ n.host = r.host /\ n.cfg = r.cfg /\ n.outdated = r.outdated /\ n \in Job
  BY <1>10 DEF Goes, Same
<1>13. n.step = "private"
  BY <1>1, <1>9, <1>10 DEF Goes, Leads, Fixed
<1>14. JobOK(x, Load', ssh', whole', tokenFile', remote')
  <2>1. Placed(x)
    BY <1>10, <1>11, <1>12, PlacedSame DEF Goes
  <2>2. Suited(x)
    BY <1>10, <1>11 DEF Suited
  <2>3. Current(x, Load, ssh)
    BY <1>1, <1>2, <1>11, <1>12, <1>13 DEF JobOK, Current
  <2>4. Forwarded(x, ssh, whole)
    BY <1>2, <1>9, <1>11, <1>12, <1>13 DEF Forwarded
  <2>5. Delivers(x, tokenFile', remote')
    BY <1>8, <1>11, <1>12 DEF Delivers, h
  <2>6. Load' = Load
    BY <1>5 DEF Load
  <2> QED
    BY <1>5, <2>1, <2>2, <2>3, <2>4, <2>5, <2>6 DEF JobOK
<1>15. run' \in Runs /\ run'[p] = x /\ \A q \in Proc \ {p} : run'[q] = run[q]
  BY <1>5, <1>6, <1>11 DEF Runs
<1>16. Load' = Load
  BY <1>5 DEF Load
<1>17. Jobs'
  <2>1. ASSUME NEW q \in Proc \ {p}, run'[q] # Idle
        PROVE  Undisturbed(q)
    <3>1. run[q] \in Job /\ run'[q] = run[q] /\ run[q] # Idle
      BY <1>6, <1>15, <2>1 DEF Runs
    <3>2. run[q].cmd \in {"add-host", "update-token"} => run[q].host \in Alias
      BY <1>6, <3>1, DelivererHost DEF Jobs, JobOK
    <3>3. Kept(run[q], run'[q])
      BY <1>6, <3>1, KeptSame
    <3> QED
      BY <1>5, <1>8, <1>16, <3>1, <3>2, <3>3 DEF Undisturbed
  <2> QED
    BY <1>6, <1>14, <1>15, <2>1, JobsKept
<1>18. Generated'
  <2>1. \A q \in Proc : Waits(run'[q]) => Waits(run[q])
    BY <1>11, <1>13, <1>15 DEF Waits
  <2> QED
    BY <1>5, <1>6, <2>1, GeneratedKept
<1>19. Types'
  BY <1>5, <1>6, <1>7, <1>15 DEF Types
<1>20. HostIsForwarded' /\ OnePort(Load)'
  BY <1>5, <1>6, <1>16 DEF HostIsForwarded
<1>21. Delivered'
  BY <1>5, <1>6, <1>8 DEF Delivered, Types
<1> QED
  BY <1>17, <1>18, <1>19, <1>20, <1>21 DEF IInv

-----------------------------------------------------------------------------
(* A token that is lost, on a host or here.                                *)

\* A command that has gone on quietly, and then lost what it counted on.
LEMMA OwnKept ==
  ASSUME NEW r \in Job, NEW x \in Job, QuietTo(r, x), NEW n \in Job, Kept(x, n),
         NEW l, NEW s, NEW w, NEW t, NEW m, JobOK(r, l, s, w, t, m),
         NEW t2, NEW m2, Delivers(n, t2, m2)
  PROVE  JobOK(n, l, s, w, t2, m2)
<1>1. /\ n.cmd = x.cmd /\ n.step = x.step /\ n.left = x.left /\ n.host = x.host /\ n.cfg = x.cfg
      /\ n.file = x.file /\ n.todo = x.todo /\ n.fixes = x.fixes
      /\ x.outdated \subseteq n.outdated /\ n.fresh \in {x.fresh, FALSE}
  BY IdleFields DEF Kept
<1>2. Placed(n)
  BY <1>1, PlacedSame DEF QuietTo
<1>3. Suited(n)
  BY <1>1 DEF QuietTo, Suited
<1>4. Current(n, l, s)
  BY <1>1 DEF QuietTo, JobOK, Current
<1>5. Forwarded(n, s, w)
  BY <1>1 DEF QuietTo, JobOK, Forwarded
<1> QED
  BY <1>2, <1>3, <1>4, <1>5 DEF JobOK

LEMMA LostInv ==
  ASSUME IInv, NEW p \in Proc, run[p] \in Job, run' \in Runs, SharedTypes', Generated', Delivered',
         UNCHANGED <<config, ssh, whole, clobbered>>,
         \/ run'[p] = Idle
         \/ /\ \E x \in Job : QuietTo(run[p], x) /\ Kept(x, run'[p])
            /\ Delivers(run'[p], tokenFile', remote'),
         \A q \in Proc \ {p} :
           /\ Kept(run[q], run'[q])
           /\ run'[q].fresh /\ run[q].cmd \in {"add-host", "update-token"}
                /\ HasToken(run[q].host, tokenFile, remote)
              => HasToken(run[q].host, tokenFile', remote')
  PROVE  IInv'
<1>1. Types /\ Jobs /\ OnePort(Load) /\ HostIsForwarded
  BY DEF IInv
<1>2. Load' = Load
  BY DEF Load
<1>3. \A q \in Proc \ {p} : Undisturbed(q)
  BY <1>2 DEF Undisturbed
<1>4. ASSUME run'[p] # Idle
      PROVE  JobOK(run'[p], Load', ssh', whole', tokenFile', remote')
  <2>1. run'[p] \in Job
    BY <1>4 DEF Runs
  <2>2. PICK x \in Job : QuietTo(run[p], x) /\ Kept(x, run'[p])
    BY <1>4
  <2>3. JobOK(run[p], Load, ssh, whole, tokenFile, remote)
    BY <1>1, IdleFields DEF Jobs
  <2>4. Delivers(run'[p], tokenFile', remote')
    BY <1>4
  <2> QED
    BY <1>2, <2>1, <2>2, <2>3, <2>4, OwnKept
<1>5. Jobs'
  BY <1>1, <1>3, <1>4, JobsKept
<1>6. Types'
  BY TypesAre DEF Types, SharedTypes
<1>7. HostIsForwarded' /\ OnePort(Load)'
  BY <1>1, <1>2 DEF HostIsForwarded
<1> QED
  BY <1>5, <1>6, <1>7 DEF IInv

\* The others on a host, S, have delivered nothing.
Losing(runs, p, x, S) ==
  [q \in Proc |-> IF q = p THEN x
                  ELSE IF q \in S THEN [runs[q] EXCEPT !.fresh = FALSE] ELSE runs[q]]

LEMMA FreshIs ==
  ASSUME NEW runs \in Runs, NEW p \in Proc, NEW x \in Job \cup {Idle}, NEW S,
         \A q \in S : q \in Proc \ {p} /\ runs[q] # Idle,
         NEW g, g = Losing(runs, p, x, S)
  PROVE  /\ g \in Runs /\ g[p] = x
         /\ \A q \in Proc \ {p} : /\ Kept(runs[q], g[q])
                                  /\ q \in S => ~g[q].fresh
<1>1. g[p] = x
  BY DEF Losing
<1>2. ASSUME NEW q \in Proc \ {p}, q \notin S
      PROVE  g[q] = runs[q]
  BY <1>2 DEF Losing
<1>3. ASSUME NEW q \in S
      PROVE  /\ g[q] \in Job /\ Kept(runs[q], g[q]) /\ ~g[q].fresh
  <2> DEFINE r == runs[q]
  <2>1. g[q] = [r EXCEPT !.fresh = FALSE] /\ r \in Job
    BY <1>3 DEF Runs, Losing
  <2> HIDE DEF r
  <2>2. /\ g[q] \in Job /\ g[q].outdated = r.outdated
        /\ g[q].cmd = r.cmd /\ g[q].step = r.step /\ g[q].left = r.left /\ g[q].host = r.host
        /\ g[q].cfg = r.cfg /\ g[q].file = r.file /\ g[q].todo = r.todo
        /\ g[q].fixes = r.fixes /\ g[q].fresh = FALSE /\ g[q].calm = r.calm
    BY <2>1 DEF Job
  <2>3. Kept(r, g[q])
    BY <2>1, <2>2 DEF Kept
  <2> QED
    BY <2>2, <2>3 DEF r
<1>4. g \in Runs
  <2>1. g = [q \in Proc |-> g[q]]
    BY DEF Losing
  <2>2. \A q \in Proc : g[q] \in Job \cup {Idle}
    BY <1>1, <1>2, <1>3 DEF Runs
  <2> QED
    BY <2>1, <2>2 DEF Runs
<1> QED
  BY <1>1, <1>2, <1>3, <1>4, KeptSame

\* A host whose token is gone or broken, and the others that work on it.
LEMMA HostLost ==
  ASSUME IInv, NEW p \in Proc, run[p] \in Job, NEW h \in Alias, NEW y \in Installed,
         remote' = [remote EXCEPT ![h] = y],
         NEW x, x = Idle \/ (QuietTo(run[p], x) /\ Delivers(x, tokenFile, remote')),
         NEW S, S = Others(p, h) \/ (S = {} /\ y.token = remote[h].token),
         run' = Losing(run, p, x, S),
         delivered' = (delivered \ {h}) \/ (delivered' = delivered /\ y.token = remote[h].token),
         faults' \in 0..MaxFaults,
         UNCHANGED <<local, used, commands, whole, clobbered>>
  PROVE  IInv'
<1>1. /\ Types /\ Generated /\ Jobs /\ Delivered /\ run \in Runs /\ remote \in [Alias -> Installed]
      /\ UNCHANGED <<config, keychain, tokenFile, service, ssh>>
  BY DEF IInv, Types, local
<1>2. x \in Job \cup {Idle} /\ \A q \in S : q \in Proc \ {p} /\ run[q] # Idle
  BY DEF QuietTo, Others
<1>3. /\ run' \in Runs /\ run'[p] = x
      /\ \A q \in Proc \ {p} : Kept(run[q], run'[q]) /\ (q \in S => ~run'[q].fresh)
  BY <1>1, <1>2, FreshIs
<1>4. /\ remote' \in [Alias -> Installed] /\ remote'[h] = y
      /\ \A a \in Alias \ {h} : remote'[a] = remote[a]
  BY <1>1, InstalledIs
<1>5. ASSUME NEW a \in Alias, a # h \/ y.token = remote[h].token, HasToken(a, tokenFile, remote)
      PROVE  HasToken(a, tokenFile', remote')
  BY <1>1, <1>4, <1>5 DEF HasToken
<1>6. delivered' \subseteq delivered /\ Delivered'
  <2>1. \A a \in delivered' : a \in delivered /\ a \in Alias /\ (a # h \/ y.token = remote[h].token)
    BY <1>1 DEF Types
  <2> QED
    BY <1>1, <1>5, <2>1 DEF Delivered
<1>7. SharedTypes'
  BY <1>1, <1>4, <1>6 DEF SharedTypes, Types
<1>8. Generated'
  <2>1. Waits(run'[p]) => Waits(run[p])
    BY <1>3, IdleFields DEF Waits, QuietTo, Inits, Command
  <2>2. ASSUME NEW q \in Proc \ {p}, Waits(run'[q])
        PROVE  Waits(run[q])
    BY <1>3, <2>2 DEF Waits, Kept
  <2> QED
    BY <1>1, <2>1, <2>2, GeneratedKept
<1>9. ASSUME NEW q \in Proc \ {p}, run'[q].fresh, run[q].cmd \in {"add-host", "update-token"},
             HasToken(run[q].host, tokenFile, remote)
      PROVE  HasToken(run[q].host, tokenFile', remote')
  <2>1. run[q] \in Job /\ run[q] # Idle
    BY <1>1, <1>9, IdleFields DEF Runs, Command
  <2>2. run[q].host \in Alias
    BY <1>1, <1>9, <2>1, DelivererHost DEF Jobs, JobOK
  <2>3. run[q].host # h \/ y.token = remote[h].token
    BY <1>3, <1>9, <2>1 DEF Others
  <2> QED
    BY <1>5, <1>9, <2>2, <2>3
<1>10. \/ run'[p] = Idle
       \/ /\ \E z \in Job : QuietTo(run[p], z) /\ Kept(z, run'[p])
          /\ Delivers(run'[p], tokenFile', remote')
  <2>1. CASE x # Idle
    <3>1. x \in Job
      BY <1>2, <2>1
    <3>2. Kept(x, x)
      BY <3>1 DEF Kept
    <3> QED
      BY <1>1, <1>3, <2>1, <3>1, <3>2
  <2> QED
    BY <1>3, <2>1
<1> QED
  BY <1>1, <1>3, <1>6, <1>7, <1>8, <1>9, <1>10, LostInv

LEMMA RemoveInv == ASSUME IInv, NEW p \in Proc, Remove(p) PROVE IInv'
<1> DEFINE r == run[p]
           h == r.host
<1>1. r.step \in {"rm-binary", "rm-token", "rm-skill"} /\ r.step \in Step \cap HostSteps
  BY DEF Remove, Step, HostSteps
<1>2. r \in Job /\ Placed(r) /\ Suited(r) /\ HasStep(r.cmd, r.step) /\ h \in Alias
  BY <1>1, JobAt
<1>3. r.cmd = "remove-host"
  BY <1>1, <1>2 DEF HasStep, Inits
<1>4. PICK x : x = After(r)
  OBVIOUS
<1>5. QuietTo(r, x) /\ Delivers(x, tokenFile, remote')
  <2> HIDE DEF r, h
  <2>1. Goes(r, x)
    BY <1>1, <1>2, <1>3, <1>4, AfterIs, LastIs DEF Hosted
  <2>2. QuietTo(r, x)
    BY <1>1, <1>2, <2>1, GoesQuiet
  <2> QED
    BY <1>3, <2>2 DEF QuietTo, Delivers
<1>6. remote[h] \in Installed
  BY <1>2 DEF IInv, Types
<1>7. PICK y : y = CASE At(p, "rm-binary") -> [remote[h] EXCEPT !.binary = "none"]
                     [] At(p, "rm-token")  -> [remote[h] EXCEPT !.token = None, !.open = FALSE]
                     [] OTHER              -> [remote[h] EXCEPT !.skill = FALSE]
  OBVIOUS
<1>8. y \in Installed /\ (r.step # "rm-token" => y.token = remote[h].token)
  <2> DEFINE z == remote[h]
  <2>0. z \in Installed
    BY <1>6
  <2>1. CASE r.step = "rm-binary"
    <3>1. y = [z EXCEPT !.binary = "none"]
      BY <1>7, <2>1 DEF At
    <3> HIDE DEF z
    <3>2. y \in Installed /\ y.token = z.token
      BY <2>0, <3>1 DEF Installed
    <3> QED
      BY <3>2 DEF z
  <2>2. CASE r.step = "rm-token"
    <3>1. y = [z EXCEPT !.token = None, !.open = FALSE]
      BY <1>7, <2>2 DEF At
    <3> HIDE DEF z
    <3>2. y \in Installed
      BY <2>0, <3>1 DEF Installed
    <3> QED
      BY <2>2, <3>2
  <2>3. CASE r.step = "rm-skill"
    <3>1. y = [z EXCEPT !.skill = FALSE]
      BY <1>7, <2>3 DEF At
    <3> HIDE DEF z
    <3>2. y \in Installed /\ y.token = z.token
      BY <2>0, <3>1 DEF Installed
    <3> QED
      BY <3>2 DEF z
  <2> QED
    BY <1>1, <2>1, <2>2, <2>3
<1>9. PICK S : S = IF r.step = "rm-token" THEN Others(p, h) ELSE {}
  OBVIOUS
<1>10. /\ remote' = [remote EXCEPT ![h] = y]
       /\ UNCHANGED <<local, used, commands, faults, whole, clobbered>>
       /\ delivered' = IF r.step = "rm-token" THEN delivered \ {h} ELSE delivered
  BY <1>7 DEF Remove, At
<1>11. run' = Losing(run, p, x, S)
  BY <1>4, <1>9 DEF Remove, At, Losing
<1>12. faults' \in 0..MaxFaults
  BY <1>10 DEF IInv, Types
<1>13. S = Others(p, h) \/ (S = {} /\ y.token = remote[h].token)
  BY <1>8, <1>9
<1>14. delivered' = (delivered \ {h}) \/ (delivered' = delivered /\ y.token = remote[h].token)
  BY <1>8, <1>10
<1> HIDE DEF h
<1> QED
  BY <1>2, <1>5, <1>8, <1>10, <1>11, <1>12, <1>13, <1>14, HostLost DEF h

\* Nothing that was delivered counts any more.
LEMMA StaleInv ==
  ASSUME IInv, NEW p \in Proc, run[p] \in Job,
         NEW x, x = Idle \/ QuietTo(run[p], x),
         run' = Stale([run EXCEPT ![p] = x]),
         SharedTypes', Generated', delivered' = {},
         UNCHANGED <<config, ssh, whole, clobbered>>
  PROVE  IInv'
<1>1. run \in Runs /\ x \in Job \cup {Idle}
  BY DEF IInv, Types, QuietTo
<1>2. PICK runs : runs = [run EXCEPT ![p] = x]
  OBVIOUS
<1>3. runs \in Runs /\ runs[p] = x /\ \A q \in Proc \ {p} : runs[q] = run[q]
  BY <1>1, <1>2 DEF Runs
<1>4. /\ run' \in Runs
      /\ \A q \in Proc : Kept(runs[q], run'[q]) /\ (run'[q] # Idle => ~run'[q].fresh)
  <2>1. PICK g : g = Stale(runs)
    OBVIOUS
  <2>2. /\ g \in Runs
        /\ \A q \in Proc : Kept(runs[q], g[q]) /\ (g[q] # Idle => ~g[q].fresh)
    BY <1>3, <2>1, StaleIs
  <2> QED
    BY <1>2, <2>1, <2>2
<1>5. Delivered'
  BY DEF Delivered
<1>6. ASSUME NEW q \in Proc \ {p}, run'[q].fresh, run[q].cmd \in {"add-host", "update-token"}
      PROVE  FALSE
  <2>1. run[q] # Idle
    BY <1>6, IdleFields DEF Command
  <2>2. run'[q] # Idle
    BY <1>3, <1>4, <2>1, IdleFields DEF Kept
  <2> QED
    BY <1>4, <1>6, <2>2
<1>7. \/ run'[p] = Idle
      \/ /\ \E z \in Job : QuietTo(run[p], z) /\ Kept(z, run'[p])
         /\ Delivers(run'[p], tokenFile', remote')
  <2>1. CASE x = Idle
    BY <1>3, <1>4, <2>1, IdleFields DEF Kept
  <2>2. CASE x # Idle /\ run'[p] # Idle
    <3>1. x \in Job /\ QuietTo(run[p], x) /\ Kept(x, run'[p])
      BY <1>1, <1>3, <1>4, <2>2
    <3>2. Delivers(run'[p], tokenFile', remote')
      BY <1>4, <2>2 DEF Delivers
    <3> QED
      BY <3>1, <3>2
  <2> QED
    BY <2>1, <2>2
<1>8. \A q \in Proc \ {p} : Kept(run[q], run'[q])
  BY <1>3, <1>4
<1> QED
  BY <1>4, <1>5, <1>6, <1>7, <1>8, LostInv

\* And none of the others has begun to wait for a token.
LEMMA StaleWaits ==
  ASSUME run \in Runs, NEW p \in Proc, NEW x \in Job \cup {Idle},
         run' = Stale([run EXCEPT ![p] = x])
  PROVE  /\ Waits(run'[p]) => Waits(x)
         /\ \A q \in Proc \ {p} : Waits(run'[q]) => Waits(run[q])
<1>1. PICK runs : runs = [run EXCEPT ![p] = x]
  OBVIOUS
<1>2. runs \in Runs /\ runs[p] = x /\ \A q \in Proc \ {p} : runs[q] = run[q]
  BY <1>1 DEF Runs
<1>3. PICK g : g = Stale(runs)
  OBVIOUS
<1>4. \A q \in Proc : Kept(runs[q], g[q])
  BY <1>2, <1>3, StaleIs
<1>5. \A q \in Proc : Waits(g[q]) => Waits(runs[q])
  BY <1>4 DEF Kept, Waits
<1> QED
  BY <1>1, <1>2, <1>3, <1>5

LEMMA StoreInv == ASSUME IInv, NEW p \in Proc, Store(p) PROVE IInv'
<1> DEFINE r == run[p]
<1>1. r.step = "store" /\ r.step \in Step
  BY DEF Store, At, Step
<1>2. r \in Job /\ Placed(r) /\ Suited(r) /\ HasStep(r.cmd, r.step)
  BY <1>1, JobAt
<1>3. r.cmd \in Inits \cup {"rotate-token"} /\ Waits(r)
  BY <1>1, <1>2 DEF HasStep, Inits, Waits
<1>4. PICK x : x = After(r)
  OBVIOUS
<1>5. x = Idle \/ QuietTo(r, x)
  BY <1>1, <1>2, <1>4, AfterIs, GoesQuiet
<1>6. ~Waits(x)
  <2>1. CASE x = Idle
    BY <2>1, IdleFields DEF Waits, Inits, Command
  <2>2. CASE x # Idle
    <3>1. Goes(r, x)
      BY <1>2, <1>4, <2>2, AfterIs
    <3>2. x.step = "install-unit"
      BY <1>1, <1>3, <3>1 DEF Goes, Leads, Fixed, Inits
    <3> QED
      BY <3>2 DEF Waits
  <2> QED
    BY <2>1, <2>2
<1>7. /\ run' = Stale([run EXCEPT ![p] = x])
      /\ delivered' = {} /\ used' = used + 1
      /\ UNCHANGED <<config, service, ssh, remote, commands, whole, clobbered>>
      /\ keychain' = keychain \/ keychain' = [keychain EXCEPT !.token = used']
      /\ tokenFile' = tokenFile \/ tokenFile' = used'
      /\ faults' = faults \/ (faults < MaxFaults /\ faults' = faults + 1)
  BY <1>4 DEF Store
<1>8. /\ Types /\ Generated /\ run \in Runs /\ x \in Job \cup {Idle}
  BY <1>5 DEF IInv, Types, QuietTo
<1>9. Generated' /\ used' \in Token
  <2>1. /\ Waits(run'[p]) => Waits(x)
        /\ \A q \in Proc \ {p} : Waits(run'[q]) => Waits(run[q])
    BY <1>7, <1>8, StaleWaits
  <2>2. ~Waits(run'[p])
    BY <1>6, <2>1
  <2>3. \A q \in Proc : Waits(run'[q]) => Waits(run[q])
    BY <2>1, <2>2
  <2> QED
    BY <1>3, <1>7, <1>8, <2>2, <2>3, GeneratedStored
<1>10. SharedTypes'
  <2>1. keychain' \in [here : BOOLEAN, token : Token \cup {None, Torn}]
    BY <1>7, <1>8, <1>9 DEF Types
  <2>2. tokenFile' \in Token \cup {None, Torn}
    BY <1>7, <1>8, <1>9 DEF Types
  <2>3. used' \in 0..MaxCommands + 1
    BY <1>9, SetupAssumption DEF Token
  <2>4. faults' \in 0..MaxFaults
    BY <1>7, <1>8, FaultIs
  <2> QED
    BY <1>7, <1>8, <2>1, <2>2, <2>3, <2>4 DEF SharedTypes, Types
<1> HIDE DEF r
<1> QED
  BY <1>2, <1>5, <1>7, <1>9, <1>10, StaleInv DEF r

\* An emptied file leaves the command where it is.
LEMMA TruncateInv == ASSUME IInv, NEW p \in Proc, Truncate(p) PROVE IInv'
<1> DEFINE r == run[p]
<1>1. r.step = "store" /\ r.step \in Step
  BY DEF Truncate, At, Step
<1>2. r \in Job /\ Placed(r) /\ Suited(r)
  BY <1>1, JobAt
<1>3. PICK x : x = r
  OBVIOUS
<1>4. QuietTo(r, x)
  BY <1>1, <1>2, <1>3 DEF QuietTo
<1>5. /\ run' = Stale(run) /\ tokenFile' = Torn /\ delivered' = {}
      /\ UNCHANGED <<config, keychain, service, ssh, remote, used, commands, faults, whole, clobbered>>
  BY DEF Truncate
<1>6. Types /\ Generated /\ run \in Runs /\ x \in Job \cup {Idle}
  BY <1>2, <1>3 DEF IInv, Types
<1>7. run' = Stale([run EXCEPT ![p] = x])
  <2>1. run = [run EXCEPT ![p] = x]
    BY <1>3, <1>6 DEF Runs
  <2> QED
    BY <1>5, <2>1
<1>8. Generated'
  <2>1. /\ Waits(run'[p]) => Waits(x)
        /\ \A q \in Proc \ {p} : Waits(run'[q]) => Waits(run[q])
    BY <1>6, <1>7, StaleWaits
  <2> QED
    BY <1>3, <1>5, <1>6, <2>1, GeneratedKept
<1>9. SharedTypes'
  BY <1>5, <1>6 DEF SharedTypes, Types
<1> HIDE DEF r
<1> QED
  BY <1>2, <1>4, <1>5, <1>7, <1>8, <1>9, StaleInv DEF r

LEMMA DeleteTokenInv == ASSUME IInv, NEW p \in Proc, DeleteToken(p) PROVE IInv'
<1> DEFINE r == run[p]
<1>1. r.step = "delete-token" /\ r.step \in Step
  BY DEF DeleteToken, At, Step
<1>2. r \in Job /\ Placed(r) /\ Suited(r) /\ HasStep(r.cmd, r.step)
  BY <1>1, JobAt
<1>3. PICK x : x = After(r)
  OBVIOUS
<1>4. x = Idle \/ QuietTo(r, x)
  BY <1>1, <1>2, <1>3, AfterIs, GoesQuiet
<1>5. PICK kept \in SUBSET {"keychain", "file"} :
        /\ faults + Cardinality(kept) <= MaxFaults
        /\ faults' = faults + Cardinality(kept)
        /\ keychain' = keychain \/ keychain' = [keychain EXCEPT !.token = None]
        /\ tokenFile' = tokenFile \/ tokenFile' = None
  BY DEF DeleteToken
<1>6. /\ run' = Stale([run EXCEPT ![p] = x]) /\ delivered' = {}
      /\ UNCHANGED <<config, service, ssh, remote, used, commands, whole, clobbered>>
  BY <1>3 DEF DeleteToken
<1>7. /\ Types /\ Generated /\ run \in Runs /\ x \in Job \cup {Idle}
  BY <1>4 DEF IInv, Types, QuietTo
<1>8. Generated'
  <2>1. /\ Waits(run'[p]) => Waits(x)
        /\ \A q \in Proc \ {p} : Waits(run'[q]) => Waits(run[q])
    BY <1>6, <1>7, StaleWaits
  <2>2. Waits(x) => Waits(r)
    BY <1>4, IdleFields DEF QuietTo, Waits, Inits, Command
  <2> QED
    BY <1>6, <1>7, <2>1, <2>2, GeneratedKept
<1>9. SharedTypes'
  <2>1. faults' \in 0..MaxFaults
    <3>1. IsFiniteSet(kept)
      <4>1. IsFiniteSet({"keychain"})
        BY FS_Singleton
      <4>2. IsFiniteSet({"keychain"} \cup {"file"})
        BY <4>1, FS_AddElement
      <4>3. kept \in SUBSET ({"keychain"} \cup {"file"})
        BY <1>5
      <4> QED
        BY <4>2, <4>3, FS_Subset
    <3>2. PICK c \in Nat : c = Cardinality(kept)
      BY <3>1, FS_CardinalityType
    <3>3. PICK f : f = faults + c
      OBVIOUS
    <3>4. f \in 0..MaxFaults
      BY <1>5, <1>7, <3>2, <3>3, SetupAssumption DEF Types
    <3> QED
      BY <1>5, <3>2, <3>3, <3>4
  <2>2. keychain' \in [here : BOOLEAN, token : Token \cup {None, Torn}]
    BY <1>5, <1>7 DEF Types
  <2>3. tokenFile' \in Token \cup {None, Torn}
    BY <1>5, <1>7 DEF Types
  <2> QED
    BY <1>6, <1>7, <2>1, <2>2, <2>3 DEF SharedTypes, Types
<1> HIDE DEF r
<1> QED
  BY <1>2, <1>4, <1>6, <1>8, <1>9, StaleInv DEF r

LEMMA BreakOffInv == ASSUME IInv, NEW p \in Proc, BreakOff(p) PROVE IInv'
<1> DEFINE r == run[p]
           h == r.host
<1>1. r.step = "copy-token" /\ r.step \in Step
  BY DEF BreakOff, At, Step
<1>2. r \in Job /\ h \in Alias
  BY <1>1, JobAt DEF HostSteps
<1>3. Types /\ Generated /\ run \in Runs /\ remote \in [Alias -> Installed]
  BY DEF IInv, Types
<1>4. faults' \in 0..MaxFaults
  BY <1>3, FaultIs DEF BreakOff
<1>5. PICK S : S = Others(p, h)
  OBVIOUS
<1>6. PICK x : x = Idle
  OBVIOUS
<1>7. run' = Losing(run, p, x, S)
  BY <1>5, <1>6 DEF BreakOff, Losing
<1>8. /\ remote' = [remote EXCEPT ![h].token = Torn] /\ delivered' = delivered \ {h}
      /\ UNCHANGED <<local, used, commands, whole, clobbered>>
  BY DEF BreakOff
<1> HIDE DEF h
<1>9. PICK y : y = [remote[h] EXCEPT !.token = Torn]
  OBVIOUS
<1>10. y \in Installed
  BY <1>2, <1>3, <1>9 DEF Installed
<1>11. remote' = [remote EXCEPT ![h] = y]
  BY <1>8, <1>9
<1> QED
  BY <1>2, <1>4, <1>5, <1>6, <1>7, <1>8, <1>10, <1>11, HostLost DEF h

-----------------------------------------------------------------------------
(* The writes of ~/.ssh/config.                                            *)

\* One that keeps the user's settings, and the forwards of the hosts installed in full.
LEMMA WriteInv ==
  ASSUME IInv, NEW p \in Proc, At(p, "write-ssh"), NEW file \in Seq(Lines), WriteAtomic(p, file),
         UserSettings(file) = UserSettings(run[p].file),
         run[p].file = Parse(ssh) =>
           \A b \in whole : HasRemoteForward(ssh, b, Load.port) =>
                              HasRemoteForward(file, b, Load.port),
         run[p].cmd = "add-host" =>
           HasRemoteForward(file, run[p].host, HostPort(run[p].cfg, run[p].host))
  PROVE  IInv'
<1> DEFINE r == run[p]
<1>1. r.step = "write-ssh" /\ r.step \in Step
  BY DEF At, Step
<1>2. /\ r \in Job /\ Placed(r) /\ Suited(r) /\ HasStep(r.cmd, r.step)
      /\ JobOK(r, Load, ssh, whole, tokenFile, remote)
  BY <1>1, JobAt
<1>3. PICK n : n = After(r)
  OBVIOUS
<1>4. PICK x : x = [n EXCEPT !.file = <<>>]
  OBVIOUS
<1>5. PICK runs : runs = [run EXCEPT ![p] = x]
  OBVIOUS
<1>6. /\ ssh' = file /\ clobbered' = (clobbered \/ "ssh" \in r.outdated)
      /\ run' = Outdate(runs, p, "ssh")
      /\ UNCHANGED <<config, keychain, tokenFile, service, remote, used, commands, faults, whole,
                     delivered>>
  BY <1>3, <1>4, <1>5 DEF WriteAtomic
<1>7. /\ Types /\ Generated /\ Jobs /\ OnePort(Load) /\ HostIsForwarded /\ Delivered
      /\ run \in Runs
  BY DEF IInv, Types
<1>8. Load' = Load
  BY <1>6 DEF Load
<1>9. r.cmd \in {"add-host", "remove-host", "doctor-fix"}
  BY <1>1, <1>2 DEF HasStep, Inits
<1>10. Goes(r, n) /\ Suited(n)
  <2>1. r.cmd # "doctor-fix" => r.left # <<>>
    BY <1>1, <1>2, <1>9, LastIs DEF Hosted
  <2>2. n # Idle
    BY <1>2, <1>3, <2>1, AfterIs, IdleFields DEF Goes, Same
  <2> QED
    BY <1>2, <1>3, <2>2, AfterIs, GoesSuited
<1>11. n.cmd = r.cmd /\ n.host = r.host /\ n.cfg = r.cfg /\ n.outdated = r.outdated
       /\ n.fresh = r.fresh /\ n \in Job
  BY <1>10 DEF Goes, Same
<1>12. /\ n.step \in FixSteps \cup {"check-host", "save"}
       /\ r.cmd = "doctor-fix" => n.step # "save"
  <2>1. n.step \in FixSteps \cup {"check-host", "save"}
    BY <1>1, <1>10 DEF Goes, Leads, Fixed
  <2>2. HasStep(n.cmd, n.step)
    BY <1>10, <1>11, PlacedHas DEF Goes
  <2> QED
    BY <1>11, <2>1, <2>2 DEF HasStep, Inits
<1>13. /\ x \in Job /\ x.cmd = n.cmd /\ x.step = n.step /\ x.left = n.left /\ x.host = n.host
       /\ x.cfg = n.cfg /\ x.todo = n.todo /\ x.fixes = n.fixes /\ x.outdated = n.outdated
       /\ x.fresh = n.fresh
  <2>1. <<>> \in Seq(Lines)
    OBVIOUS
  <2> QED
    BY <1>4, <1>11, <2>1 DEF Job
<1>14. /\ runs \in Runs /\ runs[p] = x /\ \A q \in Proc \ {p} : runs[q] = run[q]
  BY <1>5, <1>7, <1>13 DEF Runs
<1>15. /\ run' \in Runs /\ run'[p] = x
       /\ \A q \in Proc \ {p} : /\ Kept(run[q], run'[q])
                                /\ run'[q] # Idle => "ssh" \in run'[q].outdated
  <2>1. PICK g : g = Outdate(runs, p, "ssh")
    OBVIOUS
  <2>2. /\ g \in Runs /\ g[p] = x
        /\ \A q \in Proc \ {p} : Kept(run[q], g[q]) /\ (g[q] # Idle => "ssh" \in g[q].outdated)
    BY <1>14, <2>1, OutdateIs
  <2> QED
    BY <1>6, <2>1, <2>2
<1>16. UserSettings(ssh') = UserSettings(ssh) /\ ("ssh" \notin r.outdated => r.file = Parse(ssh))
  BY <1>1, <1>2, <1>6 DEF JobOK, Current
<1>17. JobOK(x, Load', ssh', whole', tokenFile', remote')
  <2>1. Placed(x)
    BY <1>10, <1>11, <1>13, PlacedSame DEF Goes
  <2>2. Suited(x)
    BY <1>10, <1>13 DEF Suited
  <2>3. Current(x, Load, file)
    BY <1>1, <1>2, <1>11, <1>12, <1>13 DEF JobOK, Current, FixSteps
  <2>4. Forwarded(x, file, whole)
    BY <1>2, <1>11, <1>13 DEF JobOK, Forwarded
  <2>5. Delivers(x, tokenFile, remote)
    BY <1>1, <1>2, <1>11, <1>13 DEF JobOK, Delivers, Copying
  <2> QED
    BY <1>6, <1>8, <2>1, <2>2, <2>3, <2>4, <2>5 DEF JobOK
<1>18. Jobs'
  <2>1. ASSUME NEW q \in Proc \ {p}, run'[q] # Idle
        PROVE  Undisturbed(q)
    BY <1>6, <1>8, <1>15, <1>16, <2>1 DEF Undisturbed
  <2> QED
    BY <1>7, <1>15, <1>17, <2>1, JobsKept
<1>19. Generated'
  <2>1. ~Waits(run'[p])
    BY <1>9, <1>11, <1>13, <1>15 DEF Waits, Inits
  <2>2. \A q \in Proc \ {p} : Waits(run'[q]) => Waits(run[q])
    BY <1>15 DEF Kept, Waits
  <2> QED
    BY <1>6, <1>7, <2>1, <2>2, GeneratedKept
<1>20. Types'
  <2>1. clobbered' \in BOOLEAN
    BY <1>6, <1>7 DEF Types
  <2> QED
    BY <1>6, <1>7, <1>15, <2>1 DEF Types
<1>21. HostIsForwarded'
  BY <1>6, <1>7, <1>8, <1>16 DEF HostIsForwarded
<1>22. Delivered' /\ OnePort(Load)'
  BY <1>6, <1>7, <1>8 DEF Delivered
<1> QED
  BY <1>18, <1>19, <1>20, <1>21, <1>22 DEF IInv

LEMMA AddForwardInv == ASSUME IInv, NEW p \in Proc, AddForward(p) PROVE IInv'
<1> DEFINE r == run[p]
           port == HostPort(r.cfg, r.host)
<1>1. r.step = "write-ssh" /\ r.step \in Step \cap HostSteps
  BY DEF AddForward, At, Step, HostSteps
<1>2. r \in Job /\ r.host \in Alias
  BY <1>1, JobAt
<1>3. r.file \in Seq(Lines) /\ port \in Port /\ ssh \in Seq(Lines) /\ whole \subseteq Alias
  BY <1>2, JobFields, ConfigFields DEF IInv, Types
<1>4. ~Conflicts(r.file, r.host, port)
  BY DEF AddForward
<1>5. PICK file : file = AddRemoteForward(r.file, r.host, port)
  OBVIOUS
<1>6. WriteAtomic(p, file) /\ At(p, "write-ssh")
  BY <1>5 DEF AddForward
<1>7. /\ file \in Seq(Lines) /\ HasRemoteForward(file, r.host, port)
      /\ UserSettings(file) = UserSettings(r.file)
  BY <1>2, <1>3, <1>4, <1>5, AddHas
<1>8. ASSUME r.file = Parse(ssh), NEW b \in whole, HasRemoteForward(ssh, b, Load.port)
      PROVE  HasRemoteForward(file, b, Load.port)
  <2>1. b \in Alias /\ HasRemoteForward(r.file, b, Load.port)
    BY <1>3, <1>8, ParseKeeps
  <2>2. PICK q : q = Load.port
    OBVIOUS
  <2>3. HasRemoteForward(file, b, q)
    BY <1>2, <1>3, <1>5, <2>1, <2>2, AddKeepsOwn, AddKeepsOthers
  <2> QED
    BY <2>2, <2>3
<1> QED
  BY <1>6, <1>7, <1>8, WriteInv

LEMMA RemoveForwardInv == ASSUME IInv, NEW p \in Proc, RemoveForward(p) PROVE IInv'
<1> DEFINE r == run[p]
           port == HostPort(r.cfg, r.host)
<1>1. r.step = "write-ssh" /\ r.step \in Step \cap HostSteps /\ r.cmd = "remove-host"
  BY DEF RemoveForward, At, Step, HostSteps
<1>2. r \in Job /\ r.host \in Alias /\ JobOK(r, Load, ssh, whole, tokenFile, remote)
  BY <1>1, JobAt
<1>3. r.file \in Seq(Lines) /\ port \in Port /\ ssh \in Seq(Lines) /\ whole \subseteq Alias
  BY <1>2, JobFields, ConfigFields DEF IInv, Types
<1>4. PICK file : file = RemoveRemoteForward(r.file, r.host, port)
  OBVIOUS
<1>5. WriteAtomic(p, file) /\ At(p, "write-ssh")
  BY <1>4 DEF RemoveForward
<1>6. file \in Seq(Lines) /\ UserSettings(file) = UserSettings(r.file)
  BY <1>2, <1>3, <1>4, RemoveKeeps
<1>7. ASSUME r.file = Parse(ssh), NEW b \in whole, HasRemoteForward(ssh, b, Load.port)
      PROVE  HasRemoteForward(file, b, Load.port)
  <2>1. b \in Alias \ {r.host} /\ HasRemoteForward(r.file, b, Load.port)
    BY <1>1, <1>2, <1>3, <1>7, ParseKeeps DEF JobOK, Forwarded
  <2> QED
    BY <1>2, <1>3, <1>4, <2>1, RemoveKeeps
<1> QED
  BY <1>1, <1>5, <1>6, <1>7, WriteInv

-----------------------------------------------------------------------------
(* The saves of the configuration.                                         *)

\* init saves the defaults: no host counts as installed.
LEMMA SaveDefaults ==
  ASSUME IInv, NEW p \in Proc, Save(p), run[p].cmd \in Inits
  PROVE  IInv'
<1> DEFINE r == run[p]
<1>1. r.step = "save" /\ r.step \in Step
  BY DEF Save, At, Step
<1>2. /\ r \in Job /\ Placed(r) /\ Suited(r) /\ r.host = None /\ OnePort(r.cfg) /\ r.cfg \in Config
  BY <1>1, JobAt, JobFields DEF JobOK, Suited, Current, Inits, Hostless
<1>3. PICK n : n = After(r)
  OBVIOUS
<1>4. PICK runs : runs = [run EXCEPT ![p] = n]
  OBVIOUS
<1>5. /\ config' = r.cfg /\ clobbered' = clobbered /\ whole' = {} /\ delivered' = delivered
      /\ run' = Outdate(runs, p, "config")
      /\ UNCHANGED <<keychain, tokenFile, service, ssh, remote, used, commands, faults>>
  <2>1. r.cmd \notin {"add-host", "update-token", "remove-host", "revoke"}
    BY DEF Inits
  <2>2. AfterCommand(r.cmd, r.cfg, r.host) = r.cfg
    BY <2>1 DEF AfterCommand
  <2>3. clobbered' = (clobbered \/ FALSE) /\ clobbered \in BOOLEAN
    BY <1>2 DEF Save, IInv, Types
  <2> QED
    BY <1>2, <1>3, <1>4, <2>1, <2>2, <2>3 DEF Save
<1>6. Types /\ Generated /\ Jobs /\ Delivered /\ run \in Runs
  BY DEF IInv, Types
<1>7. n = Idle \/ (Goes(r, n) /\ Suited(n))
  BY <1>2, <1>3, AfterIs, GoesSuited
<1>8. n \in Job \cup {Idle}
  BY <1>7 DEF Goes, Same
<1>9. /\ runs \in Runs /\ runs[p] = n /\ \A q \in Proc \ {p} : runs[q] = run[q]
  BY <1>4, <1>6, <1>8 DEF Runs
<1>10. /\ run' \in Runs /\ run'[p] = n
       /\ \A q \in Proc \ {p} : /\ Kept(run[q], run'[q])
                                /\ run'[q] # Idle => "config" \in run'[q].outdated
  <2>1. PICK g : g = Outdate(runs, p, "config")
    OBVIOUS
  <2>2. /\ g \in Runs /\ g[p] = n
        /\ \A q \in Proc \ {p} : Kept(run[q], g[q]) /\ (g[q] # Idle => "config" \in g[q].outdated)
    BY <1>9, <2>1, OutdateIs
  <2> QED
    BY <1>5, <2>1, <2>2
<1>11. OnePort(Load)'
  <2>1. Load' = r.cfg
    BY <1>2, <1>5, ConfigFields DEF Load
  <2> QED
    BY <1>2, <2>1
<1>12. ASSUME n # Idle
       PROVE  JobOK(n, Load', ssh', whole', tokenFile', remote')
  <2>1. Goes(r, n) /\ Suited(n) /\ Placed(n) /\ n.cmd = r.cmd /\ n.cfg = r.cfg
    BY <1>7, <1>12 DEF Goes, Same
  <2>2. n.step = "store"
    BY <1>1, <2>1 DEF Goes, Leads, Fixed, Inits
  <2>3. /\ Current(n, Load', ssh') /\ Forwarded(n, ssh', whole')
        /\ Delivers(n, tokenFile', remote')
    BY <1>2, <2>1, <2>2 DEF Current, Forwarded, Delivers, Inits
  <2> QED
    BY <2>1, <2>3 DEF JobOK
<1>13. Jobs'
  <2>1. ASSUME NEW q \in Proc \ {p}, run'[q] # Idle
        PROVE  Undisturbed(q)
    BY <1>5, <1>10, <2>1 DEF Undisturbed
  <2> QED
    BY <1>6, <1>10, <1>12, <2>1, JobsKept
<1>14. Generated'
  <2>1. Waits(run'[p]) => Waits(run[p])
    BY <1>1 DEF Waits
  <2>2. \A q \in Proc \ {p} : Waits(run'[q]) => Waits(run[q])
    BY <1>10 DEF Kept, Waits
  <2> QED
    BY <1>5, <1>6, <2>1, <2>2, GeneratedKept
<1>15. Types'
  BY <1>2, <1>5, <1>6, <1>10 DEF Types
<1>16. HostIsForwarded' /\ Delivered'
  BY <1>5, <1>6 DEF HostIsForwarded, Delivered
<1> QED
  BY <1>11, <1>13, <1>14, <1>15, <1>16 DEF IInv

\* What a save of a command on a host does to the hosts that count.
LEMMA SaveHistory ==
  ASSUME IInv, NEW p \in Proc, Save(p), run[p].cmd \in Hosted
  PROVE  /\ whole' \subseteq whole \cup {run[p].host}
         /\ run[p].host \in whole' =>
              \/ run[p].host \in whole
              \/ /\ run[p].cmd = "add-host" /\ run[p].outdated = {}
                 /\ Others(p, run[p].host) = {}
         /\ delivered' \subseteq delivered \cup {run[p].host}
         /\ run[p].host \in delivered' =>
              \/ run[p].host \in delivered
              \/ run[p].cmd \in {"add-host", "update-token"} /\ run[p].fresh
         /\ clobbered' = (clobbered \/ "config" \in run[p].outdated)
<1>1. run[p].host \in Alias /\ run[p].host # None /\ Types
  <2>1. run[p].step \in Step
    BY DEF Save, At, Step
  <2>2. run[p].host \in Alias
    BY <2>1, JobAt DEF Suited
  <2> QED
    BY <2>2, IdleFields DEF IInv
<1>2. clobbered' = (clobbered \/ "config" \in run[p].outdated)
  BY <1>1 DEF Save
<1> DEFINE h == run[p].host
           done == run[p].cmd = "add-host" /\ run[p].outdated = {} /\ Others(p, h) = {}
           gone == run[p].cmd = "update-token" /\ h \notin Hosts(run[p].cfg)
<1>3. /\ done => whole' = whole \cup {h}
      /\ ~done /\ gone => whole' = whole \ {h}
      /\ ~done /\ ~gone => whole' = whole
  BY <1>1 DEF Save
<1>4. delivered' = IF run[p].cmd \in {"add-host", "update-token"} /\ run[p].fresh
                   THEN delivered \cup {h} ELSE delivered
  BY DEF Save
<1> QED
  BY <1>2, <1>3, <1>4

LEMMA SaveHost ==
  ASSUME IInv, NEW p \in Proc, Save(p), run[p].cmd \in Hosted
  PROVE  IInv'
<1> DEFINE r == run[p]
           h == r.host
<1>1. r.step = "save" /\ r.step \in Step
  BY DEF Save, At, Step
<1>2. /\ r \in Job /\ Placed(r) /\ Suited(r) /\ h \in Alias
      /\ JobOK(r, Load, ssh, whole, tokenFile, remote)
  BY <1>1, JobAt DEF Suited
<1>3. After(r) = Idle
  BY <1>1, <1>2, LastIs DEF After, Hosted
<1>4. PICK c : c = AfterCommand(r.cmd, r.cfg, h)
  OBVIOUS
<1>5. PICK runs : runs = [run EXCEPT ![p] = Idle]
  OBVIOUS
<1>6. /\ config' = c
      /\ run' = Outdate(runs, p, "config")
      /\ UNCHANGED <<keychain, tokenFile, service, ssh, remote, used, commands, faults>>
  BY <1>3, <1>4, <1>5 DEF Save
<1>7. /\ whole' \subseteq whole \cup {h}
      /\ h \in whole' => \/ h \in whole
                         \/ r.cmd = "add-host" /\ r.outdated = {} /\ Others(p, h) = {}
      /\ delivered' \subseteq delivered \cup {h}
      /\ h \in delivered' => h \in delivered \/ (r.cmd \in {"add-host", "update-token"} /\ r.fresh)
      /\ clobbered' = (clobbered \/ "config" \in r.outdated)
  BY SaveHistory
<1>8. /\ Types /\ Generated /\ Jobs /\ Delivered /\ run \in Runs /\ HostIsForwarded
      /\ OnePort(Load)
  BY DEF IInv, Types
<1>9. r.cfg \in Config /\ OnePort(r.cfg) /\ ("config" \notin r.outdated => r.cfg = Load)
  BY <1>1, <1>2, JobFields DEF JobOK, Current, Hosted, Inits
<1> HIDE DEF r, h
<1>10. /\ c \in Config /\ OnePort(c) /\ c.port = r.cfg.port
       /\ \A b \in Alias \ {h} : c.hosts[b] = r.cfg.hosts[b]
       /\ r.cmd # "remove-host" => h \in Hosts(c)
  <2>1. r.cmd \in {"remove-host", "revoke"} => h \in Hosts(r.cfg)
    BY <1>2 DEF Suited, h
  <2>2. r.cmd \in Hosted
    BY DEF r
  <2> QED
    BY <1>2, <1>4, <1>9, <2>1, <2>2, AfterCommandIs
<1>11. Load' = c
  <2>1. c # None
    BY <1>10, ConfigFields
  <2> QED
    BY <1>6, <2>1 DEF Load
<1>12. /\ runs \in Runs /\ runs[p] = Idle /\ \A q \in Proc \ {p} : runs[q] = run[q]
  BY <1>5, <1>8 DEF Runs
<1>13. /\ run' \in Runs /\ run'[p] = Idle
       /\ \A q \in Proc \ {p} : /\ Kept(run[q], run'[q])
                                /\ run'[q] # Idle => "config" \in run'[q].outdated
  <2>1. PICK g : g = Outdate(runs, p, "config")
    OBVIOUS
  <2>2. /\ g \in Runs /\ g[p] = Idle
        /\ \A q \in Proc \ {p} : Kept(run[q], g[q]) /\ (g[q] # Idle => "config" \in g[q].outdated)
    BY <1>12, <2>1, OutdateIs
  <2> QED
    BY <1>6, <2>1, <2>2
<1>14. Jobs'
  <2>1. ASSUME NEW q \in Proc \ {p}, run'[q] # Idle
        PROVE  Undisturbed(q)
    <3>1. run[q].host \in whole' => run[q].host \in whole \/ (run[q].host = h /\ Others(p, h) = {})
      BY <1>7
    <3>2. run[q] # Idle
      BY <1>13, <2>1, IdleFields DEF Kept
    <3>3. run[q].host \in whole' => run[q].host \in whole
      BY <3>1, <3>2 DEF Others
    <3> QED
      BY <1>6, <1>13, <2>1, <3>3 DEF Undisturbed
  <2> QED
    BY <1>8, <1>13, <2>1, JobsKept
<1>15. Generated'
  <2>1. ~Waits(run'[p])
    BY <1>13, IdleFields DEF Waits, Inits, Command
  <2>2. \A q \in Proc \ {p} : Waits(run'[q]) => Waits(run[q])
    BY <1>13 DEF Kept, Waits
  <2> QED
    BY <1>6, <1>8, <2>1, <2>2, GeneratedKept
<1>16. Types'
  <2>1. whole' \subseteq Alias /\ delivered' \subseteq Alias /\ clobbered' \in BOOLEAN
    BY <1>2, <1>7, <1>8 DEF Types
  <2> QED
    BY <1>6, <1>8, <1>10, <1>13, <2>1 DEF Types
<1>17. Delivered'
  <2>1. ASSUME h \in delivered'
        PROVE  HasToken(h, tokenFile, remote)
    <3>1. CASE h \in delivered
      BY <1>8, <3>1 DEF Delivered
    <3>2. CASE r.cmd \in {"add-host", "update-token"} /\ r.fresh
      BY <1>1, <1>2, <3>2 DEF JobOK, Delivers, Copying, h
    <3> QED
      BY <1>7, <2>1, <3>1, <3>2
  <2>2. \A a \in delivered' : HasToken(a, tokenFile, remote)
    BY <1>7, <1>8, <2>1 DEF Delivered
  <2> QED
    BY <1>6, <2>2 DEF Delivered
<1>18. HostIsForwarded'
  <2> SUFFICES ASSUME ~clobbered', NEW b \in whole'
               PROVE  b \in Hosts(c) /\ HasRemoteForward(ssh, b, c.port)
    BY <1>6, <1>11 DEF HostIsForwarded
  <2>1. ~clobbered /\ r.cfg = Load /\ c.port = Load.port
    BY <1>7, <1>9, <1>10
  <2>2. b \in whole => b \in Hosts(r.cfg) /\ HasRemoteForward(ssh, b, c.port)
    BY <1>8, <2>1 DEF HostIsForwarded
  <2>3. CASE b # h
    BY <1>7, <1>10, <2>2, <2>3 DEF Hosts
  <2>4. CASE b = h
    <3>1. r.cmd # "remove-host"
      BY <1>2, <1>7, <2>4 DEF JobOK, Forwarded, h
    <3>2. b \in Hosts(c)
      BY <1>10, <2>4, <3>1
    <3>3. CASE b \notin whole
      <4>1. r.cmd = "add-host" /\ r.outdated = {}
        BY <1>7, <2>4, <3>3
      <4>2. HasRemoteForward(ssh, h, HostPort(r.cfg, h))
        BY <1>1, <1>2, <4>1 DEF JobOK, Forwarded, h
      <4>3. HostPort(r.cfg, h) = c.port
        BY <1>2, <1>9, <1>10, ConfigFields
      <4> QED
        BY <2>4, <3>2, <4>2, <4>3
    <3> QED
      BY <2>2, <3>2, <3>3
  <2> QED
    BY <2>3, <2>4
<1> QED
  BY <1>10, <1>11, <1>14, <1>15, <1>16, <1>17, <1>18 DEF IInv

LEMMA SaveInv == ASSUME IInv, NEW p \in Proc, Save(p) PROVE IInv'
<1>1. run[p].step = "save" /\ run[p].step \in Step
  BY DEF Save, At, Step
<1>2. run[p].cmd \in Inits \cup Hosted
  BY <1>1, JobAt DEF HasStep, Hosted, Inits
<1> QED
  BY <1>2, SaveDefaults, SaveHost

\* uninstall deletes configuration and token file: no host counts any more.
LEMMA DeleteConfigInv == ASSUME IInv, NEW p \in Proc, DeleteConfig(p) PROVE IInv'
<1> DEFINE r == run[p]
<1>1. r.step = "delete-config" /\ r.step \in Step
  BY DEF DeleteConfig, At, Step
<1>2. r \in Job /\ Placed(r) /\ HasStep(r.cmd, r.step)
  BY <1>1, JobAt
<1>3. PICK x : x = After(r)
  OBVIOUS
<1>4. x = Idle
  <2>1. r.cmd = "uninstall"
    BY <1>1, <1>2 DEF HasStep, Inits
  <2>2. ~Goes(r, x)
    BY <1>1, <2>1 DEF Goes, Leads, Fixed
  <2> QED
    BY <1>2, <1>3, <2>2, AfterIs
<1>5. PICK runs : runs = [run EXCEPT ![p] = x]
  OBVIOUS
<1>6. PICK old : old = Outdate(runs, p, "config")
  OBVIOUS
<1>7. /\ config' = None /\ tokenFile' = None /\ whole' = {} /\ delivered' = {}
      /\ run' = Stale(old)
      /\ UNCHANGED <<keychain, service, ssh, remote, used, commands, faults, clobbered>>
  BY <1>3, <1>5, <1>6 DEF DeleteConfig
<1>8. Types /\ Generated /\ Jobs /\ run \in Runs
  BY DEF IInv, Types
<1>9. runs \in Runs /\ runs[p] = Idle /\ \A q \in Proc \ {p} : runs[q] = run[q]
  BY <1>4, <1>5, <1>8 DEF Runs
<1>10. /\ old \in Runs /\ old[p] = Idle
       /\ \A q \in Proc \ {p} : /\ Kept(run[q], old[q])
                                /\ old[q] # Idle => "config" \in old[q].outdated
  BY <1>6, <1>9, OutdateIs
<1>11. /\ run' \in Runs
       /\ \A q \in Proc : Kept(old[q], run'[q]) /\ (run'[q] # Idle => ~run'[q].fresh)
  <2>1. PICK g : g = Stale(old)
    OBVIOUS
  <2>2. /\ g \in Runs
        /\ \A q \in Proc : Kept(old[q], g[q]) /\ (g[q] # Idle => ~g[q].fresh)
    BY <1>10, <2>1, StaleIs
  <2> QED
    BY <1>7, <2>1, <2>2
<1>12. run'[p] = Idle
  BY <1>10, <1>11, IdleFields DEF Kept
<1>13. ASSUME NEW q \in Proc \ {p}
       PROVE  /\ Kept(run[q], run'[q])
              /\ run'[q] # Idle => "config" \in run'[q].outdated /\ ~run'[q].fresh
  <2>1. Kept(run[q], old[q]) /\ Kept(old[q], run'[q])
    BY <1>10, <1>11
  <2>2. Kept(run[q], run'[q])
    BY <2>1, IdleFields DEF Kept
  <2>3. run'[q] # Idle => old[q] # Idle /\ old[q].outdated \subseteq run'[q].outdated
    BY <2>1, IdleFields DEF Kept
  <2> QED
    BY <1>10, <1>11, <2>2, <2>3
<1>14. Jobs'
  <2>1. ASSUME NEW q \in Proc \ {p}, run'[q] # Idle
        PROVE  Undisturbed(q)
    BY <1>7, <1>13, <2>1 DEF Undisturbed
  <2> QED
    BY <1>8, <1>11, <1>12, <2>1, JobsKept
<1>15. Generated'
  <2>1. ~Waits(run'[p])
    BY <1>12, IdleFields DEF Waits, Inits, Command
  <2>2. \A q \in Proc \ {p} : Waits(run'[q]) => Waits(run[q])
    BY <1>13 DEF Kept, Waits
  <2> QED
    BY <1>7, <1>8, <2>1, <2>2, GeneratedKept
<1>16. Types'
  BY <1>7, <1>8, <1>11 DEF Types
<1>17. OnePort(Load)'
  <2>1. Load' = Default(DefaultPort)
    BY <1>7 DEF Load
  <2>2. OnePort(Default(DefaultPort))
    BY DefaultIs, SetupAssumption
  <2> QED
    BY <2>1, <2>2
<1>18. HostIsForwarded' /\ Delivered'
  BY <1>7 DEF HostIsForwarded, Delivered
<1> QED
  BY <1>14, <1>15, <1>16, <1>17, <1>18 DEF IInv

\* The first file of the directory goes.
LEMMA RemoveEntryInv == ASSUME IInv, NEW p \in Proc, RemoveEntry(p) PROVE IInv'
<1>1. run[p].step = "delete-config" /\ run[p].step \in Step
  BY DEF RemoveEntry, At, Step
<1>2. /\ run[p] \in Job /\ Placed(run[p]) /\ Suited(run[p])
      /\ JobOK(run[p], Load, ssh, whole, tokenFile, remote) /\ HasStep(run[p].cmd, run[p].step)
  BY <1>1, JobAt
<1>3. PICK old : old = Outdate(run, p, "config")
  OBVIOUS
<1>4. /\ config' = config \/ config' = None
      /\ tokenFile' = tokenFile \/ tokenFile' = None
      /\ whole' = {} /\ delivered' = {}
      /\ run' = Stale(old)
      /\ UNCHANGED <<keychain, service, ssh, remote, used, commands, faults, clobbered>>
  BY <1>3 DEF RemoveEntry
<1>5. Types /\ Generated /\ Jobs /\ run \in Runs
  BY DEF IInv, Types
<1>6. /\ old \in Runs /\ old[p] = run[p]
      /\ \A q \in Proc \ {p} : /\ Kept(run[q], old[q])
                               /\ old[q] # Idle => "config" \in old[q].outdated
  BY <1>3, <1>5, OutdateIs
<1>7. /\ run' \in Runs
      /\ \A q \in Proc : Kept(old[q], run'[q]) /\ (run'[q] # Idle => ~run'[q].fresh)
  <2>1. PICK g : g = Stale(old)
    OBVIOUS
  <2>2. /\ g \in Runs
        /\ \A q \in Proc : Kept(old[q], g[q]) /\ (g[q] # Idle => ~g[q].fresh)
    BY <1>6, <2>1, StaleIs
  <2> QED
    BY <1>4, <2>1, <2>2
<1>8. ASSUME NEW q \in Proc \ {p}
      PROVE  /\ Kept(run[q], run'[q])
             /\ run'[q] # Idle => "config" \in run'[q].outdated /\ ~run'[q].fresh
  <2>1. Kept(run[q], old[q]) /\ Kept(old[q], run'[q])
    BY <1>6, <1>7
  <2>2. Kept(run[q], run'[q])
    BY <2>1, IdleFields DEF Kept
  <2>3. run'[q] # Idle => old[q] # Idle /\ old[q].outdated \subseteq run'[q].outdated
    BY <2>1, IdleFields DEF Kept
  <2> QED
    BY <1>6, <1>7, <2>2, <2>3
<1>9. /\ Kept(run[p], run'[p]) /\ run'[p] \in Job /\ ~run'[p].fresh
      /\ run'[p].cmd = run[p].cmd /\ run'[p].step = run[p].step /\ run'[p].left = run[p].left
      /\ run'[p].host = run[p].host /\ run'[p].cfg = run[p].cfg /\ run'[p].todo = run[p].todo
      /\ run'[p].fixes = run[p].fixes
  <2>1. Kept(run[p], run'[p])
    BY <1>6, <1>7
  <2>2. run[p] # Idle
    BY <1>2, IdleFields
  <2>3. run'[p] \in Job /\ run'[p] # Idle
    BY <2>1, <2>2, IdleFields DEF Kept
  <2> QED
    BY <1>7, <2>1, <2>2, <2>3 DEF Kept
<1>10. JobOK(run'[p], Load', ssh', whole', tokenFile', remote')
  <2>1. run[p].cmd = "uninstall"
    BY <1>1, <1>2 DEF HasStep, Inits
  <2>2. Placed(run'[p]) /\ Suited(run'[p])
    BY <1>2, <1>9, PlacedSame DEF Suited
  <2>3. Current(run'[p], Load', ssh')
    BY <1>1, <1>2, <1>9 DEF JobOK, Current
  <2>4. /\ Forwarded(run'[p], ssh', whole') /\ Delivers(run'[p], tokenFile', remote')
    BY <1>9, <2>1 DEF Forwarded, Delivers
  <2> QED
    BY <2>2, <2>3, <2>4 DEF JobOK
<1>11. Jobs'
  <2>1. ASSUME NEW q \in Proc \ {p}, run'[q] # Idle
        PROVE  Undisturbed(q)
    BY <1>4, <1>8, <2>1 DEF Undisturbed
  <2> QED
    BY <1>5, <1>7, <1>10, <2>1, JobsKept
<1>12. Generated'
  <2>1. \A q \in Proc \ {p} : Waits(run'[q]) => Waits(run[q])
    BY <1>8 DEF Kept, Waits
  <2>2. Waits(run'[p]) => Waits(run[p])
    BY <1>9 DEF Waits
  <2> QED
    BY <1>4, <1>5, <2>1, <2>2, GeneratedKept
<1>13. Types'
  BY <1>4, <1>5, <1>7 DEF Types
<1>14. OnePort(Load)'
  <2>1. Load' = Default(DefaultPort) \/ Load' = Load
    BY <1>4 DEF Load
  <2>2. OnePort(Default(DefaultPort)) /\ OnePort(Load)
    BY DefaultIs, SetupAssumption DEF IInv
  <2> QED
    BY <2>1, <2>2
<1>15. HostIsForwarded' /\ Delivered'
  BY <1>4 DEF HostIsForwarded, Delivered
<1> QED
  BY <1>11, <1>12, <1>13, <1>14, <1>15 DEF IInv

-----------------------------------------------------------------------------
(* A command starts.                                                       *)

\* The plans with which they do.
LEMMA StartPlans ==
  /\ \A cmd \in Inits : LET plan == <<"save", "store", "install-unit", "start">>
                        IN  IsPlan(plan, cmd) /\ plan \in Seq(Step) /\ plan # <<>> /\ plan[1] = "save"
  /\ LET plan == Append(InstallPlan, "save")
     IN  IsPlan(plan, "add-host") /\ plan \in Seq(Step) /\ plan # <<>> /\ plan[1] = "copy-binary"
  /\ LET plan == Append(TokenPlan, "save")
     IN  IsPlan(plan, "update-token") /\ plan \in Seq(Step) /\ plan # <<>> /\ plan[1] = "copy-token"
  /\ LET plan == Append(UninstallPlan, "save")
     IN  IsPlan(plan, "remove-host") /\ plan \in Seq(Step) /\ plan # <<>> /\ plan[1] = "rm-binary"
  /\ LET plan == <<"save">>
     IN  IsPlan(plan, "revoke") /\ plan \in Seq(Step) /\ plan # <<>> /\ plan[1] = "save"
  /\ LET plan == <<"store">>
     IN  IsPlan(plan, "rotate-token") /\ plan \in Seq(Step) /\ plan # <<>> /\ plan[1] = "store"
  /\ LET plan == <<"stop", "remove-unit", "delete-token">>
     IN  /\ IsPlan(plan, "uninstall-keep-config") /\ plan \in Seq(Step) /\ plan # <<>>
         /\ plan[1] = "stop"
  /\ LET plan == Append(<<"stop", "remove-unit", "delete-token">>, "delete-config")
     IN  IsPlan(plan, "uninstall") /\ plan \in Seq(Step) /\ plan # <<>> /\ plan[1] = "stop"
  /\ \A cmd \in {"start", "stop", "restart"} :
       IsPlan(<<cmd>>, cmd) /\ <<cmd>> \in Seq(Step) /\ <<cmd>> # <<>> /\ <<cmd>>[1] = cmd
  /\ LET plan == <<"check-keychain", "check-host">>
     IN  /\ IsPlan(plan, "doctor-fix") /\ plan \in Seq(Step) /\ plan # <<>>
         /\ plan[1] = "check-keychain"
<1>1. /\ \A s \in Step : <<s>> \in Seq(Step) /\ <<s>> # <<>> /\ <<s>>[1] = s
      /\ \A s, t \in Step : <<s, t>> \in Seq(Step) /\ <<s, t>> # <<>> /\ <<s, t>>[1] = s
      /\ \A s, t, u \in Step : <<s, t, u>> \in Seq(Step) /\ <<s, t, u>> # <<>> /\ <<s, t, u>>[1] = s
      /\ \A s, t, u, v \in Step : /\ <<s, t, u, v>> \in Seq(Step) /\ <<s, t, u, v>> # <<>>
                                  /\ <<s, t, u, v>>[1] = s
  OBVIOUS
<1>2. /\ "save" \in Step /\ "store" \in Step /\ "install-unit" \in Step /\ "start" \in Step
      /\ "copy-binary" \in Step /\ "make-executable" \in Step /\ "copy-token" \in Step
      /\ "private" \in Step /\ "verify" \in Step /\ "copy-skill" \in Step
      /\ "read-ssh" \in Step /\ "write-ssh" \in Step /\ "rm-binary" \in Step
      /\ "rm-token" \in Step /\ "rm-skill" \in Step /\ "stop" \in Step /\ "restart" \in Step
      /\ "remove-unit" \in Step /\ "delete-token" \in Step /\ "delete-config" \in Step
      /\ "check-host" \in Step /\ "check-keychain" \in Step
  BY DEF Step
<1>3. InstallPlan \in Seq(Step) /\ TokenPlan \in Seq(Step) /\ UninstallPlan \in Seq(Step)
  BY <1>2 DEF InstallPlan, TokenPlan, UninstallPlan
<1>4. /\ \A s \in Seq(Step), t \in Step : Append(s, t) \in Seq(Step)
      /\ Len(<<>>) = 0
  OBVIOUS
<1>5. \A cmd \in Inits : IsPlan(<<"save", "store", "install-unit", "start">>, cmd)
  BY DEF IsPlan
<1>6. LET plan == Append(InstallPlan, "save")
      IN  IsPlan(plan, "add-host") /\ plan \in Seq(Step) /\ plan # <<>> /\ plan[1] = "copy-binary"
  <2>1. PICK plan : plan = Append(InstallPlan, "save")
    OBVIOUS
  <2>2. plan \in Seq(Step) /\ Len(plan) = 9 /\ plan[1] = "copy-binary"
    BY <1>2, <1>3, <1>4, <2>1, LongPlans
  <2>3. plan # <<>>
    <3>1. Len(plan) # Len(<<>>)
      BY ONLY <1>4, <2>2
    <3> QED
      BY ONLY <3>1
  <2>4. IsPlan(plan, "add-host")
    BY <2>1 DEF IsPlan
  <2> QED
    BY <2>1, <2>2, <2>3, <2>4
<1>7. LET plan == Append(TokenPlan, "save")
      IN  IsPlan(plan, "update-token") /\ plan \in Seq(Step) /\ plan # <<>> /\ plan[1] = "copy-token"
  <2>1. PICK plan : plan = Append(TokenPlan, "save")
    OBVIOUS
  <2>2. plan \in Seq(Step) /\ Len(plan) = 4 /\ plan[1] = "copy-token"
    BY <1>2, <1>3, <1>4, <2>1, LongPlans
  <2>3. plan # <<>>
    <3>1. Len(plan) # Len(<<>>)
      BY ONLY <1>4, <2>2
    <3> QED
      BY ONLY <3>1
  <2>4. IsPlan(plan, "update-token")
    BY <2>1 DEF IsPlan
  <2> QED
    BY <2>1, <2>2, <2>3, <2>4
<1>8. LET plan == Append(UninstallPlan, "save")
      IN  IsPlan(plan, "remove-host") /\ plan \in Seq(Step) /\ plan # <<>> /\ plan[1] = "rm-binary"
  <2>1. PICK plan : plan = Append(UninstallPlan, "save")
    OBVIOUS
  <2>2. plan \in Seq(Step) /\ Len(plan) = 6 /\ plan[1] = "rm-binary"
    BY <1>2, <1>3, <1>4, <2>1, LongPlans
  <2>3. plan # <<>>
    <3>1. Len(plan) # Len(<<>>)
      BY ONLY <1>4, <2>2
    <3> QED
      BY ONLY <3>1
  <2>4. IsPlan(plan, "remove-host")
    BY <2>1 DEF IsPlan
  <2> QED
    BY <2>1, <2>2, <2>3, <2>4
<1>9. LET plan == Append(<<"stop", "remove-unit", "delete-token">>, "delete-config")
      IN  IsPlan(plan, "uninstall") /\ plan \in Seq(Step) /\ plan # <<>> /\ plan[1] = "stop"
  <2>1. \A s : s = Append(<<"stop", "remove-unit", "delete-token">>, "delete-config")
                 => Len(s) = 4 /\ s[1] = "stop"
    OBVIOUS
  <2>2. <<"stop", "remove-unit", "delete-token">> \in Seq(Step)
    BY <1>1, <1>2
  <2> QED
    BY <1>2, <1>4, <2>1, <2>2 DEF IsPlan
<1>10. /\ IsPlan(<<"save">>, "revoke") /\ IsPlan(<<"store">>, "rotate-token")
       /\ IsPlan(<<"stop", "remove-unit", "delete-token">>, "uninstall-keep-config")
       /\ \A cmd \in {"start", "stop", "restart"} : IsPlan(<<cmd>>, cmd)
       /\ IsPlan(<<"check-keychain", "check-host">>, "doctor-fix")
  BY DEF IsPlan
<1>11. \A cmd \in Inits : LET plan == <<"save", "store", "install-unit", "start">>
                          IN  IsPlan(plan, cmd) /\ plan \in Seq(Step) /\ plan # <<>> /\ plan[1] = "save"
  BY <1>1, <1>2, <1>5
<1>12. /\ LET plan == <<"save">>
          IN  IsPlan(plan, "revoke") /\ plan \in Seq(Step) /\ plan # <<>> /\ plan[1] = "save"
       /\ LET plan == <<"store">>
          IN  IsPlan(plan, "rotate-token") /\ plan \in Seq(Step) /\ plan # <<>> /\ plan[1] = "store"
       /\ \A cmd \in {"start", "stop", "restart"} :
            IsPlan(<<cmd>>, cmd) /\ <<cmd>> \in Seq(Step) /\ <<cmd>> # <<>> /\ <<cmd>>[1] = cmd
  BY <1>1, <1>2, <1>10
<1>13. /\ LET plan == <<"stop", "remove-unit", "delete-token">>
          IN  /\ IsPlan(plan, "uninstall-keep-config") /\ plan \in Seq(Step) /\ plan # <<>>
              /\ plan[1] = "stop"
       /\ LET plan == <<"check-keychain", "check-host">>
          IN  /\ IsPlan(plan, "doctor-fix") /\ plan \in Seq(Step) /\ plan # <<>>
              /\ plan[1] = "check-keychain"
  BY <1>1, <1>2, <1>10
<1> QED
  BY <1>6, <1>7, <1>8, <1>9, <1>11, <1>12, <1>13

LEMMA StartInv ==
  ASSUME IInv, NEW p \in Proc, NEW cmd \in Command, NEW alias \in Alias \cup {None},
         NEW cfg \in Config, NEW plan \in Seq(Step), Start(p, cmd, alias, cfg, plan),
         plan # <<>>, IsPlan(plan, cmd),
         whole' = whole \/ (cmd = "remove-host" /\ whole' = whole \ {alias}),
         OnePort(cfg), cfg = Load \/ cmd \in Inits,
         cmd \in Inits => Hosts(cfg) = {},
         cmd \in Hostless \cup {"doctor-fix"} => alias = None,
         cmd \in Hosted => alias \in Alias,
         cmd \in {"remove-host", "revoke"} => alias \in Hosts(cfg),
         cmd = "remove-host" => alias \notin whole',
         cmd = "add-host" => plan[1] = "copy-binary",
         cmd = "update-token" => plan[1] = "copy-token",
         cmd \notin {"add-host", "update-token"} => plan[1] # "write-ssh",
         cmd = "doctor-fix" => plan[1] = "check-keychain"
  PROVE  IInv'
<1>1. /\ Types /\ Generated /\ Jobs /\ OnePort(Load) /\ HostIsForwarded /\ Delivered
      /\ run \in Runs
  BY DEF IInv, Types
<1>2. PICK calm \in BOOLEAN : calm = (Running = {})
  OBVIOUS
<1>3. PICK x : x = [Idle EXCEPT !.cmd = cmd, !.step = Head(plan), !.left = Tail(plan),
                                !.host = alias, !.cfg = cfg, !.calm = calm]
  OBVIOUS
<1>4. /\ run[p] = Idle /\ commands < MaxCommands /\ commands' = commands + 1
      /\ UNCHANGED <<config, keychain, tokenFile, service, ssh, remote, used, faults, delivered,
                     clobbered>>
      /\ run' = [q \in Proc |-> IF q = p THEN x ELSE
                   IF run[q] = Idle THEN Idle ELSE [run[q] EXCEPT !.calm = FALSE]]
  BY <1>2, <1>3 DEF Start, local
<1>5. /\ Head(plan) = plan[1] /\ Head(plan) \in Step /\ Tail(plan) \in Seq(Step)
      /\ Len(plan) \in Nat \ {0} /\ Len(Tail(plan)) = Len(plan) - 1
      /\ \A i \in 1..Len(plan) - 1 : Tail(plan)[i] = plan[i + 1]
  BY HeadTail
<1>6. /\ x.cmd = cmd /\ x.step = plan[1] /\ x.left = Tail(plan) /\ x.host = alias /\ x.cfg = cfg
      /\ x.file = <<>> /\ x.todo = {} /\ x.fixes = <<>> /\ x.outdated = {} /\ x.calm = calm
      /\ x.fresh = TRUE /\ x \in Job
  <2>1. x = [cmd |-> cmd, step |-> plan[1], left |-> Tail(plan), host |-> alias, cfg |-> cfg,
             file |-> <<>>, todo |-> {}, fixes |-> <<>>, outdated |-> {}, calm |-> calm,
             fresh |-> TRUE]
    BY <1>3, <1>5 DEF Idle
  <2>2. <<>> \in Seq(Lines) /\ <<>> \in Seq(Fixes)
    OBVIOUS
  <2> QED
    BY <1>2, <1>5, <2>1, <2>2 DEF Job
<1>7. Placed(x)
  <2>1. 1 \in 1..Len(plan) /\ \A i \in 1..Len(plan) - 1 : x.left[i] = plan[1 + i]
    BY <1>5, <1>6
  <2> QED
    BY <1>5, <1>6, <2>1 DEF Placed
<1>8. Suited(x)
  BY <1>6 DEF Suited
<1>9. Load' = Load
  BY <1>4 DEF Load
<1>10. JobOK(x, Load, ssh, whole', tokenFile, remote)
  <2>1. HasStep(cmd, plan[1]) /\ (cmd = "add-host" => plan[1] = "copy-binary")
    BY <1>6, <1>7, PlacedHas
  <2>2. plan[1] # "write-ssh"
    BY <1>5
  <2>3. Current(x, Load, ssh)
    BY <1>6, <2>2 DEF Current
  <2>4. Forwarded(x, ssh, whole')
    BY <1>6 DEF Forwarded
  <2>5. Delivers(x, tokenFile, remote)
    BY <1>6 DEF Delivers, Copying
  <2> QED
    BY <1>7, <1>8, <2>3, <2>4, <2>5 DEF JobOK
<1>11. ASSUME NEW q \in Proc \ {p}
       PROVE  Kept(run[q], run'[q]) /\ run'[q] \in Job \cup {Idle}
  <2>1. CASE run[q] = Idle
    BY <1>4, <2>1 DEF Kept
  <2>2. CASE run[q] # Idle
    <3> DEFINE r == run[q]
    <3>1. run'[q] = [r EXCEPT !.calm = FALSE] /\ r \in Job
      BY <1>1, <1>4, <2>2 DEF Runs
    <3> HIDE DEF r
    <3>2. /\ run'[q] \in Job /\ run'[q].outdated = r.outdated
          /\ run'[q].cmd = r.cmd /\ run'[q].step = r.step /\ run'[q].left = r.left
          /\ run'[q].host = r.host /\ run'[q].cfg = r.cfg /\ run'[q].file = r.file
          /\ run'[q].todo = r.todo /\ run'[q].fixes = r.fixes /\ run'[q].fresh = r.fresh
          /\ run'[q].calm = FALSE
      BY <3>1 DEF Job
    <3>3. Kept(r, run'[q])
      BY <3>1, <3>2 DEF Kept
    <3> QED
      BY <3>2, <3>3 DEF r
  <2> QED
    BY <2>1, <2>2
<1>12. run' \in Runs /\ run'[p] = x
  <2>1. run' = [q \in Proc |-> run'[q]] /\ run'[p] = x
    BY <1>4
  <2>2. \A q \in Proc : run'[q] \in Job \cup {Idle}
    BY <1>6, <1>11, <2>1
  <2> QED
    BY <2>1, <2>2 DEF Runs
<1>13. whole' \subseteq whole
  OBVIOUS
<1>14. Jobs'
  <2>1. ASSUME NEW q \in Proc \ {p}, run'[q] # Idle
        PROVE  Undisturbed(q)
    BY <1>4, <1>9, <1>11, <1>13 DEF Undisturbed
  <2>2. JobOK(run'[p], Load', ssh', whole', tokenFile', remote')
    BY <1>4, <1>9, <1>10, <1>12
  <2> QED
    BY <1>1, <1>12, <2>1, <2>2, JobsKept
<1>15. Generated'
  <2>1. \A q \in Proc \ {p} : Waits(run'[q]) => Waits(run[q])
    BY <1>11 DEF Kept, Waits
  <2> QED
    BY <1>1, <1>4, <2>1, GeneratedStarted
<1>16. Types'
  <2>1. commands' \in 0..MaxCommands
    <3>1. PICK k : k = commands + 1
      OBVIOUS
    <3>2. k \in 0..MaxCommands
      BY <1>1, <1>4, <3>1, SetupAssumption DEF Types
    <3> QED
      BY <1>4, <3>1, <3>2
  <2> QED
    BY <1>1, <1>4, <1>12, <1>13, <2>1 DEF Types
<1>17. HostIsForwarded' /\ OnePort(Load)' /\ Delivered'
  BY <1>1, <1>4, <1>9, <1>13 DEF HostIsForwarded, Delivered
<1> QED
  BY <1>14, <1>15, <1>16, <1>17 DEF IInv

LEMMA LoadFields == ASSUME IInv PROVE Load \in Config /\ OnePort(Load) /\ Hosts(Load) \subseteq Alias
  BY LoadIs, ConfigFields DEF IInv, Types

LEMMA RunInitInv ==
  ASSUME IInv, NEW p \in Proc, NEW keychainless \in BOOLEAN, NEW port \in Port,
         RunInit(p, keychainless, port)
  PROVE  IInv'
<1>1. PICK plan : plan = <<"save", "store", "install-unit", "start">>
  OBVIOUS
<1>2. PICK cmd \in Inits : Start(p, cmd, None, Default(port), plan) /\ whole' = whole
  BY <1>1 DEF RunInit, Inits
<1>3. IsPlan(plan, cmd) /\ plan \in Seq(Step) /\ plan # <<>> /\ plan[1] = "save"
  BY <1>1, StartPlans
<1>4. cmd \in Command /\ cmd \in Hostless /\ cmd \notin Hosted \cup {"doctor-fix"}
  BY DEF Inits, Command, Hostless, Hosted
<1>5. PICK cfg \in Config : cfg = Default(port) /\ OnePort(cfg) /\ Hosts(cfg) = {}
  BY DefaultIs
<1>6. Start(p, cmd, None, cfg, plan)
  BY <1>2, <1>5
<1> QED
  BY <1>2, <1>3, <1>4, <1>5, <1>6, StartInv DEF Hosted

\* A command that loads the configuration.
LEMMA LoadedInv ==
  ASSUME IInv, NEW p \in Proc, NEW cmd \in Command \ Inits, NEW alias \in Alias \cup {None},
         NEW plan \in Seq(Step), Start(p, cmd, alias, Load, plan),
         plan # <<>>, IsPlan(plan, cmd),
         whole' = whole \/ (cmd = "remove-host" /\ whole' = whole \ {alias}),
         cmd \in Hostless \cup {"doctor-fix"} => alias = None,
         cmd \in Hosted => alias \in Alias,
         cmd \in {"remove-host", "revoke"} => alias \in Hosts(Load),
         cmd = "remove-host" => alias \notin whole',
         cmd = "add-host" => plan[1] = "copy-binary",
         cmd = "update-token" => plan[1] = "copy-token",
         cmd \notin {"add-host", "update-token"} => plan[1] # "write-ssh",
         cmd = "doctor-fix" => plan[1] = "check-keychain"
  PROVE  IInv'
<1>1. PICK cfg : cfg = Load
  OBVIOUS
<1>2. cfg \in Config /\ OnePort(cfg)
  BY <1>1, LoadFields
<1>3. cmd \in {"remove-host", "revoke"} => alias \in Hosts(cfg)
  BY <1>1
<1>4. Start(p, cmd, alias, cfg, plan)
  BY <1>1
<1> QED
  BY <1>1, <1>2, <1>3, <1>4, StartInv

LEMMA CommandKinds ==
  /\ Hosted \subseteq Command \ Inits /\ "doctor-fix" \in Command \ Inits
  /\ {"rotate-token", "uninstall", "uninstall-keep-config", "start", "stop", "restart"}
       \subseteq (Command \ Inits) \cap Hostless
  /\ Hosted \cap (Hostless \cup {"doctor-fix"}) = {} /\ "doctor-fix" \notin Hosted
  /\ {"add-host", "update-token", "remove-host", "revoke"} = Hosted
  BY DEF Hosted, Hostless, Inits, Command

LEMMA RunAddHostInv ==
  ASSUME IInv, NEW p \in Proc, NEW alias \in Alias, NEW tokenOnly \in BOOLEAN,
         RunAddHost(p, alias, tokenOnly)
  PROVE  IInv'
<1>1. CASE tokenOnly
  <2>1. PICK plan : plan = Append(TokenPlan, "save")
    OBVIOUS
  <2>2. Start(p, "update-token", alias, Load, plan) /\ whole' = whole
    BY <1>1, <2>1 DEF RunAddHost
  <2>3. /\ IsPlan(plan, "update-token") /\ plan \in Seq(Step) /\ plan # <<>>
        /\ plan[1] = "copy-token"
    BY <2>1, StartPlans
  <2> QED
    BY <2>2, <2>3, LoadedInv, CommandKinds
<1>2. CASE ~tokenOnly
  <2>1. PICK plan : plan = Append(InstallPlan, "save")
    OBVIOUS
  <2>2. Start(p, "add-host", alias, Load, plan) /\ whole' = whole
    BY <1>2, <2>1 DEF RunAddHost
  <2>3. /\ IsPlan(plan, "add-host") /\ plan \in Seq(Step) /\ plan # <<>>
        /\ plan[1] = "copy-binary"
    BY <2>1, StartPlans
  <2> QED
    BY <2>2, <2>3, LoadedInv, CommandKinds
<1> QED
  BY <1>1, <1>2

LEMMA RunRemoveHostInv ==
  ASSUME IInv, NEW p \in Proc, NEW alias \in Alias, RunRemoveHost(p, alias)
  PROVE  IInv'
<1>1. PICK plan : plan = Append(UninstallPlan, "save")
  OBVIOUS
<1>2. /\ Start(p, "remove-host", alias, Load, plan) /\ alias \in Hosts(Load)
      /\ whole' = whole \ {alias}
  BY <1>1 DEF RunRemoveHost
<1>3. /\ IsPlan(plan, "remove-host") /\ plan \in Seq(Step) /\ plan # <<>>
      /\ plan[1] = "rm-binary"
  BY <1>1, StartPlans
<1> QED
  BY <1>2, <1>3, LoadedInv, CommandKinds

LEMMA RunRevokeInv ==
  ASSUME IInv, NEW p \in Proc, NEW alias \in Alias, RunRevoke(p, alias)
  PROVE  IInv'
<1>1. PICK plan : plan = <<"save">>
  OBVIOUS
<1>2. Start(p, "revoke", alias, Load, plan) /\ alias \in Hosts(Load) /\ whole' = whole
  BY <1>1 DEF RunRevoke
<1>3. IsPlan(plan, "revoke") /\ plan \in Seq(Step) /\ plan # <<>> /\ plan[1] = "save"
  BY <1>1, StartPlans
<1> QED
  BY <1>2, <1>3, LoadedInv, CommandKinds

LEMMA RunHostlessInv ==
  ASSUME IInv, NEW p \in Proc,
         \/ RunRotateToken(p)
         \/ RunDoctor(p)
         \/ \E keepConfig \in BOOLEAN : RunUninstall(p, keepConfig)
  PROVE  IInv'
<1>1. PICK cmd \in {"rotate-token", "uninstall", "uninstall-keep-config", "doctor-fix"} :
      \E plan :
        /\ Start(p, cmd, None, Load, plan) /\ whole' = whole
        /\ IsPlan(plan, cmd) /\ plan \in Seq(Step) /\ plan # <<>> /\ plan[1] # "write-ssh"
        /\ cmd = "doctor-fix" => plan[1] = "check-keychain"
  <2>1. CASE RunRotateToken(p)
    <3>1. PICK plan : plan = <<"store">>
      OBVIOUS
    <3>2. Start(p, "rotate-token", None, Load, plan) /\ whole' = whole
      BY <2>1, <3>1 DEF RunRotateToken
    <3>3. /\ IsPlan(plan, "rotate-token") /\ plan \in Seq(Step) /\ plan # <<>>
          /\ plan[1] = "store"
      BY <3>1, StartPlans
    <3> QED
      BY <3>2, <3>3
  <2>2. CASE RunDoctor(p)
    <3>1. PICK plan : plan = <<"check-keychain", "check-host">>
      OBVIOUS
    <3>2. Start(p, "doctor-fix", None, Load, plan) /\ whole' = whole
      BY <2>2, <3>1 DEF RunDoctor
    <3>3. /\ IsPlan(plan, "doctor-fix") /\ plan \in Seq(Step) /\ plan # <<>>
          /\ plan[1] = "check-keychain"
      BY <3>1, StartPlans
    <3> QED
      BY <3>2, <3>3
  <2>3. CASE RunUninstall(p, TRUE)
    <3>1. PICK plan : plan = <<"stop", "remove-unit", "delete-token">>
      OBVIOUS
    <3>2. Start(p, "uninstall-keep-config", None, Load, plan) /\ whole' = whole
      BY <2>3, <3>1 DEF RunUninstall
    <3>3. /\ IsPlan(plan, "uninstall-keep-config") /\ plan \in Seq(Step) /\ plan # <<>>
          /\ plan[1] = "stop"
      BY <3>1, StartPlans
    <3> QED
      BY <3>2, <3>3
  <2>4. CASE RunUninstall(p, FALSE)
    <3>1. PICK plan : plan = Append(<<"stop", "remove-unit", "delete-token">>, "delete-config")
      OBVIOUS
    <3>2. Start(p, "uninstall", None, Load, plan) /\ whole' = whole
      BY <2>4, <3>1 DEF RunUninstall
    <3>3. /\ IsPlan(plan, "uninstall") /\ plan \in Seq(Step) /\ plan # <<>>
          /\ plan[1] = "stop"
      BY <3>1, StartPlans
    <3> QED
      BY <3>2, <3>3
  <2> QED
    BY <2>1, <2>2, <2>3, <2>4
<1>2. cmd \in Command \ Inits /\ cmd \in Hostless \cup {"doctor-fix"} /\ cmd \notin Hosted
  BY <1>1, CommandKinds
<1> QED
  BY <1>1, <1>2, LoadedInv, CommandKinds

LEMMA RunServiceInv ==
  ASSUME IInv, NEW p \in Proc, NEW cmd \in {"start", "stop", "restart"}, RunService(p, cmd)
  PROVE  IInv'
<1>1. PICK plan : plan = <<cmd>>
  OBVIOUS
<1>2. Start(p, cmd, None, Load, plan) /\ whole' = whole
  BY <1>1 DEF RunService
<1>3. IsPlan(plan, cmd) /\ plan \in Seq(Step) /\ plan # <<>> /\ plan[1] = cmd
  BY <1>1, StartPlans
<1>4. cmd \in Command \ Inits /\ cmd \in Hostless /\ cmd \notin Hosted
  BY CommandKinds
<1> QED
  BY <1>2, <1>3, <1>4, LoadedInv, CommandKinds

-----------------------------------------------------------------------------
(* The invariant.                                                          *)

LEMMA NobodyWaits ==
  ASSUME run = [p \in Proc |-> Idle]
  PROVE  Waiting = {} /\ run \in Runs /\ Jobs
<1>1. Waiting = {}
  BY IdleFields DEF Waiting, Waits, Inits, Command
<1> QED
  BY <1>1 DEF Runs, Jobs

LEMMA InitInv == Init => IInv
<1> SUFFICES ASSUME Init
             PROVE  IInv
  OBVIOUS
<1>1. /\ keychain \in [here : BOOLEAN, token : Token \cup {None, Torn}]
      /\ run = [p \in Proc |-> Idle] /\ commands = 0 /\ faults = 0 /\ clobbered = FALSE
  BY SetupAssumption DEF Init
<1>2. Waiting = {} /\ run \in Runs /\ Jobs
  BY <1>1, NobodyWaits
<1>3. 0 \in 0..MaxCommands /\ 0 \in 0..MaxFaults /\ {0, 1} \subseteq 0..MaxCommands + 1 /\ 1 \in Token
  BY SetupAssumption DEF Token
<1>4. used \in {0, 1} => Generated
  <2>1. IsFiniteSet(Waiting) /\ Cardinality(Waiting) = 0
    BY <1>2, FS_EmptySet
  <2> QED
    BY <1>1, <2>1 DEF Generated
<1>5. CASE /\ config = None /\ tokenFile = None /\ used = 0
           /\ service = [unit |-> FALSE, port |-> None]
           /\ ssh \in InitialFile
           /\ remote = [a \in Alias |-> Nothing]
           /\ whole = {} /\ delivered = {}
  <2>1. Nothing \in Installed
    BY DEF Nothing, Installed
  <2>2. Types
    <3>1. service \in [unit : BOOLEAN, port : Port \cup {None}] /\ remote \in [Alias -> Installed]
      BY <1>5, <2>1
    <3>2. ssh \in Seq(Lines)
      BY <1>5, SetupAssumption
    <3> QED
      BY <1>1, <1>2, <1>3, <1>5, <3>1, <3>2 DEF Types
  <2>3. OnePort(Load)
    BY <1>5, DefaultIs, SetupAssumption DEF Load
  <2>4. HostIsForwarded /\ Delivered
    BY <1>5 DEF HostIsForwarded, Delivered
  <2> QED
    BY <1>2, <1>4, <1>5, <2>2, <2>3, <2>4 DEF IInv
<1>6. ASSUME NEW a \in Alias, NEW listed \in {{}, {"read"}}, NEW file \in InitialFile,
             ~Conflicts(file, a, DefaultPort),
             config = [Default(DefaultPort) EXCEPT
                         !.hosts[a] = [port |-> DefaultPort, permissions |-> listed]],
             tokenFile = 1, used = 1,
             service = [unit |-> TRUE, port |-> DefaultPort],
             ssh = AddRemoteForward(Parse(file), a, DefaultPort),
             remote = [b \in Alias |-> IF b # a THEN Nothing ELSE
                         [binary |-> "executable", token |-> 1, open |-> FALSE, skill |-> TRUE]],
             whole = {a}, delivered = {a}
      PROVE  IInv
  <2>1. PICK h : h = [port |-> DefaultPort, permissions |-> listed]
    OBVIOUS
  <2>2. h \in Host /\ h # None /\ h.port = DefaultPort
    BY <2>1, SetupAssumption DEF Host, Permission
  <2>3. PICK d : d = Default(DefaultPort)
    OBVIOUS
  <2>4. /\ d \in Config /\ Hosts(d) = {} /\ d.port = DefaultPort
        /\ config = [d EXCEPT !.hosts[a] = h]
    BY <1>6, <2>1, <2>3, DefaultIs, SetupAssumption
  <2>5. /\ config \in Config /\ config.port = DefaultPort /\ config.hosts[a] = h
        /\ \A b \in Alias \ {a} : config.hosts[b] = d.hosts[b]
    BY <2>2, <2>4 DEF Config
  <2>6. Hosts(config) = {a} /\ OnePort(config)
    BY <2>2, <2>4, <2>5 DEF Hosts, OnePort
  <2>7. Load = config
    BY <2>5, ConfigFields DEF Load
  <2>8. file \in Seq(Lines) /\ Parse(file) \in Seq(Lines) /\ ~Conflicts(Parse(file), a, DefaultPort)
    BY <1>6, SetupAssumption, ParseKeeps
  <2>9. ssh \in Seq(Lines) /\ HasRemoteForward(ssh, a, DefaultPort)
    BY <1>6, <2>8, AddHas, SetupAssumption
  <2>10. PICK y : y = [binary |-> "executable", token |-> 1, open |-> FALSE, skill |-> TRUE]
    OBVIOUS
  <2>11. y \in Installed /\ y.token = 1 /\ Nothing \in Installed
    BY <1>3, <2>10 DEF Installed, Nothing
  <2>12. remote \in [Alias -> Installed] /\ remote[a].token = 1
    <3>1. remote = [b \in Alias |-> IF b # a THEN Nothing ELSE y]
      BY <1>6, <2>10
    <3> QED
      BY <2>11, <3>1
  <2>13. Types
    <3>1. service \in [unit : BOOLEAN, port : Port \cup {None}]
      BY <1>6, SetupAssumption
    <3> QED
      BY <1>1, <1>2, <1>3, <1>6, <2>5, <2>9, <2>12, <3>1 DEF Types
  <2>14. HostIsForwarded
    BY <1>6, <2>5, <2>6, <2>7, <2>9 DEF HostIsForwarded
  <2>15. Delivered
    <3>1. 1 # None
      BY SetupAssumption
    <3> QED
      BY <1>6, <2>12, <3>1 DEF Delivered, HasToken
  <2> QED
    BY <1>2, <1>4, <1>6, <2>6, <2>7, <2>13, <2>14, <2>15 DEF IInv
<1> QED
  BY <1>5, <1>6 DEF Init

LEMMA NextInv == IInv /\ [Next]_vars => IInv'
<1> SUFFICES ASSUME IInv, [Next]_vars
             PROVE  IInv'
  OBVIOUS
<1>1. CASE UNCHANGED vars
  <2>1. UNCHANGED <<config, keychain, tokenFile, service, ssh, remote, used, run, commands, faults,
                    whole, delivered, clobbered>>
    BY <1>1 DEF vars, local, history
  <2>2. Types' /\ Load' = Load
    BY <2>1 DEF IInv, Types, Load
  <2>3. Generated'
    BY <2>1 DEF IInv, Generated, Waiting
  <2>4. Jobs'
    BY <2>1, <2>2 DEF IInv, Jobs
  <2>5. HostIsForwarded' /\ Delivered' /\ OnePort(Load)'
    BY <2>1, <2>2 DEF IInv, HostIsForwarded, Delivered
  <2> QED
    BY <2>2, <2>3, <2>4, <2>5 DEF IInv
<1>2. ASSUME NEW p \in Proc, NEW alias \in Alias,
             \/ \E tokenOnly \in BOOLEAN : RunAddHost(p, alias, tokenOnly)
             \/ RunRemoveHost(p, alias)
             \/ RunRevoke(p, alias)
      PROVE  IInv'
  BY <1>2, RunAddHostInv, RunRemoveHostInv, RunRevokeInv
<1>3. ASSUME NEW p \in Proc,
             \/ \E keychainless \in BOOLEAN, port \in Port : RunInit(p, keychainless, port)
             \/ RunRotateToken(p)
             \/ RunDoctor(p)
             \/ \E keepConfig \in BOOLEAN : RunUninstall(p, keepConfig)
             \/ \E cmd \in {"start", "stop", "restart"} : RunService(p, cmd)
      PROVE  IInv'
  BY <1>3, RunInitInv, RunHostlessInv, RunServiceInv
<1>4. ASSUME NEW p \in Proc,
             \/ CopyBinary(p)
             \/ MakeExecutable(p)
             \/ CopyToken(p)
             \/ Private(p)
             \/ Verify(p)
             \/ CopySkill(p)
             \/ Remove(p)
      PROVE  IInv'
  BY <1>4, CopyBinaryInv, MakeExecutableInv, CopyTokenInv, PrivateInv, VerifyInv, CopySkillInv,
     RemoveInv
<1>5. ASSUME NEW p \in Proc,
             \/ ReadSSH(p)
             \/ AddForward(p)
             \/ RemoveForward(p)
             \/ Save(p)
             \/ Truncate(p)
             \/ Store(p)
             \/ DeleteToken(p)
             \/ RemoveEntry(p)
             \/ DeleteConfig(p)
      PROVE  IInv'
  BY <1>5, ReadSSHInv, AddForwardInv, RemoveForwardInv, SaveInv, TruncateInv, StoreInv,
     DeleteTokenInv, RemoveEntryInv, DeleteConfigInv
<1>6. ASSUME NEW p \in Proc,
             \/ InstallUnit(p)
             \/ StartService(p)
             \/ RestartService(p)
             \/ StopService(p)
             \/ RemoveUnit(p)
      PROVE  IInv'
  BY <1>6, ServiceInv
<1>7. ASSUME NEW p \in Proc,
             \/ CheckKeychain(p)
             \/ CheckHost(p)
             \/ FixKeychain(p)
             \/ Fail(p)
             \/ BreakOff(p)
             \/ Kill(p)
      PROVE  IInv'
  BY <1>7, CheckKeychainInv, CheckHostInv, FixKeychainInv, FailInv, BreakOffInv, KillInv
<1> QED
  BY <1>1, <1>2, <1>3, <1>4, <1>5, <1>6, <1>7 DEF Next

\* IInv holds in every state.
THEOREM Invariance == Spec => []IInv
  BY InitInv, NextInv, PTL DEF Spec

LEMMA TypesOK == IInv => TypeOK
<1> SUFFICES ASSUME IInv
             PROVE  TypeOK
  OBVIOUS
<1>1. Types
  BY DEF IInv
<1>2. Seq(Fixes) \subseteq Seq(Seq(Step))
  <2>1. Fixes \subseteq Seq(Step)
    BY FixIs
  <2> QED
    BY <2>1
<1>3. ASSUME NEW p \in Proc, run[p] # Idle
      PROVE  /\ run[p].cmd \in Command /\ run[p].step \in Step
             /\ run[p].host \in Alias \cup {None}
             /\ run[p].cfg \in Config \cup {None}
             /\ \A i \in DOMAIN run[p].file : run[p].file[i] \in Lines
             /\ run[p].todo \subseteq Alias \cup {None}
             /\ run[p].left \in Seq(Step) /\ run[p].fixes \in Seq(Seq(Step))
             /\ run[p].outdated \subseteq {"config", "ssh"}
             /\ run[p].calm \in BOOLEAN /\ run[p].fresh \in BOOLEAN
  <2>1. run[p] \in Job
    BY <1>1, <1>3 DEF Types, Runs
  <2> QED
    BY <1>2, <2>1, JobFields
<1>4. \A i \in DOMAIN ssh : ssh[i] \in Lines
  BY <1>1 DEF Types
<1> QED
  BY <1>1, <1>3, <1>4 DEF Types, TypeOK

\* Type correctness, and that there are no more tokens than commands (TokenStore.Store is
\* called once by init and once by rotate-token).
THEOREM TypeCorrectness == Spec => []TypeOK
  BY Invariance, TypesOK, PTL

\* However many commands load, change and save whole files at once, fail or are killed: as
\* long as none has written a file over a change that it had not read, a host installed in
\* full is configured and forwarded (config.Load and Save, sshconfig.WriteAtomic).
THEOREM InstalledHostIsForwarded == Spec => []HostIsForwarded
<1>1. IInv => HostIsForwarded
  BY DEF IInv
<1> QED
  BY <1>1, Invariance, PTL

LEMMA AcceptedIs == IInv => DeliveredTokenIsAccepted
<1> SUFFICES ASSUME IInv, ~keychain.here, NEW h \in delivered
             PROVE  Accepts(remote[h].token)
  BY DEF DeliveredTokenIsAccepted
<1>1. HasToken(h, tokenFile, remote)
  BY DEF IInv, Delivered
<1>2. Retrieve = tokenFile
  BY DEF Retrieve
<1> QED
  BY <1>1, <1>2 DEF HasToken, Accepts

\* On a machine without a keychain, the token on a host that add-host has served since the
\* token last changed is the one validateAuth accepts, also when other commands rotate,
\* delete, copy or tear tokens meanwhile (Store, Retrieve, installTokenOnly).
THEOREM DeliveredIsAccepted == Spec => []DeliveredTokenIsAccepted
  BY Invariance, AcceptedIs, PTL

-----------------------------------------------------------------------------
(* What a step may never do.                                               *)

\* The steps that change ~/.ssh/config.
LEMMA FileChanges ==
  ASSUME [Next]_vars
  PROVE  \/ ssh' = ssh
         \/ \E p \in Proc : AddForward(p) \/ RemoveForward(p)
<1>1. CASE UNCHANGED vars
  BY <1>1 DEF vars, local
<1>2. ASSUME NEW p \in Proc, NEW alias \in Alias,
             \/ \E tokenOnly \in BOOLEAN : RunAddHost(p, alias, tokenOnly)
             \/ RunRemoveHost(p, alias)
             \/ RunRevoke(p, alias)
      PROVE  ssh' = ssh
  BY <1>2 DEF RunAddHost, RunRemoveHost, RunRevoke, Start, local
<1>3. ASSUME NEW p \in Proc,
             \/ \E keychainless \in BOOLEAN, port \in Port : RunInit(p, keychainless, port)
             \/ RunRotateToken(p)
             \/ RunDoctor(p)
             \/ \E keepConfig \in BOOLEAN : RunUninstall(p, keepConfig)
             \/ \E cmd \in {"start", "stop", "restart"} : RunService(p, cmd)
      PROVE  ssh' = ssh
  BY <1>3 DEF RunInit, RunRotateToken, RunDoctor, RunUninstall, RunService, Start, local
<1>4. ASSUME NEW p \in Proc,
             \/ CopyBinary(p)
             \/ MakeExecutable(p)
             \/ CopyToken(p)
             \/ Private(p)
             \/ Verify(p)
             \/ CopySkill(p)
             \/ Remove(p)
             \/ ReadSSH(p)
      PROVE  ssh' = ssh
  BY <1>4 DEF CopyBinary, MakeExecutable, CopyToken, Private, Verify, CopySkill, Remove, ReadSSH,
              local
<1>5. ASSUME NEW p \in Proc,
             \/ Save(p)
             \/ Truncate(p)
             \/ Store(p)
             \/ DeleteToken(p)
             \/ RemoveEntry(p)
             \/ DeleteConfig(p)
             \/ InstallUnit(p)
             \/ StartService(p)
             \/ RestartService(p)
             \/ StopService(p)
             \/ RemoveUnit(p)
             \/ FixKeychain(p)
      PROVE  ssh' = ssh
  BY <1>5 DEF Save, Truncate, Store, DeleteToken, RemoveEntry, DeleteConfig, InstallUnit,
              StartService, RestartService, StopService, RemoveUnit, Service, FixKeychain
<1>6. ASSUME NEW p \in Proc,
             \/ CheckKeychain(p)
             \/ CheckHost(p)
             \/ Fail(p)
             \/ BreakOff(p)
             \/ Kill(p)
      PROVE  ssh' = ssh
  BY <1>6 DEF CheckKeychain, CheckHost, Fail, BreakOff, Kill, local
<1> QED
  BY <1>1, <1>2, <1>3, <1>4, <1>5, <1>6 DEF Next

LEMMA SettingsStay ==
  ASSUME IInv, [Next]_vars
  PROVE  UserSettings(ssh') = UserSettings(ssh)
<1>1. ASSUME NEW p \in Proc, AddForward(p) \/ RemoveForward(p)
      PROVE  UserSettings(ssh') = UserSettings(ssh)
  <2> DEFINE r == run[p]
             port == HostPort(r.cfg, r.host)
  <2>1. r.step = "write-ssh" /\ r.step \in Step \cap HostSteps
    BY <1>1 DEF AddForward, RemoveForward, At, Step, HostSteps
  <2>2. r \in Job /\ r.host \in Alias /\ JobOK(r, Load, ssh, whole, tokenFile, remote)
    BY <2>1, JobAt
  <2>3. r.file \in Seq(Lines) /\ port \in Port
    BY <2>2, JobFields, ConfigFields
  <2>4. UserSettings(r.file) = UserSettings(ssh)
    BY <2>1, <2>2 DEF JobOK, Current
  <2>5. CASE AddForward(p)
    <3>1. ssh' = AddRemoteForward(r.file, r.host, port) /\ ~Conflicts(r.file, r.host, port)
      BY <2>5 DEF AddForward, WriteAtomic
    <3> QED
      BY <2>2, <2>3, <2>4, <3>1, AddHas
  <2>6. CASE RemoveForward(p)
    <3>1. ssh' = RemoveRemoteForward(r.file, r.host, port)
      BY <2>6 DEF RemoveForward, WriteAtomic
    <3> QED
      BY <2>2, <2>3, <2>4, <3>1, RemoveKeeps
  <2> QED
    BY <1>1, <2>5, <2>6
<1> QED
  BY <1>1, FileChanges

\* The user's own settings in ~/.ssh/config stay as they are, in their order and under their
\* headers, for every file, every number of commands and every interleaving of their reads
\* and writes of it (hostinstall.addSSHConfig and removeSSHConfig, sshconfig/editor.go).
THEOREM SettingsNeverChange == Spec => UserSettingsKept
<1>1. IInv /\ [Next]_vars => [UserSettings(ssh') = UserSettings(ssh)]_ssh
  BY SettingsStay
<1> QED
  BY <1>1, Invariance, PTL DEF Spec, UserSettingsKept

-----------------------------------------------------------------------------
(* Commands that run alone.                                                *)

\* The forward of host h is in file s, or doctor leaves the conflict to the user.
Reached(cfg, h, s) == HasRemoteForward(s, h, HostPort(cfg, h)) \/ Conflicts(s, h, HostPort(cfg, h))

Good(cfg, h, s, m) ==
  m[h].binary = "executable" /\ ~m[h].open /\ m[h].skill /\ Reached(cfg, h, s)

\* What add-host has done when it has come to a step.
AfterBinary  == {"copy-token", "private", "verify", "copy-skill", "read-ssh", "write-ssh", "save"}
AfterToken   == AfterBinary \ {"copy-token"}
AfterPrivate == AfterToken \ {"private"}
AfterSkill   == {"read-ssh", "write-ssh", "save"}

Adding(r, s, m) ==
  LET h == r.host
  IN /\ r.step \in AfterBinary \cup {"make-executable"} => m[h].binary # "none"
     /\ r.step \in AfterBinary => m[h].binary = "executable"
     /\ r.step \in AfterToken => m[h].token # None
     /\ r.step \in AfterPrivate => ~m[h].open
     /\ r.step \in AfterSkill => m[h].skill
     /\ r.step = "save" => /\ HasRemoteForward(s, h, HostPort(r.cfg, h))
                           /\ ~Conflicts(s, h, HostPort(r.cfg, h))

\* What a host lacks, doctor is fixing or has still to fix.
Fixing(r, s, m) ==
  LET h == r.host
  IN /\ \/ Reached(r.cfg, h, s)
        \/ Pending(r, FixForward)
        \/ r.step \in {"read-ssh", "write-ssh"}
     /\ \/ m[h].binary = "executable"
        \/ Pending(r, FixBinary)
        \/ r.step = "copy-binary"
        \/ r.step = "make-executable" /\ m[h].binary # "none"
     /\ ~m[h].open \/ Pending(r, FixTokenPerms) \/ r.step = "private"
     /\ m[h].skill \/ Pending(r, FixSkill) \/ r.step = "copy-skill"
     /\ r.step = "check-host" => r.fixes = <<>>

\* The hosts that doctor has done are good.
Doctoring(r, s, m) ==
  r.step # "check-keychain" =>
    /\ \A h \in Hosts(r.cfg) \ (r.todo \cup {r.host}) : Good(r.cfg, h, s, m)
    /\ r.host \in Hosts(r.cfg) \ r.todo => Fixing(r, s, m)

CalmOK(r, s, m) ==
  /\ r.outdated = {}
  /\ r.cmd = "add-host" => Adding(r, s, m)
  /\ r.cmd = "doctor-fix" => Doctoring(r, s, m)

\* A token that is not there is not open to others.
Closed(m) == \A h \in Alias : m[h].token = None => ~m[h].open

CalmInv ==
  /\ Closed(remote)
  /\ \A p \in Proc : run[p] # Idle /\ run[p].calm =>
       CalmOK(run[p], ssh, remote) /\ \A q \in Proc \ {p} : run[q] = Idle

\* A step of p leaves the others where they are.
Steady(p) == \A q \in Proc \ {p} : Kept(run[q], run'[q])

LEMMA CalmKept ==
  ASSUME CalmInv, NEW p \in Proc, run[p] # Idle, Steady(p), Closed(remote'),
         run'[p] # Idle /\ run'[p].calm => run[p].calm /\ CalmOK(run'[p], ssh', remote')
  PROVE  CalmInv'
<1>1. ASSUME NEW q \in Proc, run'[q] # Idle, run'[q].calm
      PROVE  CalmOK(run'[q], ssh', remote') /\ \A o \in Proc \ {q} : run'[o] = Idle
  <2>1. CASE q = p
    <3>1. \A o \in Proc \ {p} : run[o] = Idle
      BY <1>1, <2>1 DEF CalmInv
    <3>2. \A o \in Proc \ {p} : run'[o] = Idle
      BY <3>1, IdleFields DEF Steady, Kept
    <3> QED
      BY <1>1, <2>1, <3>2
  <2>2. CASE q # p
    <3>1. run[q] # Idle /\ run[q].calm
      BY <1>1, <2>2, IdleFields DEF Steady, Kept
    <3>2. run[p] = Idle
      BY <2>2, <3>1 DEF CalmInv
    <3> QED
      BY <3>2
  <2> QED
    BY <2>1, <2>2
<1> QED
  BY <1>1 DEF CalmInv

\* A step leaves b installed where a was: it keeps what was done, and does its own part.
Done(step, a, b) ==
  /\ step = "copy-binary" => b.binary # "none"
  /\ step = "make-executable" => b.binary = "executable"
  /\ step = "copy-token" => b.token # None
  /\ step = "private" => ~b.open
  /\ step = "copy-skill" => b.skill
  /\ a.binary # "none" => b.binary # "none"
  /\ a.binary = "executable" => b.binary = "executable"
  /\ a.token # None => b.token # None
  /\ b.open => a.open \/ step = "copy-token"
  /\ a.skill => b.skill

LEMMA AddingGoes ==
  ASSUME NEW r, NEW n, NEW s, NEW m, NEW s2, NEW m2,
         r.cmd = "add-host", HasStep(r.cmd, r.step),
         n.host = r.host, n.cfg = r.cfg, Leads(r.cmd, r.step, n.step),
         Adding(r, s, m), Done(r.step, m[r.host], m2[r.host]),
         r.step = "write-ssh" => /\ HasRemoteForward(s2, r.host, HostPort(r.cfg, r.host))
                                 /\ ~Conflicts(s2, r.host, HostPort(r.cfg, r.host))
  PROVE  Adding(n, s2, m2)
<1>1. \/ r.step = "copy-binary" /\ n.step = "make-executable"
      \/ r.step = "make-executable" /\ n.step = "copy-token"
      \/ r.step = "copy-token" /\ n.step = "private"
      \/ r.step = "private" /\ n.step = "verify"
      \/ r.step = "verify" /\ n.step = "copy-skill"
      \/ r.step = "copy-skill" /\ n.step = "read-ssh"
      \/ r.step = "read-ssh" /\ n.step = "write-ssh"
      \/ r.step = "write-ssh" /\ n.step = "save"
      \/ n.step = "store"
  BY DEF Leads, HasStep, Inits
<1>2. /\ n.step = "save" => r.step = "write-ssh"
      /\ n.step \in AfterBinary \cup {"make-executable"} =>
           r.step \in AfterBinary \cup {"make-executable", "copy-binary"}
      /\ n.step \in AfterBinary => r.step \in AfterBinary \cup {"make-executable"}
      /\ n.step \in AfterToken => r.step \in AfterToken \cup {"copy-token"}
      /\ n.step \in AfterPrivate =>
           r.step \in AfterPrivate \cup {"private"} /\ r.step # "copy-token"
      /\ n.step \in AfterSkill => r.step \in AfterSkill \cup {"copy-skill"}
  BY <1>1 DEF AfterBinary, AfterToken, AfterPrivate, AfterSkill
<1> QED
  BY <1>2 DEF Adding, Done

LEMMA FixesAre ==
  /\ FixForward \in Fixes /\ FixBinary \in Fixes /\ FixTokenPerms \in Fixes /\ FixSkill \in Fixes
  /\ FirstOf(FixForward) = "read-ssh" /\ FirstOf(FixBinary) = "copy-binary"
  /\ FirstOf(FixTokenPerms) = "private" /\ FirstOf(FixSkill) = "copy-skill"
<1>1. /\ FixForward[1] = "read-ssh" /\ FixBinary[1] = "copy-binary"
      /\ FixTokenPerms[1] = "private" /\ FixSkill[1] = "copy-skill"
  BY DEF FixForward, FixBinary, FixTokenPerms, FixSkill
<1>2. /\ FixBinary # FixForward /\ FixTokenPerms # FixForward /\ FixSkill # FixForward
      /\ FixTokenPerms # FixBinary /\ FixSkill # FixBinary /\ FixSkill # FixTokenPerms
  BY <1>1
<1> QED
  BY <1>2 DEF Fixes, FirstOf

\* Within a fix, and from one to the next.
LEMMA FixingGoes ==
  ASSUME NEW r, NEW n, NEW s, NEW m, NEW s2, NEW m2,
         r.cmd = "doctor-fix", n.host = r.host, n.cfg = r.cfg,
         \/ /\ Leads(r.cmd, r.step, n.step) /\ n.fixes = r.fixes
            /\ n.step \notin {"copy-token", "save"}
         \/ Fixed(r, n) /\ r.step \notin {"read-ssh", "copy-binary"},
         r.step \notin {"copy-token", "check-keychain"},
         Fixing(r, s, m), Done(r.step, m[r.host], m2[r.host]),
         Reached(r.cfg, r.host, s) \/ r.step = "write-ssh" => Reached(r.cfg, r.host, s2)
  PROVE  Fixing(n, s2, m2)
<1>1. CASE Leads(r.cmd, r.step, n.step) /\ n.fixes = r.fixes /\ n.step \notin {"copy-token", "save"}
  <2>1. \A fix : Pending(r, fix) => Pending(n, fix)
    BY <1>1 DEF Pending
  <2>2. \/ Reached(n.cfg, n.host, s2)
        \/ Pending(n, FixForward)
        \/ n.step \in {"read-ssh", "write-ssh"}
    BY <1>1, <2>1 DEF Leads, Fixing
  <2>3. \/ m2[n.host].binary = "executable"
        \/ Pending(n, FixBinary)
        \/ n.step = "copy-binary"
        \/ n.step = "make-executable" /\ m2[n.host].binary # "none"
    BY <1>1, <2>1 DEF Leads, Fixing, Done
  <2>4. ~m2[n.host].open \/ Pending(n, FixTokenPerms) \/ n.step = "private"
    BY <1>1, <2>1 DEF Leads, Fixing, Done
  <2>5. m2[n.host].skill \/ Pending(n, FixSkill) \/ n.step = "copy-skill"
    BY <1>1, <2>1 DEF Leads, Fixing, Done
  <2>6. n.step # "check-host"
    BY <1>1 DEF Leads
  <2> QED
    BY <2>2, <2>3, <2>4, <2>5, <2>6 DEF Fixing
<1>2. CASE Fixed(r, n) /\ r.step \notin {"read-ssh", "copy-binary"}
  <2>1. \A fix \in Fixes : Pending(r, fix) => Pending(n, fix) \/ n.step = FirstOf(fix)
    <3>1. CASE r.fixes = <<>>
      BY <3>1 DEF Pending
    <3> QED
      BY <1>2, <3>1 DEF Fixed
  <2>2. \/ Reached(n.cfg, n.host, s2)
        \/ Pending(n, FixForward)
        \/ n.step \in {"read-ssh", "write-ssh"}
    BY <1>2, <2>1, FixesAre DEF Fixing
  <2>3. \/ m2[n.host].binary = "executable"
        \/ Pending(n, FixBinary)
        \/ n.step = "copy-binary"
    BY <1>2, <2>1, FixesAre DEF Fixing, Done
  <2>4. ~m2[n.host].open \/ Pending(n, FixTokenPerms) \/ n.step = "private"
    BY <1>2, <2>1, FixesAre DEF Fixing, Done
  <2>5. m2[n.host].skill \/ Pending(n, FixSkill) \/ n.step = "copy-skill"
    BY <1>2, <2>1, FixesAre DEF Fixing, Done
  <2>6. n.step = "check-host" => n.fixes = <<>>
    BY <1>2 DEF Fixed, FixSteps
  <2> QED
    BY <2>2, <2>3, <2>4, <2>5, <2>6 DEF Fixing
<1> QED
  BY <1>1, <1>2

\* A fix of two steps goes on to its second.
LEMMA FirstStepLeads ==
  ASSUME NEW r \in Job, Placed(r), r.cmd = "doctor-fix", r.step \in {"read-ssh", "copy-binary"},
         NEW n, n = After(r)
  PROVE  Leads(r.cmd, r.step, n.step) /\ n.fixes = r.fixes
<1>1. PICK plan \in Seq(Step) : \E k \in 1..Len(plan) :
        /\ IsPlan(plan, r.cmd) /\ r.step = plan[k] /\ Len(r.left) = Len(plan) - k
  BY DEF Placed
<1>2. PICK k \in 1..Len(plan) : r.step = plan[k] /\ Len(r.left) = Len(plan) - k
  BY <1>1
<1>3. \/ plan = <<"read-ssh", "write-ssh">> \/ plan = <<"copy-binary", "make-executable">>
      \/ plan = <<"private">> \/ plan = <<"copy-skill">> \/ plan = <<"fix-keychain">>
      \/ plan = <<"check-keychain", "check-host">>
  BY <1>1 DEF IsPlan, Inits, Fixes, FixForward, FixBinary, FixTokenPerms, FixSkill
<1>4. Len(plan) = 2 /\ k = 1
  <2>1. \/ plan = <<"read-ssh", "write-ssh">>
        \/ plan = <<"copy-binary", "make-executable">>
    BY <1>2, <1>3
  <2> QED
    BY <1>2, <2>1
<1>5. r.left # <<>>
  <2>1. Len(r.left) # 0
    BY <1>2, <1>4
  <2> QED
    BY <2>1
<1>6. n = [r EXCEPT !.step = Head(r.left), !.left = Tail(r.left)]
  BY <1>5 DEF After
<1> QED
  BY <1>5, <1>6, PlacedLeft

\* What CalmOK speaks of is the same.
Alike(n, x) ==
  /\ x \in Job /\ x.cmd = n.cmd /\ x.step = n.step /\ x.host = n.host /\ x.cfg = n.cfg
  /\ x.todo = n.todo /\ x.fixes = n.fixes /\ x.calm = n.calm /\ x.outdated \subseteq n.outdated

\* What a step that succeeds does for CalmOK.
Progress(r, s, m, s2, m2) ==
  /\ Done(r.step, m[r.host], m2[r.host])
  /\ \A b \in Alias \ {r.host} : m2[b] = m[b]
  /\ \A b \in Alias \ {r.host} : Reached(r.cfg, b, s) => Reached(r.cfg, b, s2)
  /\ Reached(r.cfg, r.host, s) => Reached(r.cfg, r.host, s2)
  /\ r.step = "write-ssh" => /\ HasRemoteForward(s2, r.host, HostPort(r.cfg, r.host))
                             /\ r.cmd = "add-host" =>
                                  ~Conflicts(s2, r.host, HostPort(r.cfg, r.host))

LEMMA ProgressCalm ==
  ASSUME NEW r \in Job, Placed(r), r.step \notin {"check-keychain", "check-host"},
         NEW n, n = After(r), NEW x, Alike(n, x),
         NEW s, NEW m, CalmOK(r, s, m),
         NEW s2, NEW m2, r.cmd \in {"add-host", "doctor-fix"} => Progress(r, s, m, s2, m2)
  PROVE  CalmOK(x, s2, m2)
<1>1. Goes(r, n)
  <2>1. n # Idle
    BY IdleFields, JobFields DEF Alike
  <2> QED
    BY <2>1, AfterIs
<1>2. /\ Same(r, n) /\ Placed(n) /\ HasStep(r.cmd, r.step) /\ HasStep(n.cmd, n.step)
  BY <1>1, PlacedHas DEF Goes, Same
<1>3. x.cmd = r.cmd /\ x.host = r.host /\ x.cfg = r.cfg /\ x.todo = r.todo
  BY <1>2 DEF Same, Alike
<1>4. x.outdated = {}
  BY <1>2 DEF Same, Alike, CalmOK
<1>5. ASSUME r.cmd = "add-host"
      PROVE  Adding(x, s2, m2)
  <2>1. Leads(r.cmd, r.step, x.step)
    BY <1>1, <1>5 DEF Goes, Fixed, Alike
  <2>2. Adding(r, s, m)
    BY <1>5 DEF CalmOK
  <2>3. Progress(r, s, m, s2, m2)
    BY <1>5
  <2> QED
    BY <1>2, <1>3, <1>5, <2>1, <2>2, <2>3, AddingGoes DEF Progress
<1>6. ASSUME r.cmd = "doctor-fix"
      PROVE  Doctoring(x, s2, m2)
  <2>1. /\ \A h \in Hosts(r.cfg) \ (r.todo \cup {r.host}) : Good(r.cfg, h, s, m)
        /\ r.host \in Hosts(r.cfg) \ r.todo => Fixing(r, s, m)
    BY <1>6 DEF CalmOK, Doctoring
  <2>2. Progress(r, s, m, s2, m2)
    BY <1>6
  <2>3. \A h \in Hosts(r.cfg) \ (r.todo \cup {r.host}) : Good(r.cfg, h, s2, m2)
    BY <2>1, <2>2 DEF Progress, Good, Hosts
  <2>4. \/ /\ Leads(r.cmd, r.step, x.step) /\ x.fixes = r.fixes
           /\ x.step \notin {"copy-token", "save"}
        \/ Fixed(r, x) /\ r.step \notin {"read-ssh", "copy-binary"}
    <3>1. n.step \notin {"copy-token", "save"}
      BY <1>2, <1>6 DEF HasStep, Same, Inits
    <3>2. CASE Leads(r.cmd, r.step, n.step) /\ n.fixes = r.fixes
      BY <3>1, <3>2 DEF Alike
    <3>3. CASE Fixed(r, n) /\ r.step \notin {"read-ssh", "copy-binary"}
      BY <3>3 DEF Fixed, Pending, Alike
    <3>4. CASE r.step \in {"read-ssh", "copy-binary"}
      BY <1>6, <3>2, <3>4, FirstStepLeads
    <3> QED
      BY <1>1, <3>2, <3>3, <3>4 DEF Goes
  <2>5. ASSUME Fixing(r, s, m)
        PROVE  Fixing(x, s2, m2)
    <3>1. r.step \notin {"copy-token", "check-keychain"}
      BY <1>2, <1>6 DEF HasStep, Inits
    <3>2. Reached(r.cfg, r.host, s) \/ r.step = "write-ssh" => Reached(r.cfg, r.host, s2)
      BY <2>2 DEF Progress, Reached
    <3>3. Done(r.step, m[r.host], m2[r.host])
      BY <2>2 DEF Progress
    <3> QED
      BY <1>3, <1>6, <2>4, <2>5, <3>1, <3>2, <3>3, FixingGoes
  <2> QED
    BY <1>3, <2>1, <2>3, <2>5 DEF Doctoring
<1> QED
  BY <1>3, <1>4, <1>5, <1>6 DEF CalmOK

\* The steps that go on to the next.
LEMMA StepCalm ==
  ASSUME IInv, CalmInv, NEW p \in Proc, run[p].step \in Step \ {"check-keychain", "check-host"},
         NEW n, n = After(run[p]), Steady(p), Closed(remote'),
         run'[p] # Idle => Alike(n, run'[p]),
         run[p].calm /\ CalmOK(run[p], ssh, remote) /\ run[p].cmd \in {"add-host", "doctor-fix"}
           => Progress(run[p], ssh, remote, ssh', remote')
  PROVE  CalmInv'
<1>1. run[p] \in Job /\ Placed(run[p]) /\ run[p] # Idle
  BY JobAt, JobFields
<1>2. ASSUME run'[p] # Idle, run'[p].calm
      PROVE  run[p].calm /\ CalmOK(run'[p], ssh', remote')
  <2>1. Alike(n, run'[p])
    BY <1>2
  <2>2. n # Idle
    BY <2>1, IdleFields, JobFields DEF Alike
  <2>3. n.calm = run[p].calm
    BY <1>1, <2>2, AfterIs DEF Goes, Same
  <2>4. run[p].calm
    BY <1>2, <2>1, <2>3 DEF Alike
  <2>5. CalmOK(run[p], ssh, remote)
    BY <1>1, <2>4 DEF CalmInv
  <2>6. PICK r : r = run[p]
    OBVIOUS
  <2>7. PICK x : x = run'[p]
    OBVIOUS
  <2>8. CalmOK(x, ssh', remote')
    BY <1>1, <2>1, <2>4, <2>5, <2>6, <2>7, ProgressCalm
  <2> QED
    BY <2>4, <2>7, <2>8
<1> QED
  BY <1>1, <1>2, CalmKept

LEMMA KeptLeads ==
  ASSUME NEW r, NEW n, Kept(r, n), NEW o, Kept(n, o)
  PROVE  Kept(r, o)
<1>1. CASE r = Idle
  BY <1>1, IdleFields DEF Kept
<1>2. CASE r # Idle
  <2>1. r \in Job /\ n \in Job /\ o \in Job
    BY <1>2, IdleFields DEF Kept
  <2> QED
    BY <2>1, IdleFields DEF Kept
<1> QED
  BY <1>1, <1>2

\* How the steps leave the commands.
LEMMA ShapesSteady ==
  ASSUME run \in Runs, NEW p \in Proc, NEW x \in Job \cup {Idle}, NEW file \in {"config", "ssh"},
         NEW S, \A q \in S : q \in Proc \ {p} /\ run[q] # Idle,
         \/ run' = [run EXCEPT ![p] = x]
         \/ run' = Outdate([run EXCEPT ![p] = x], p, file)
         \/ run' = Stale([run EXCEPT ![p] = x])
         \/ run' = Stale(Outdate([run EXCEPT ![p] = x], p, file))
         \/ run' = Losing(run, p, x, S)
  PROVE  Steady(p) /\ (run'[p] # Idle => Alike(x, run'[p]))
<1>1. PICK runs : runs = [run EXCEPT ![p] = x]
  OBVIOUS
<1>2. runs \in Runs /\ runs[p] = x /\ \A q \in Proc \ {p} : runs[q] = run[q]
  BY <1>1 DEF Runs
<1>3. \A q \in Proc \ {p} : Kept(run[q], runs[q])
  BY <1>2, KeptSame
<1>4. PICK old : old = Outdate(runs, p, file)
  OBVIOUS
<1>5. old \in Runs /\ old[p] = x /\ \A q \in Proc \ {p} : Kept(run[q], old[q])
  BY <1>2, <1>4, OutdateIs
<1>6. x # Idle => Alike(x, x)
  BY DEF Alike
<1>7. ASSUME NEW y \in Job, y = [x EXCEPT !.fresh = FALSE], x # Idle
      PROVE  Alike(x, y)
  <2>1. /\ y.cmd = x.cmd /\ y.step = x.step /\ y.host = x.host /\ y.cfg = x.cfg
        /\ y.todo = x.todo /\ y.fixes = x.fixes /\ y.calm = x.calm /\ y.outdated = x.outdated
    BY <1>7 DEF Job
  <2> QED
    BY <2>1 DEF Alike
<1>8. CASE run' = runs \/ run' = old
  BY <1>2, <1>3, <1>5, <1>6, <1>8 DEF Steady
<1>9. ASSUME NEW before \in {runs, old}, run' = Stale(before)
      PROVE  Steady(p) /\ (run'[p] # Idle => Alike(x, run'[p]))
  <2>1. PICK g : g = Stale(before)
    OBVIOUS
  <2>2. before \in Runs /\ before[p] = x /\ \A q \in Proc \ {p} : Kept(run[q], before[q])
    BY <1>2, <1>3, <1>5
  <2>3. /\ g \in Runs /\ \A q \in Proc : Kept(before[q], g[q])
        /\ x # Idle => g[p] = [x EXCEPT !.fresh = FALSE]
    BY <2>1, <2>2, StaleIs
  <2>4. \A q \in Proc \ {p} : Kept(run[q], g[q])
    BY <2>2, <2>3, KeptLeads
  <2>5. g[p] # Idle => x # Idle /\ g[p] \in Job
    BY <2>2, <2>3, IdleFields DEF Kept
  <2>6. g[p] # Idle => Alike(x, g[p])
    BY <1>7, <2>3, <2>5
  <2> QED
    BY <1>9, <2>1, <2>4, <2>6 DEF Steady
<1>10. CASE run' = Losing(run, p, x, S)
  <2>1. PICK g : g = Losing(run, p, x, S)
    OBVIOUS
  <2>2. g[p] = x /\ \A q \in Proc \ {p} : Kept(run[q], g[q])
    BY <2>1, FreshIs
  <2> QED
    BY <1>6, <1>10, <2>1, <2>2 DEF Steady
<1> QED
  BY <1>1, <1>4, <1>8, <1>9, <1>10

LEMMA AlikeLeads ==
  ASSUME NEW n, NEW x, Alike(n, x), NEW y, Alike(x, y)
  PROVE  Alike(n, y)
  BY DEF Alike

LEMMA AfterAlike ==
  ASSUME NEW r \in Job, Placed(r), NEW n, n = After(r)
  PROVE  n = Idle \/ Alike(n, n)
  BY AfterIs DEF Goes, Same, Alike

\* A step that goes on to the next, or ends the command.
LEMMA ActCalm ==
  ASSUME IInv, CalmInv, NEW p \in Proc, run[p].step \in Step \ {"check-keychain", "check-host"},
         NEW n, n = After(run[p]), NEW x, x = Idle \/ Alike(n, x),
         NEW file \in {"config", "ssh"},
         NEW S, \A q \in S : q \in Proc \ {p} /\ run[q] # Idle,
         \/ run' = [run EXCEPT ![p] = x]
         \/ run' = Outdate([run EXCEPT ![p] = x], p, file)
         \/ run' = Stale([run EXCEPT ![p] = x])
         \/ run' = Stale(Outdate([run EXCEPT ![p] = x], p, file))
         \/ run' = Losing(run, p, x, S),
         Closed(remote'),
         run[p].calm /\ CalmOK(run[p], ssh, remote) /\ run[p].cmd \in {"add-host", "doctor-fix"}
           => Progress(run[p], ssh, remote, ssh', remote')
  PROVE  CalmInv'
<1>1. run \in Runs /\ x \in Job \cup {Idle}
  BY DEF IInv, Types, Alike
<1>2. Steady(p) /\ (run'[p] # Idle => Alike(x, run'[p]))
  BY <1>1, ShapesSteady
<1>3. run'[p] # Idle => x # Idle
  BY <1>2, IdleFields, JobFields DEF Alike
<1>4. run'[p] # Idle => Alike(n, run'[p])
  BY <1>2, <1>3, AlikeLeads
<1> QED
  BY <1>2, <1>4, StepCalm

\* One that leaves the hosts and ~/.ssh/config alone.
LEMMA SameProgress ==
  ASSUME NEW r, NEW s, NEW m,
         r.step \notin {"copy-binary", "make-executable", "copy-token", "private", "copy-skill",
                        "write-ssh"}
  PROVE  Progress(r, s, m, s, m)
  BY DEF Progress, Done

\* A change of what is installed on the host of a command.
LEMMA InstalledCalm ==
  ASSUME IInv, CalmInv, NEW p \in Proc, NEW h \in Alias, NEW y \in Installed,
         remote' = [remote EXCEPT ![h] = y], ssh' = ssh,
         y.token = None => ~y.open
  PROVE  /\ Closed(remote')
         /\ /\ run[p].host = h /\ run[p].step # "write-ssh"
            /\ Done(run[p].step, remote[h], y)
            => Progress(run[p], ssh, remote, ssh', remote')
<1>1. remote \in [Alias -> Installed]
  BY DEF IInv, Types
<1>2. remote'[h] = y /\ \A b \in Alias \ {h} : remote'[b] = remote[b]
  BY <1>1, InstalledIs
<1>3. Closed(remote')
  BY <1>2 DEF Closed, CalmInv
<1>4. ASSUME run[p].host = h, run[p].step # "write-ssh", Done(run[p].step, remote[h], y)
      PROVE  Progress(run[p], ssh, remote, ssh', remote')
  BY <1>2, <1>4 DEF Progress
<1> QED
  BY <1>3, <1>4

\* A step that leaves the hosts and ~/.ssh/config alone.
LEMMA QuietCalm ==
  ASSUME IInv, CalmInv, NEW p \in Proc, run[p] # Idle,
         run[p].step \notin {"check-keychain", "check-host", "copy-binary", "make-executable",
                             "copy-token", "private", "copy-skill", "write-ssh"},
         NEW n, n = After(run[p]), NEW x, x = Idle \/ x = n,
         NEW file \in {"config", "ssh"},
         \/ run' = [run EXCEPT ![p] = x]
         \/ run' = Outdate([run EXCEPT ![p] = x], p, file)
         \/ run' = Stale([run EXCEPT ![p] = x])
         \/ run' = Stale(Outdate([run EXCEPT ![p] = x], p, file)),
         UNCHANGED <<ssh, remote>>
  PROVE  CalmInv'
<1>1. run[p] \in Job /\ Placed(run[p])
  BY JobAt
<1>2. run[p].step \in Step \ {"check-keychain", "check-host"}
  BY <1>1, JobFields
<1>3. n = Idle \/ Alike(n, n)
  BY <1>1, AfterAlike
<1>4. x = Idle \/ Alike(n, x)
  BY <1>3
<1>5. Closed(remote')
  BY DEF CalmInv
<1>6. Progress(run[p], ssh, remote, ssh', remote')
  <2>1. PICK r : r = run[p]
    OBVIOUS
  <2>2. Progress(r, ssh, remote, ssh, remote)
    BY <2>1, SameProgress
  <2> QED
    BY <2>1, <2>2
<1>7. PICK S : S = {}
  OBVIOUS
<1>8. \A q \in S : q \in Proc \ {p} /\ run[q] # Idle
  BY <1>7
<1> QED
  BY <1>2, <1>4, <1>5, <1>6, <1>8, ActCalm, SMTT(30)

LEMMA LocalCalm ==
  ASSUME IInv, CalmInv, NEW p \in Proc,
         \/ Verify(p)
         \/ InstallUnit(p)
         \/ StartService(p)
         \/ RestartService(p)
         \/ StopService(p)
         \/ RemoveUnit(p)
         \/ FixKeychain(p)
  PROVE  CalmInv'
<1>1. /\ run[p].step \in {"verify", "install-unit", "start", "restart", "stop", "remove-unit",
                          "fix-keychain"}
      /\ Advance(p) /\ UNCHANGED <<ssh, remote>>
  BY DEF Verify, InstallUnit, StartService, RestartService, StopService, RemoveUnit, FixKeychain,
         Service, At, local
<1>2. run[p] # Idle
  BY <1>1, IdleFields DEF Step
<1>3. PICK n : n = After(run[p])
  OBVIOUS
<1>4. run' = [run EXCEPT ![p] = n]
  BY <1>1, <1>3 DEF Advance
<1>5. PICK file : file = "ssh"
  OBVIOUS
<1> QED
  BY <1>1, <1>2, <1>3, <1>4, <1>5, QuietCalm

LEMMA StoredCalm ==
  ASSUME IInv, CalmInv, NEW p \in Proc,
         \/ Save(p)
         \/ Store(p)
         \/ DeleteToken(p)
         \/ DeleteConfig(p)
  PROVE  CalmInv'
<1>1. PICK n : n = After(run[p])
  OBVIOUS
<1>2. PICK file : file = "config"
  OBVIOUS
<1>3. /\ run[p].step \in {"save", "store", "delete-token", "delete-config"}
      /\ UNCHANGED <<ssh, remote>>
      /\ \/ run' = Outdate([run EXCEPT ![p] = n], p, file)
         \/ run' = Stale([run EXCEPT ![p] = n])
         \/ run' = Stale(Outdate([run EXCEPT ![p] = n], p, file))
  BY <1>1, <1>2 DEF Save, Store, DeleteToken, DeleteConfig, At
<1>4. run[p] # Idle
  BY <1>3, IdleFields DEF Step
<1> QED
  BY <1>1, <1>2, <1>3, <1>4, QuietCalm

LEMMA InstallCalm ==
  ASSUME IInv, CalmInv, NEW p \in Proc, Advance(p),
         run[p].step \in {"copy-binary", "make-executable", "private", "copy-skill"},
         NEW y \in Installed, y.token = None => ~y.open,
         Done(run[p].step, remote[run[p].host], y),
         remote' = [remote EXCEPT ![run[p].host] = y], ssh' = ssh
  PROVE  CalmInv'
<1>1. run[p].step \in (Step \cap HostSteps) \ {"check-keychain", "check-host"}
  BY DEF Step, HostSteps
<1>2. run[p] \in Job /\ Placed(run[p]) /\ run[p].host \in Alias
  BY <1>1, JobAt
<1>3. PICK n : n = After(run[p])
  OBVIOUS
<1>4. n = Idle \/ Alike(n, n)
  BY <1>2, <1>3, AfterAlike
<1>5. run' = [run EXCEPT ![p] = n]
  BY <1>3 DEF Advance
<1>6. Closed(remote') /\ Progress(run[p], ssh, remote, ssh', remote')
  BY <1>2, InstalledCalm
<1>7. PICK S : S = {}
  OBVIOUS
<1>8. PICK file : file = "ssh"
  OBVIOUS
<1>9. run[p].step \in Step \ {"check-keychain", "check-host"}
  BY <1>1
<1>10. file \in {"config", "ssh"} /\ \A q \in S : q \in Proc \ {p} /\ run[q] # Idle
  BY <1>7, <1>8
<1> QED
  BY <1>3, <1>4, <1>5, <1>6, <1>9, <1>10, ActCalm

LEMMA InstallsCalm ==
  ASSUME IInv, CalmInv, NEW p \in Proc,
         \/ CopyBinary(p)
         \/ MakeExecutable(p)
         \/ Private(p)
         \/ CopySkill(p)
  PROVE  CalmInv'
<1> DEFINE old == remote[run[p].host]
<1>1. run[p].step \in {"copy-binary", "make-executable", "private", "copy-skill"}
  BY DEF CopyBinary, MakeExecutable, Private, CopySkill, At
<1>2. run[p].host \in Alias
  BY <1>1, JobAt DEF HostSteps, Step
<1>3. old \in Installed /\ remote \in [Alias -> Installed] /\ (old.token = None => ~old.open)
  BY <1>2 DEF IInv, Types, CalmInv, Closed
<1>4. PICK y : \/ /\ run[p].step = "copy-binary"
                  /\ y = [old EXCEPT !.binary = IF old.binary = "executable" THEN old.binary ELSE "plain"]
               \/ run[p].step = "make-executable" /\ y = [old EXCEPT !.binary = "executable"]
               \/ run[p].step = "private" /\ y = [old EXCEPT !.open = FALSE]
               \/ run[p].step = "copy-skill" /\ y = [old EXCEPT !.skill = TRUE]
  BY <1>1
<1>5. /\ remote' = [remote EXCEPT ![run[p].host] = y] /\ ssh' = ssh /\ Advance(p)
  <2>1. CASE run[p].step = "copy-binary"
    BY <1>2, <1>3, <1>4, <2>1 DEF CopyBinary, MakeExecutable, Private, CopySkill, At, local
  <2>2. CASE run[p].step = "make-executable"
    BY <1>2, <1>3, <1>4, <2>2 DEF CopyBinary, MakeExecutable, Private, CopySkill, At, local
  <2>3. CASE run[p].step = "private"
    BY <1>2, <1>3, <1>4, <2>3 DEF CopyBinary, MakeExecutable, Private, CopySkill, At, local
  <2>4. CASE run[p].step = "copy-skill"
    BY <1>2, <1>3, <1>4, <2>4 DEF CopyBinary, MakeExecutable, Private, CopySkill, At, local
  <2> QED
    BY <1>1, <2>1, <2>2, <2>3, <2>4
<1> HIDE DEF old
<1>6. y \in Installed /\ y.token = old.token /\ (y.open => old.open)
  BY <1>3, <1>4 DEF Installed
<1>7. Done(run[p].step, old, y)
  BY <1>3, <1>4 DEF Installed, Done
<1> QED
  BY <1>1, <1>3, <1>5, <1>6, <1>7, InstallCalm DEF old

LEMMA CopyTokenCalm == ASSUME IInv, CalmInv, NEW p \in Proc, CopyToken(p) PROVE CalmInv'
<1> DEFINE r == run[p]
           h == r.host
<1>1. r.step = "copy-token" /\ r.step \in Step \cap HostSteps /\ tokenFile # None
  BY DEF CopyToken, At, Step, HostSteps
<1>2. r \in Job /\ Placed(r) /\ h \in Alias /\ HasStep(r.cmd, r.step)
  BY <1>1, JobAt
<1>3. PICK n : n = After(r)
  OBVIOUS
<1>4. PICK x : x = [n EXCEPT !.fresh = TRUE]
  OBVIOUS
<1>5. PICK open \in BOOLEAN \cup {remote[h].open} :
        /\ remote' = [remote EXCEPT ![h].token = tokenFile, ![h].open = open]
        /\ run' = [run EXCEPT ![p] = x] /\ ssh' = ssh
  BY <1>3, <1>4 DEF CopyToken, local
<1>6. remote \in [Alias -> Installed] /\ tokenFile \in Token \cup {None, Torn}
  BY DEF IInv, Types
<1>7. Alike(n, x)
  <2>1. r.cmd \in {"add-host", "update-token"}
    BY <1>1, <1>2 DEF HasStep, Inits
  <2>2. r.left # <<>>
    BY <1>1, <1>2, <2>1, LastIs DEF Hosted
  <2>3. n \in Job
    BY <1>2, <1>3, <2>2, AfterIs DEF Goes, Same
  <2>4. /\ x \in Job /\ x.cmd = n.cmd /\ x.step = n.step /\ x.host = n.host /\ x.cfg = n.cfg
        /\ x.todo = n.todo /\ x.fixes = n.fixes /\ x.calm = n.calm /\ x.outdated = n.outdated
    BY <1>4, <2>3 DEF Job
  <2> QED
    BY <2>4 DEF Alike
<1>8. PICK y : y = [remote[h] EXCEPT !.token = tokenFile, !.open = open]
  OBVIOUS
<1>9. remote[h] \in Installed /\ open \in BOOLEAN
  BY <1>2, <1>5, <1>6, Fields
<1>10. /\ y \in Installed /\ y.token = tokenFile
       /\ y.binary = remote[h].binary /\ y.skill = remote[h].skill
  BY <1>6, <1>8, <1>9 DEF Installed
<1>11. remote' = [remote EXCEPT ![h] = y]
  BY <1>2, <1>5, <1>6, <1>8
<1>12. Done(r.step, remote[h], y)
  BY <1>1, <1>10 DEF Done
<1>13. Closed(remote') /\ Progress(r, ssh, remote, ssh', remote')
  BY <1>1, <1>2, <1>5, <1>10, <1>11, <1>12, InstalledCalm
<1>14. PICK S : S = {}
  OBVIOUS
<1>15. PICK file : file = "ssh"
  OBVIOUS
<1>16. r.step \in Step \ {"check-keychain", "check-host"}
  BY <1>1
<1>17. file \in {"config", "ssh"} /\ \A q \in S : q \in Proc \ {p} /\ run[q] # Idle
  BY <1>14, <1>15
<1>18. run' = [run EXCEPT ![p] = x]
  BY <1>5
<1> HIDE DEF h
<1> QED
  BY <1>3, <1>7, <1>13, <1>16, <1>17, <1>18, ActCalm

LEMMA RemoveCalm == ASSUME IInv, CalmInv, NEW p \in Proc, Remove(p) PROVE CalmInv'
<1> DEFINE r == run[p]
           h == r.host
<1>1. r.step \in {"rm-binary", "rm-token", "rm-skill"} /\ r.step \in Step \cap HostSteps
  BY DEF Remove, Step, HostSteps
<1>2. /\ r \in Job /\ Placed(r) /\ h \in Alias /\ HasStep(r.cmd, r.step) /\ r # Idle
  BY <1>1, JobAt, JobFields
<1>3. r.cmd = "remove-host"
  BY <1>1, <1>2 DEF HasStep, Inits
<1>4. PICK n : n = After(r)
  OBVIOUS
<1>5. n = Idle \/ Alike(n, n)
  BY <1>2, <1>4, AfterAlike
<1>6. PICK S : S = IF r.step = "rm-token" THEN Others(p, h) ELSE {}
  OBVIOUS
<1>7. \A q \in S : q \in Proc \ {p} /\ run[q] # Idle
  BY <1>6 DEF Others
<1>8. run' = Losing(run, p, n, S)
  <2>1. run' = [q \in Proc |-> IF q = p THEN n
                               ELSE IF r.step = "rm-token" /\ q \in Others(p, h)
                               THEN [run[q] EXCEPT !.fresh = FALSE] ELSE run[q]]
    BY <1>4 DEF Remove, At
  <2>2. \A q \in Proc : (r.step = "rm-token" /\ q \in Others(p, h)) <=> q \in S
    BY <1>6
  <2> QED
    BY <2>1, <2>2 DEF Losing
<1>9. remote \in [Alias -> Installed] /\ remote[h] \in Installed /\ (remote[h].token = None => ~remote[h].open)
  BY <1>2 DEF IInv, Types, CalmInv, Closed
<1>10. PICK y : /\ remote' = [remote EXCEPT ![h] = y]
                /\ \/ y = [remote[h] EXCEPT !.binary = "none"]
                   \/ y = [remote[h] EXCEPT !.token = None, !.open = FALSE]
                   \/ y = [remote[h] EXCEPT !.skill = FALSE]
  <2>1. PICK z : z = CASE r.step = "rm-binary" -> [remote[h] EXCEPT !.binary = "none"]
                       [] r.step = "rm-token"  -> [remote[h] EXCEPT !.token = None, !.open = FALSE]
                       [] OTHER                -> [remote[h] EXCEPT !.skill = FALSE]
    OBVIOUS
  <2>2. remote' = [remote EXCEPT ![h] = z]
    BY <1>2, <1>9, <2>1 DEF Remove, At
  <2> QED
    BY <2>1, <2>2
<1>11. y \in Installed /\ (y.token = None => ~y.open)
  BY <1>9, <1>10 DEF Installed
<1>12. Closed(remote')
  BY <1>2, <1>9, <1>10, <1>11, InstalledIs DEF Closed, CalmInv
<1>13. PICK file : file = "ssh"
  OBVIOUS
<1> HIDE DEF r, h
<1>14. r.cmd \notin {"add-host", "doctor-fix"} /\ r.step \in Step \ {"check-keychain", "check-host"}
  BY <1>1, <1>3
<1> QED
  BY <1>4, <1>5, <1>7, <1>8, <1>12, <1>13, <1>14, ActCalm DEF r

LEMMA ReadSSHCalm == ASSUME IInv, CalmInv, NEW p \in Proc, ReadSSH(p) PROVE CalmInv'
<1> DEFINE r == run[p]
<1>1. r.step = "read-ssh" /\ r.step \in Step \ {"check-keychain", "check-host"}
  BY DEF ReadSSH, At, Step
<1>2. r \in Job /\ Placed(r) /\ HasStep(r.cmd, r.step)
  BY <1>1, JobAt
<1>3. PICK n : n = After(r)
  OBVIOUS
<1>4. PICK x : x = [n EXCEPT !.file = Parse(ssh), !.outdated = @ \ {"ssh"}]
  OBVIOUS
<1>5. run' = [run EXCEPT ![p] = x] /\ UNCHANGED <<ssh, remote>>
  BY <1>3, <1>4 DEF ReadSSH, local
<1>6. Alike(n, x)
  <2>1. r.cmd \in {"add-host", "remove-host", "doctor-fix"}
    BY <1>1, <1>2 DEF HasStep, Inits
  <2>2. r.cmd # "doctor-fix" => r.left # <<>>
    BY <1>1, <1>2, <2>1, LastIs DEF Hosted
  <2>3. n \in Job
    BY <1>2, <1>3, <2>2, AfterIs DEF Goes, Same
  <2>4. Parse(ssh) \in Seq(Lines)
    BY ParseKeeps DEF IInv, Types
  <2>5. /\ x \in Job /\ x.cmd = n.cmd /\ x.step = n.step /\ x.host = n.host /\ x.cfg = n.cfg
        /\ x.todo = n.todo /\ x.fixes = n.fixes /\ x.calm = n.calm
        /\ x.outdated = n.outdated \ {"ssh"}
    BY <1>4, <2>3, <2>4 DEF Job
  <2> QED
    BY <2>5 DEF Alike
<1>7. Closed(remote')
  BY <1>5 DEF CalmInv
<1>8. Progress(r, ssh, remote, ssh', remote')
  <2>1. PICK o : o = r
    OBVIOUS
  <2>2. Progress(o, ssh, remote, ssh, remote)
    BY <1>1, <2>1, SameProgress
  <2> QED
    BY <1>5, <2>1, <2>2
<1>9. PICK S : S = {}
  OBVIOUS
<1>10. PICK file : file = "ssh"
  OBVIOUS
<1>11. file \in {"config", "ssh"} /\ \A q \in S : q \in Proc \ {p} /\ run[q] # Idle
  BY <1>9, <1>10
<1>12. run' = [run EXCEPT ![p] = x]
  BY <1>5
<1> QED
  BY <1>1, <1>3, <1>6, <1>7, <1>8, <1>11, <1>12, ActCalm

\* A new ~/.ssh/config.
LEMMA WriteCalm ==
  ASSUME IInv, CalmInv, NEW p \in Proc, At(p, "write-ssh"), NEW file, WriteAtomic(p, file),
         run[p].calm /\ CalmOK(run[p], ssh, remote) /\ run[p].cmd \in {"add-host", "doctor-fix"}
           => Progress(run[p], ssh, remote, ssh', remote')
  PROVE  CalmInv'
<1> DEFINE r == run[p]
<1>1. r.step = "write-ssh" /\ r.step \in Step \ {"check-keychain", "check-host"}
  BY DEF At, Step
<1>2. r \in Job /\ Placed(r) /\ HasStep(r.cmd, r.step)
  BY <1>1, JobAt
<1>3. PICK n : n = After(r)
  OBVIOUS
<1>4. PICK x : x = [n EXCEPT !.file = <<>>]
  OBVIOUS
<1>5. PICK f : f = "ssh"
  OBVIOUS
<1>6. run' = Outdate([run EXCEPT ![p] = x], p, f) /\ UNCHANGED remote
  BY <1>3, <1>4, <1>5 DEF WriteAtomic
<1>7. Alike(n, x)
  <2>1. r.cmd \in {"add-host", "remove-host", "doctor-fix"}
    BY <1>1, <1>2 DEF HasStep, Inits
  <2>2. r.cmd # "doctor-fix" => r.left # <<>>
    BY <1>1, <1>2, <2>1, LastIs DEF Hosted
  <2>3. n \in Job
    BY <1>2, <1>3, <2>2, AfterIs DEF Goes, Same
  <2>4. <<>> \in Seq(Lines)
    OBVIOUS
  <2>5. /\ x \in Job /\ x.cmd = n.cmd /\ x.step = n.step /\ x.host = n.host /\ x.cfg = n.cfg
        /\ x.todo = n.todo /\ x.fixes = n.fixes /\ x.calm = n.calm /\ x.outdated = n.outdated
    BY <1>4, <2>3, <2>4 DEF Job
  <2> QED
    BY <2>5 DEF Alike
<1>8. Closed(remote')
  BY <1>6 DEF CalmInv
<1>9. PICK S : S = {}
  OBVIOUS
<1>10. f \in {"config", "ssh"} /\ \A q \in S : q \in Proc \ {p} /\ run[q] # Idle
  BY <1>5, <1>9
<1>11. run' = Outdate([run EXCEPT ![p] = x], p, f)
  BY <1>6
<1> QED
  BY <1>1, <1>3, <1>7, <1>8, <1>10, <1>11, ActCalm

LEMMA RemoveForwardCalm == ASSUME IInv, CalmInv, NEW p \in Proc, RemoveForward(p) PROVE CalmInv'
  BY WriteCalm DEF RemoveForward

LEMMA AddForwardCalm == ASSUME IInv, CalmInv, NEW p \in Proc, AddForward(p) PROVE CalmInv'
<1> DEFINE r == run[p]
           port == HostPort(r.cfg, r.host)
<1>1. r.step = "write-ssh" /\ r.step \in Step \cap HostSteps
  BY DEF AddForward, At, Step, HostSteps
<1>2. r \in Job /\ r.host \in Alias /\ JobOK(r, Load, ssh, whole, tokenFile, remote)
  BY <1>1, JobAt
<1>3. r.file \in Seq(Lines) /\ port \in Port /\ ssh \in Seq(Lines) /\ r.cfg \in Config
  BY <1>2, JobFields, ConfigFields DEF IInv, Types
<1>4. PICK file : file = AddRemoteForward(r.file, r.host, port)
  OBVIOUS
<1>5. WriteAtomic(p, file) /\ At(p, "write-ssh") /\ ~Conflicts(r.file, r.host, port)
  BY <1>4 DEF AddForward
<1>6. ssh' = file /\ UNCHANGED remote
  BY <1>5 DEF WriteAtomic
<1>7. HasRemoteForward(file, r.host, port) /\ ~Conflicts(file, r.host, port)
  BY <1>2, <1>3, <1>4, <1>5, AddHas, AddKeepsOwn
<1>8. ASSUME CalmOK(r, ssh, remote)
      PROVE  Progress(r, ssh, remote, ssh', remote')
  <2>1. r.file = Parse(ssh)
    BY <1>1, <1>2, <1>8 DEF CalmOK, JobOK, Current
  <2>2. ASSUME NEW b \in Alias \ {r.host}, Reached(r.cfg, b, ssh)
        PROVE  Reached(r.cfg, b, file)
    <3>1. PICK q : q = HostPort(r.cfg, b)
      OBVIOUS
    <3>2. HasRemoteForward(r.file, b, q) \/ Conflicts(r.file, b, q)
      BY <1>3, <2>1, <2>2, <3>1, ParseKeeps DEF Reached
    <3>3. HasRemoteForward(file, b, q) \/ Conflicts(file, b, q)
      BY <1>2, <1>3, <1>4, <3>2, AddKeepsOthers
    <3> QED
      BY <3>1, <3>3 DEF Reached
  <2>3. Done(r.step, remote[r.host], remote'[r.host])
    BY <1>1, <1>6 DEF Done
  <2>4. Reached(r.cfg, r.host, file)
    BY <1>7 DEF Reached
  <2> HIDE DEF r
  <2> QED
    BY <1>6, <1>7, <2>2, <2>3, <2>4 DEF Progress
<1> QED
  BY <1>5, <1>8, WriteCalm

\* A step that changes nothing but its command.
LEMMA AloneCalm ==
  ASSUME IInv, CalmInv, NEW p \in Proc, run[p] # Idle, NEW x \in Job \cup {Idle},
         run' = [run EXCEPT ![p] = x], UNCHANGED <<ssh, remote>>,
         x # Idle /\ x.calm => /\ run[p].calm
                               /\ CalmOK(run[p], ssh, remote) => CalmOK(x, ssh, remote)
  PROVE  CalmInv'
<1>1. run \in Runs
  BY DEF IInv, Types
<1>2. PICK S : S = {}
  OBVIOUS
<1>3. PICK file : file = "ssh"
  OBVIOUS
<1>4. file \in {"config", "ssh"} /\ \A q \in S : q \in Proc \ {p} /\ run[q] # Idle
  BY <1>2, <1>3
<1>5. Steady(p)
  BY <1>1, <1>4, ShapesSteady
<1>6. run'[p] = x
  BY <1>1 DEF Runs
<1>7. Closed(remote')
  BY DEF CalmInv
<1>8. run'[p] # Idle /\ run'[p].calm => run[p].calm /\ CalmOK(run'[p], ssh', remote')
  BY <1>6 DEF CalmInv
<1> QED
  BY <1>5, <1>7, <1>8, CalmKept

LEMMA KillCalm == ASSUME IInv, CalmInv, NEW p \in Proc, Kill(p) PROVE CalmInv'
  BY AloneCalm DEF Kill, local

LEMMA CheckKeychainCalm == ASSUME IInv, CalmInv, NEW p \in Proc, CheckKeychain(p) PROVE CalmInv'
<1> DEFINE r == run[p]
<1>1. r.step = "check-keychain" /\ r.step \in Step
  BY DEF CheckKeychain, At, Step
<1>2. r \in Job /\ Placed(r) /\ HasStep(r.cmd, r.step) /\ r # Idle
  BY <1>1, JobAt, JobFields
<1>3. r.cmd = "doctor-fix"
  BY <1>1, <1>2 DEF HasStep, Inits
<1>4. PICK n : n = After(r)
  OBVIOUS
<1>5. PICK T : T = Hosts(r.cfg) \cup (IF Retrieve = None THEN {None} ELSE {})
  OBVIOUS
<1>6. PICK x : x = [n EXCEPT !.todo = T]
  OBVIOUS
<1>7. run' = [run EXCEPT ![p] = x] /\ UNCHANGED <<ssh, remote>>
  BY <1>4, <1>5, <1>6 DEF CheckKeychain, local
<1>8. Same(r, n)
  BY <1>2, <1>3, <1>4, AfterIs DEF Goes
<1>9. T \in SUBSET (Alias \cup {None}) /\ Hosts(r.cfg) \subseteq T
  BY <1>2, <1>5, JobFields, ConfigFields
<1>10. /\ x \in Job /\ x.todo = T /\ x.cmd = r.cmd /\ x.cfg = r.cfg
       /\ x.outdated = r.outdated /\ x.calm = r.calm
  BY <1>6, <1>8, <1>9 DEF Job, Same
<1>11. CalmOK(r, ssh, remote) => CalmOK(x, ssh, remote)
  BY <1>3, <1>9, <1>10 DEF CalmOK, Doctoring
<1> QED
  BY <1>2, <1>7, <1>10, <1>11, AloneCalm

Holds(s, fix) == \E i \in 1..Len(s) : s[i] = fix

LEMMA HoldsJoined ==
  ASSUME NEW S, NEW s \in Seq(S), NEW t \in Seq(S), NEW fix, Holds(s, fix) \/ Holds(t, fix)
  PROVE  Holds(s \o t, fix)
<1>1. /\ Len(s \o t) = Len(s) + Len(t) /\ Len(s) \in Nat /\ Len(t) \in Nat
      /\ \A i \in 1..Len(s) : (s \o t)[i] = s[i]
      /\ \A i \in 1..Len(t) : (s \o t)[Len(s) + i] = t[i]
  OBVIOUS
<1>2. ASSUME NEW i \in 1..Len(s), s[i] = fix
      PROVE  Holds(s \o t, fix)
  BY <1>1, <1>2 DEF Holds
<1>3. ASSUME NEW i \in 1..Len(t), t[i] = fix
      PROVE  Holds(s \o t, fix)
  <2>1. Len(s) + i \in 1..Len(s \o t)
    BY <1>1
  <2> QED
    BY <1>1, <1>3, <2>1 DEF Holds
<1> QED
  BY <1>2, <1>3 DEF Holds

\* What fails is fixed.
LEMMA FailingHolds ==
  ASSUME NEW cfg, NEW h, NEW answers
  PROVE  LET all == Failing(cfg, h, answers)
         IN  /\ ForwardMissing(cfg, h) => Holds(all, FixForward)
             /\ BinaryMissing(h, answers) => Holds(all, FixBinary)
             /\ TokenOpen(h, answers) => Holds(all, FixTokenPerms)
             /\ SkillMissing(h, answers) => Holds(all, FixSkill)
<1> DEFINE fixOf(failed, fix) == IF failed THEN <<fix>> ELSE <<>>
<1>1. PICK a : a = fixOf(ForwardMissing(cfg, h), FixForward)
  OBVIOUS
<1>2. PICK b : b = fixOf(BinaryMissing(h, answers), FixBinary)
  OBVIOUS
<1>3. PICK c : c = fixOf(TokenOpen(h, answers), FixTokenPerms)
  OBVIOUS
<1>4. PICK d : d = fixOf(SkillMissing(h, answers), FixSkill)
  OBVIOUS
<1>5. \A fix \in Fixes : <<fix>> \in Seq(Fixes) /\ Holds(<<fix>>, fix)
  <2> SUFFICES ASSUME NEW fix \in Fixes
               PROVE  <<fix>> \in Seq(Fixes) /\ Holds(<<fix>>, fix)
    OBVIOUS
  <2>1. <<fix>> \in Seq(Fixes) /\ Len(<<fix>>) = 1 /\ <<fix>>[1] = fix
    OBVIOUS
  <2>2. 1 \in 1..Len(<<fix>>)
    BY <2>1
  <2> QED
    BY <2>1, <2>2 DEF Holds
<1>6. <<>> \in Seq(Fixes)
  OBVIOUS
<1>7. /\ a \in Seq(Fixes) /\ (ForwardMissing(cfg, h) => Holds(a, FixForward))
      /\ b \in Seq(Fixes) /\ (BinaryMissing(h, answers) => Holds(b, FixBinary))
      /\ c \in Seq(Fixes) /\ (TokenOpen(h, answers) => Holds(c, FixTokenPerms))
      /\ d \in Seq(Fixes) /\ (SkillMissing(h, answers) => Holds(d, FixSkill))
  BY <1>1, <1>2, <1>3, <1>4, <1>5, <1>6, FixesAre
<1>8. PICK ab : ab = a \o b
  OBVIOUS
<1>9. PICK abc : abc = ab \o c
  OBVIOUS
<1>10. PICK all : all = abc \o d
  OBVIOUS
<1>11. Failing(cfg, h, answers) = all
  BY <1>1, <1>2, <1>3, <1>4, <1>8, <1>9, <1>10 DEF Failing
<1>12. ab \in Seq(Fixes) /\ abc \in Seq(Fixes)
  BY <1>7, <1>8, <1>9
<1>13. \A fix : Holds(a, fix) \/ Holds(b, fix) => Holds(ab, fix)
  BY <1>7, <1>8, HoldsJoined
<1>14. \A fix : Holds(ab, fix) \/ Holds(c, fix) => Holds(abc, fix)
  BY <1>7, <1>9, <1>12, HoldsJoined
<1>15. \A fix : Holds(abc, fix) \/ Holds(d, fix) => Holds(all, fix)
  BY <1>7, <1>10, <1>12, HoldsJoined
<1> QED
  BY <1>7, <1>11, <1>13, <1>14, <1>15

\* Between two hosts, those that doctor has checked are good.
LEMMA CheckedGood ==
  ASSUME NEW r, NEW s, NEW m, r.cmd = "doctor-fix", r.step = "check-host", CalmOK(r, s, m)
  PROVE  \A b \in Hosts(r.cfg) \ r.todo : Good(r.cfg, b, s, m)
<1>1. /\ \A b \in Hosts(r.cfg) \ (r.todo \cup {r.host}) : Good(r.cfg, b, s, m)
      /\ r.host \in Hosts(r.cfg) \ r.todo => Fixing(r, s, m)
  BY DEF CalmOK, Doctoring
<1>2. ASSUME Fixing(r, s, m)
      PROVE  Good(r.cfg, r.host, s, m)
  <2>1. r.fixes = <<>>
    BY <1>2 DEF Fixing
  <2>2. \A fix : ~Pending(r, fix)
    BY <2>1 DEF Pending
  <2> QED
    BY <1>2, <2>2 DEF Fixing, Good
<1> QED
  BY <1>1, <1>2

LEMMA CheckHostCalm == ASSUME IInv, CalmInv, NEW p \in Proc, CheckHost(p) PROVE CalmInv'
<1> DEFINE r == run[p]
<1>1. r.step = "check-host" /\ r.step \in Step
  BY DEF CheckHost, At, Step
<1>2. r \in Job /\ Placed(r) /\ Suited(r) /\ r # Idle
  BY <1>1, JobAt, JobFields
<1>3. r.cmd = "doctor-fix"
  BY <1>1, <1>2, AtCheckHost
<1>4. UNCHANGED <<ssh, remote>>
  BY DEF CheckHost, local
<1>5. Closed(remote)
  BY DEF CalmInv
<1>6. r.todo \subseteq Hosts(r.cfg) \cup {None} /\ Hosts(r.cfg) \subseteq Alias
  BY <1>2, <1>3, JobFields, ConfigFields DEF Suited
<1>7. CalmOK(r, ssh, remote) => \A b \in Hosts(r.cfg) \ r.todo : Good(r.cfg, b, ssh, remote)
  <2>1. PICK o : o = r
    OBVIOUS
  <2> QED
    BY <1>1, <1>3, <2>1, CheckedGood
<1>8. ASSUME NEW h \in r.todo \ {None}, NEW answers \in BOOLEAN,
             run' = [run EXCEPT ![p] = NextFix([r EXCEPT
                       !.todo = @ \ {h}, !.host = h, !.calm = @ /\ answers,
                       !.fixes = Failing(r.cfg, h, answers)])]
      PROVE  CalmInv'
  <2>1. PICK F : F = Failing(r.cfg, h, answers)
    OBVIOUS
  <2>2. PICK c : c = (r.calm /\ answers)
    OBVIOUS
  <2>3. PICK s : s = [r EXCEPT !.todo = @ \ {h}, !.host = h, !.calm = c, !.fixes = F]
    OBVIOUS
  <2>4. PICK x : x = NextFix(s)
    OBVIOUS
  <2>5. run' = [run EXCEPT ![p] = x]
    BY <1>8, <2>1, <2>2, <2>3, <2>4
  <2>6. h \in Alias
    BY <1>6
  <2>7. F \in Seq(Fixes) /\ c \in BOOLEAN /\ r.todo \ {h} \in SUBSET (Alias \cup {None})
    BY <1>2, <2>1, <2>2, FailingIs, JobFields
  <2> HIDE DEF r
  <2>8. /\ s \in Job /\ s.todo = r.todo \ {h} /\ s.host = h /\ s.fixes = F
        /\ s.cmd = r.cmd /\ s.cfg = r.cfg /\ s.outdated = r.outdated /\ s.calm = c
    BY <1>2, <2>3, <2>6, <2>7 DEF Job
  <2>9. Same(s, x) /\ Fixed(s, x)
    BY <1>3, <2>4, <2>8, NextFixIs
  <2>10. /\ x \in Job /\ x.todo = r.todo \ {h} /\ x.host = h /\ x.cmd = r.cmd /\ x.cfg = r.cfg
         /\ x.outdated = r.outdated /\ x.calm = c
    BY <2>8, <2>9 DEF Same
  <2>11. ASSUME answers
         PROVE  Fixing(x, ssh, remote)
    <3>1. \A fix : Holds(F, fix) => Pending(s, fix)
      BY <2>8 DEF Holds, Pending
    <3>2. \A fix \in Fixes : Holds(F, fix) => Pending(x, fix) \/ x.step = FirstOf(fix)
      <4>1. CASE s.fixes = <<>>
        BY <3>1, <4>1 DEF Pending
      <4> QED
        BY <2>9, <3>1, <4>1 DEF Fixed
    <3>3. /\ ForwardMissing(r.cfg, h) => Holds(F, FixForward)
          /\ BinaryMissing(h, answers) => Holds(F, FixBinary)
          /\ TokenOpen(h, answers) => Holds(F, FixTokenPerms)
          /\ SkillMissing(h, answers) => Holds(F, FixSkill)
      BY <2>1, FailingHolds
    <3>4. Reached(x.cfg, x.host, ssh) \/ Pending(x, FixForward) \/ x.step \in {"read-ssh", "write-ssh"}
      BY <2>10, <3>2, <3>3, FixesAre DEF ForwardMissing, Reached
    <3>5. remote[x.host].binary = "executable" \/ Pending(x, FixBinary) \/ x.step = "copy-binary"
      BY <2>10, <3>2, <3>3, FixesAre DEF BinaryMissing
    <3>6. ~remote[x.host].open \/ Pending(x, FixTokenPerms) \/ x.step = "private"
      BY <1>5, <2>6, <2>10, <2>11, <3>2, <3>3, FixesAre DEF TokenOpen, Closed
    <3>7. remote[x.host].skill \/ Pending(x, FixSkill) \/ x.step = "copy-skill"
      BY <2>10, <3>2, <3>3, FixesAre DEF SkillMissing
    <3>8. x.step = "check-host" => x.fixes = <<>>
      BY <2>9 DEF Fixed, FixSteps
    <3> QED
      BY <3>4, <3>5, <3>6, <3>7, <3>8 DEF Fixing
  <2>12. answers /\ CalmOK(r, ssh, remote) => CalmOK(x, ssh, remote)
    BY <1>3, <1>7, <2>10, <2>11 DEF CalmOK, Doctoring
  <2>13. x # Idle /\ x.calm => r.calm /\ answers
    BY <1>2, <2>2, <2>10
  <2> QED
    BY <1>2, <1>4, <2>5, <2>10, <2>12, <2>13, AloneCalm DEF r
<1>9. ASSUME r.todo \subseteq {None},
             run' = [run EXCEPT ![p] = IF r.todo = {} THEN Idle
                       ELSE [r EXCEPT !.step = "fix-keychain", !.todo = {}]]
      PROVE  CalmInv'
  <2>1. PICK x : x = IF r.todo = {} THEN Idle ELSE [r EXCEPT !.step = "fix-keychain", !.todo = {}]
    OBVIOUS
  <2>2. run' = [run EXCEPT ![p] = x]
    BY <1>9, <2>1
  <2>3. CASE r.todo = {}
    BY <1>2, <1>4, <2>1, <2>2, <2>3, AloneCalm
  <2>4. CASE r.todo # {}
    <3>1. x = [r EXCEPT !.step = "fix-keychain", !.todo = {}]
      BY <2>1, <2>4
    <3>2. /\ x \in Job /\ x.step = "fix-keychain" /\ x.todo = {} /\ x.cmd = r.cmd
          /\ x.host = r.host /\ x.cfg = r.cfg /\ x.outdated = r.outdated /\ x.calm = r.calm
      BY <1>2, <3>1 DEF Job, Step
    <3>3. ASSUME CalmOK(r, ssh, remote)
          PROVE  CalmOK(x, ssh, remote)
      <4>1. \A b \in Hosts(r.cfg) : Good(r.cfg, b, ssh, remote)
        BY <1>6, <1>7, <1>9, <3>3, SetupAssumption
      <4>2. x.host \in Hosts(x.cfg) => Fixing(x, ssh, remote)
        BY <3>2, <4>1 DEF Good, Fixing
      <4> QED
        BY <1>3, <3>2, <3>3, <4>1, <4>2 DEF CalmOK, Doctoring
    <3> QED
      BY <1>2, <1>4, <2>2, <3>2, <3>3, AloneCalm
  <2> QED
    BY <2>3, <2>4
<1> QED
  BY <1>8, <1>9 DEF CheckHost

\* A fix that is refused has nothing to do, or will be done again.
LEMMA FixingRefused ==
  ASSUME NEW r, NEW n, NEW s, NEW m, Fixed(r, n), n.host = r.host, n.cfg = r.cfg,
         Fixing(r, s, m),
         r.step \in {"write-ssh", "make-executable", "private", "fix-keychain"},
         r.step = "write-ssh" => Reached(r.cfg, r.host, s),
         r.step = "make-executable" => m[r.host].binary = "none",
         r.step = "private" => ~m[r.host].open
  PROVE  Fixing(n, s, m)
<1>1. \A fix \in Fixes : Pending(r, fix) => Pending(n, fix) \/ n.step = FirstOf(fix)
  <2>1. CASE r.fixes = <<>>
    BY <2>1 DEF Pending
  <2> QED
    BY <2>1 DEF Fixed
<1>2. Reached(n.cfg, n.host, s) \/ Pending(n, FixForward) \/ n.step \in {"read-ssh", "write-ssh"}
  BY <1>1, FixesAre DEF Fixing
<1>3. m[n.host].binary = "executable" \/ Pending(n, FixBinary) \/ n.step = "copy-binary"
  BY <1>1, FixesAre DEF Fixing
<1>4. ~m[n.host].open \/ Pending(n, FixTokenPerms) \/ n.step = "private"
  BY <1>1, FixesAre DEF Fixing
<1>5. m[n.host].skill \/ Pending(n, FixSkill) \/ n.step = "copy-skill"
  BY <1>1, FixesAre DEF Fixing
<1>6. n.step = "check-host" => n.fixes = <<>>
  BY DEF Fixed, FixSteps
<1> QED
  BY <1>2, <1>3, <1>4, <1>5, <1>6 DEF Fixing

\* How a command goes on after a failure.
LEMMA FailureLeads ==
  ASSUME NEW r \in Job, Placed(r), Suited(r), r.step # "check-host", r.step # "check-keychain",
         NEW n, n = AfterFailure(r), n # Idle
  PROVE  /\ n \in Job /\ n.cmd = r.cmd /\ n.outdated = r.outdated /\ n.calm = r.calm
         /\ r.cmd # "add-host"
         /\ r.cmd = "doctor-fix" =>
              n.host = r.host /\ n.cfg = r.cfg /\ n.todo = r.todo /\ Fixed(r, n)
<1>1. QuietTo(r, n)
  BY AfterFailureIs
<1>2. n \in Job /\ n.cmd = r.cmd /\ n.outdated = r.outdated
  BY <1>1 DEF QuietTo
<1>3. CASE r.cmd = "doctor-fix"
  <2>1. PICK s : s = [r EXCEPT !.file = <<>>]
    OBVIOUS
  <2>2. /\ s \in Job /\ s.cmd = r.cmd /\ s.host = r.host /\ s.cfg = r.cfg /\ s.todo = r.todo
        /\ s.fixes = r.fixes /\ s.calm = r.calm
    <3>1. <<>> \in Seq(Lines)
      OBVIOUS
    <3> QED
      BY <2>1, <3>1 DEF Job
  <2>3. n = NextFix(s)
    BY <1>3, <2>1 DEF AfterFailure
  <2>4. Same(s, n) /\ Fixed(s, n)
    BY <1>3, <2>2, <2>3, NextFixIs
  <2>5. Fixed(r, n)
    BY <2>2, <2>4 DEF Fixed, Pending
  <2> QED
    BY <1>2, <1>3, <2>2, <2>4, <2>5 DEF Same
<1>4. CASE r.cmd = "remove-host" /\ r.step \in {"read-ssh", "write-ssh"}
  <2>1. n = [r EXCEPT !.step = "save", !.left = <<>>, !.file = <<>>]
    BY <1>4 DEF AfterFailure
  <2>2. n.calm = r.calm
    BY <2>1 DEF Job
  <2> QED
    BY <1>2, <1>4, <2>2
<1>5. CASE \/ r.cmd = "remove-host" /\ r.step \in {"rm-binary", "rm-token", "rm-skill"}
           \/ r.cmd \in {"uninstall", "uninstall-keep-config"} /\ r.step # "delete-config"
  <2>1. n = After(r)
    BY <1>5 DEF AfterFailure
  <2>2. n.calm = r.calm
    BY <2>1, AfterIs DEF Goes, Same
  <2> QED
    BY <1>2, <1>5, <2>2
<1>6. CASE /\ r.cmd # "doctor-fix"
           /\ ~(r.cmd = "remove-host" /\ r.step \in {"read-ssh", "write-ssh"})
           /\ ~(r.cmd = "remove-host" /\ r.step \in {"rm-binary", "rm-token", "rm-skill"})
           /\ ~(r.cmd \in {"uninstall", "uninstall-keep-config"} /\ r.step # "delete-config")
  BY <1>6 DEF AfterFailure
<1> QED
  BY <1>3, <1>4, <1>5, <1>6

LEMMA FailCalm == ASSUME IInv, CalmInv, NEW p \in Proc, Fail(p) PROVE CalmInv'
<1> DEFINE r == run[p]
<1>1. r.step \notin {"check-host", "check-keychain"} /\ r # Idle
  BY IdleFields DEF Fail
<1>2. /\ r \in Job /\ Placed(r) /\ Suited(r) /\ HasStep(r.cmd, r.step)
      /\ JobOK(r, Load, ssh, whole, tokenFile, remote)
      /\ r.step \in HostSteps => r.host \in Alias
  BY <1>1, JobAt
<1>3. PICK n : n = AfterFailure(r)
  OBVIOUS
<1>4. UNCHANGED <<ssh, remote>>
  BY DEF Fail, local
<1>5. n = Idle \/ n \in Job
  BY <1>1, <1>2, <1>3, FailureLeads
<1>6. CASE run' = [run EXCEPT ![p] = IF n = Idle THEN Idle ELSE [n EXCEPT !.calm = FALSE]]
  <2>1. PICK x : x = IF n = Idle THEN Idle ELSE [n EXCEPT !.calm = FALSE]
    OBVIOUS
  <2>2. CASE n = Idle
    BY <1>1, <1>4, <1>6, <2>2, AloneCalm
  <2>3. CASE n \in Job
    <3>1. n # Idle
      BY <2>3, JobFields
    <3>2. x \in Job /\ ~x.calm
      BY <2>1, <2>3, <3>1 DEF Job
    <3> QED
      BY <1>1, <1>4, <1>6, <2>1, <3>2, AloneCalm
  <2> QED
    BY <1>5, <2>2, <2>3
<1>7. CASE Refused(p) /\ run' = [run EXCEPT ![p] = n]
  <2>1. ASSUME n # Idle, CalmOK(r, ssh, remote)
        PROVE  CalmOK(n, ssh, remote)
    <3>1. /\ n.cmd = r.cmd /\ n.outdated = r.outdated /\ r.cmd # "add-host"
          /\ r.cmd = "doctor-fix" =>
               n.host = r.host /\ n.cfg = r.cfg /\ n.todo = r.todo /\ Fixed(r, n)
      BY <1>1, <1>2, <1>3, <2>1, FailureLeads
    <3>2. ASSUME r.cmd = "doctor-fix", Fixing(r, ssh, remote)
          PROVE  Fixing(n, ssh, remote)
      <4>1. r.step \in {"write-ssh", "make-executable", "private", "fix-keychain"}
        BY <1>2, <1>7, <3>2 DEF Refused, HasStep, Inits
      <4>2. ASSUME r.step = "write-ssh"
            PROVE  Reached(r.cfg, r.host, ssh)
        <5>1. Conflicts(r.file, r.host, HostPort(r.cfg, r.host))
          BY <1>7, <4>2 DEF Refused
        <5>2. r.file = Parse(ssh)
          BY <1>2, <2>1, <4>2 DEF CalmOK, JobOK, Current
        <5>3. ssh \in Seq(Lines)
          BY DEF IInv, Types
        <5> QED
          BY <5>1, <5>2, <5>3, ParseKeeps DEF Reached
      <4>3. r.step = "make-executable" => remote[r.host].binary = "none"
        BY <1>7 DEF Refused
      <4>4. r.step = "private" => ~remote[r.host].open
        <5>1. r.step = "private" => remote[r.host].token = None /\ r.host \in Alias
          BY <1>2, <1>7 DEF Refused, HostSteps
        <5> QED
          BY <5>1 DEF CalmInv, Closed
      <4>5. PICK o : o = r
        OBVIOUS
      <4>6. Fixing(n, ssh, remote)
        BY <3>1, <3>2, <4>1, <4>2, <4>3, <4>4, <4>5, FixingRefused
      <4> QED
        BY <4>6
    <3>3. ASSUME r.cmd = "doctor-fix"
          PROVE  Doctoring(n, ssh, remote)
      BY <1>1, <2>1, <3>1, <3>2, <3>3 DEF CalmOK, Doctoring
    <3> QED
      BY <2>1, <3>1, <3>3 DEF CalmOK
  <2>2. n # Idle => n.calm = r.calm
    BY <1>1, <1>2, <1>3, FailureLeads
  <2> QED
    BY <1>1, <1>4, <1>5, <1>7, <2>1, <2>2, AloneCalm
<1> QED
  BY <1>3, <1>6, <1>7 DEF Fail

\* A file of which the first part is gone leaves its command where it is.
LEMMA HalfDoneCalm ==
  ASSUME IInv, CalmInv, NEW p \in Proc, Truncate(p) \/ RemoveEntry(p)
  PROVE  CalmInv'
<1>1. PICK x : x = run[p]
  OBVIOUS
<1>2. run \in Runs /\ x \in Job \cup {Idle}
  BY <1>1 DEF IInv, Types, Runs
<1>3. run = [run EXCEPT ![p] = x]
  BY <1>1, <1>2 DEF Runs
<1>4. PICK file : file = "config"
  OBVIOUS
<1>5. /\ run[p].step \in {"store", "delete-config"} /\ UNCHANGED <<ssh, remote>>
      /\ run' = Stale(run) \/ run' = Stale(Outdate(run, p, file))
  BY <1>4 DEF Truncate, RemoveEntry, At
<1>6. \/ run' = Stale([run EXCEPT ![p] = x])
      \/ run' = Stale(Outdate([run EXCEPT ![p] = x], p, file))
  BY <1>3, <1>5
<1>7. PICK S : S = {}
  OBVIOUS
<1>8. file \in {"config", "ssh"} /\ \A q \in S : q \in Proc \ {p} /\ run[q] # Idle
  BY <1>4, <1>7
<1>9. Steady(p) /\ (run'[p] # Idle => Alike(x, run'[p]))
  BY <1>2, <1>6, <1>8, ShapesSteady
<1>10. run[p] # Idle /\ run[p].cmd \notin {"add-host", "doctor-fix"}
  <2>1. run[p].step \in Step
    BY <1>5 DEF Step
  <2>2. HasStep(run[p].cmd, run[p].step) /\ run[p] \in Job
    BY <2>1, JobAt
  <2> QED
    BY <1>5, <2>2, IdleFields DEF HasStep, Inits
<1>11. run'[p] # Idle /\ run'[p].calm => run[p].calm /\ CalmOK(run'[p], ssh', remote')
  BY <1>1, <1>9, <1>10 DEF Alike, CalmInv, CalmOK
<1>12. Closed(remote')
  BY <1>5 DEF CalmInv
<1> QED
  BY <1>9, <1>10, <1>11, <1>12, CalmKept

LEMMA BreakOffCalm == ASSUME IInv, CalmInv, NEW p \in Proc, BreakOff(p) PROVE CalmInv'
<1> DEFINE r == run[p]
           h == r.host
<1>1. r.step = "copy-token" /\ r.step \in Step /\ ssh' = ssh
  BY DEF BreakOff, At, Step, local
<1>2. r \in Job /\ r # Idle /\ h \in Alias
  BY <1>1, JobAt, JobFields DEF HostSteps
<1>3. run \in Runs /\ remote \in [Alias -> Installed]
  BY DEF IInv, Types
<1>4. PICK file : file = "ssh"
  OBVIOUS
<1>5. PICK x : x = Idle
  OBVIOUS
<1>6. PICK S : S = Others(p, h)
  OBVIOUS
<1>7. \A q \in S : q \in Proc \ {p} /\ run[q] # Idle
  BY <1>6 DEF Others
<1>8. run' = Losing(run, p, x, S)
  BY <1>5, <1>6 DEF BreakOff, Losing
<1>9. Steady(p) /\ (run'[p] # Idle => Alike(x, run'[p]))
  BY <1>3, <1>4, <1>5, <1>7, <1>8, ShapesSteady
<1>10. run'[p] = Idle
  BY <1>5, <1>9, IdleFields, JobFields DEF Alike
<1>11. Closed(remote')
  <2>1. PICK y : y = [remote[h] EXCEPT !.token = Torn]
    OBVIOUS
  <2>2. y \in Installed /\ y.token = Torn
    BY <1>2, <1>3, <2>1 DEF Installed
  <2>3. remote' = [remote EXCEPT ![h] = y]
    BY <1>2, <1>3, <2>1 DEF BreakOff
  <2>4. remote'[h] = y /\ \A b \in Alias \ {h} : remote'[b] = remote[b]
    BY <1>2, <1>3, <2>2, <2>3, InstalledIs
  <2> QED
    BY <2>2, <2>4, SetupAssumption DEF CalmInv, Closed
<1> QED
  BY <1>2, <1>9, <1>10, <1>11, CalmKept

LEMMA StartCalm ==
  ASSUME IInv, CalmInv, NEW p \in Proc, NEW cmd, NEW alias, NEW cfg, NEW plan,
         Start(p, cmd, alias, cfg, plan),
         cmd = "add-host" => Head(plan) = "copy-binary",
         cmd = "doctor-fix" => Head(plan) = "check-keychain"
  PROVE  CalmInv'
<1>1. PICK alone \in BOOLEAN : alone = (Running = {})
  OBVIOUS
<1>2. PICK x : x = [Idle EXCEPT !.cmd = cmd, !.step = Head(plan), !.left = Tail(plan),
                                !.host = alias, !.cfg = cfg, !.calm = alone]
  OBVIOUS
<1>3. /\ run' = [q \in Proc |-> IF q = p THEN x
                                ELSE IF run[q] = Idle THEN Idle ELSE [run[q] EXCEPT !.calm = FALSE]]
      /\ UNCHANGED <<ssh, remote>>
  BY <1>1, <1>2 DEF Start, local
<1>4. x.calm = alone /\ x.cmd = cmd /\ x.step = Head(plan) /\ x.outdated = {}
  BY <1>2 DEF Idle
<1>5. \A q \in Proc \ {p} :
        /\ run'[q] # Idle => ~run'[q].calm
        /\ run[q] = Idle => run'[q] = Idle
  <2> SUFFICES ASSUME NEW q \in Proc \ {p}
               PROVE  /\ run'[q] # Idle => ~run'[q].calm
                      /\ run[q] = Idle => run'[q] = Idle
    OBVIOUS
  <2>1. run'[q] = IF run[q] = Idle THEN Idle ELSE [run[q] EXCEPT !.calm = FALSE]
    BY <1>3
  <2>2. ASSUME run[q] # Idle
        PROVE  ~run'[q].calm
    <3>1. run[q] \in Job
      BY <2>2 DEF IInv, Types, Runs
    <3>2. PICK y : y = [run[q] EXCEPT !.calm = FALSE]
      OBVIOUS
    <3>3. ~y.calm
      BY <3>1, <3>2 DEF Job
    <3> QED
      BY <2>1, <2>2, <3>2, <3>3
  <2> QED
    BY <2>1, <2>2
<1>6. run'[p] = x
  BY <1>3
<1>7. alone => \A q \in Proc \ {p} : run'[q] = Idle
  BY <1>1, <1>5 DEF Running
<1>8. CalmOK(x, ssh, remote)
  BY <1>4 DEF CalmOK, Adding, Doctoring, AfterBinary, AfterToken, AfterPrivate, AfterSkill
<1> QED
  BY <1>3, <1>4, <1>5, <1>6, <1>7, <1>8 DEF CalmInv

LEMMA RunHostedCalm ==
  ASSUME IInv, CalmInv, NEW p \in Proc, NEW alias \in Alias,
         \/ \E tokenOnly \in BOOLEAN : RunAddHost(p, alias, tokenOnly)
         \/ RunRemoveHost(p, alias)
         \/ RunRevoke(p, alias)
  PROVE  CalmInv'
<1>1. CASE \E tokenOnly \in BOOLEAN : RunAddHost(p, alias, tokenOnly)
  <2>1. PICK plan : plan = Append(InstallPlan, "save")
    OBVIOUS
  <2>2. plan[1] = "copy-binary" /\ plan \in Seq(Step) /\ plan # <<>>
    BY <2>1, StartPlans
  <2>3. Head(plan) = "copy-binary"
    BY <2>2, HeadTail
  <2>4. \/ Start(p, "update-token", alias, Load, Append(TokenPlan, "save"))
        \/ Start(p, "add-host", alias, Load, plan)
    BY <1>1, <2>1 DEF RunAddHost
  <2> QED
    BY <2>3, <2>4, StartCalm
<1>2. CASE RunRemoveHost(p, alias)
  BY <1>2, StartCalm DEF RunRemoveHost
<1>3. CASE RunRevoke(p, alias)
  BY <1>3, StartCalm DEF RunRevoke
<1> QED
  BY <1>1, <1>2, <1>3

LEMMA RunOtherCalm ==
  ASSUME IInv, CalmInv, NEW p \in Proc,
         \/ \E keychainless \in BOOLEAN, port \in Port : RunInit(p, keychainless, port)
         \/ RunRotateToken(p)
         \/ RunDoctor(p)
         \/ \E keepConfig \in BOOLEAN : RunUninstall(p, keepConfig)
         \/ \E cmd \in {"start", "stop", "restart"} : RunService(p, cmd)
  PROVE  CalmInv'
<1>1. CASE \E keychainless \in BOOLEAN, port \in Port : RunInit(p, keychainless, port)
  <2>1. PICK cmd, port, plan : cmd \in Inits /\ Start(p, cmd, None, Default(port), plan)
    BY <1>1 DEF RunInit, Inits
  <2> QED
    BY <2>1, StartCalm DEF Inits
<1>2. CASE RunRotateToken(p)
  BY <1>2, StartCalm DEF RunRotateToken
<1>3. CASE RunDoctor(p)
  <2>1. Head(<<"check-keychain", "check-host">>) = "check-keychain"
    OBVIOUS
  <2> QED
    BY <1>3, <2>1, StartCalm DEF RunDoctor
<1>4. CASE \E keepConfig \in BOOLEAN : RunUninstall(p, keepConfig)
  <2>1. PICK cmd, plan : /\ cmd \in {"uninstall", "uninstall-keep-config"}
                         /\ Start(p, cmd, None, Load, plan)
    BY <1>4 DEF RunUninstall
  <2> QED
    BY <2>1, StartCalm
<1>5. CASE \E cmd \in {"start", "stop", "restart"} : RunService(p, cmd)
  BY <1>5, StartCalm DEF RunService
<1> QED
  BY <1>1, <1>2, <1>3, <1>4, <1>5

-----------------------------------------------------------------------------
(* What a command that ran alone leaves behind.                            *)

LEMMA InitCalm == Init => CalmInv
<1> SUFFICES ASSUME Init
             PROVE  CalmInv
  OBVIOUS
<1>1. \A p \in Proc : run[p] = Idle
  BY DEF Init
<1>2. CASE remote = [a \in Alias |-> Nothing]
  BY <1>1, <1>2 DEF CalmInv, Closed, Nothing
<1>3. ASSUME NEW a \in Alias,
             remote = [b \in Alias |-> IF b # a THEN Nothing ELSE
                         [binary |-> "executable", token |-> 1, open |-> FALSE, skill |-> TRUE]]
      PROVE  CalmInv
  BY <1>1, <1>3 DEF CalmInv, Closed, Nothing
<1> QED
  BY <1>2, <1>3 DEF Init

LEMMA NextCalm == IInv /\ CalmInv /\ [Next]_vars => CalmInv'
<1> SUFFICES ASSUME IInv, CalmInv, [Next]_vars
             PROVE  CalmInv'
  OBVIOUS
<1>1. CASE UNCHANGED vars
  BY <1>1 DEF vars, local, CalmInv
<1>2. ASSUME NEW p \in Proc, NEW alias \in Alias,
             \/ \E tokenOnly \in BOOLEAN : RunAddHost(p, alias, tokenOnly)
             \/ RunRemoveHost(p, alias)
             \/ RunRevoke(p, alias)
      PROVE  CalmInv'
  BY <1>2, RunHostedCalm
<1>3. ASSUME NEW p \in Proc,
             \/ \E keychainless \in BOOLEAN, port \in Port : RunInit(p, keychainless, port)
             \/ RunRotateToken(p)
             \/ RunDoctor(p)
             \/ \E keepConfig \in BOOLEAN : RunUninstall(p, keepConfig)
             \/ \E cmd \in {"start", "stop", "restart"} : RunService(p, cmd)
      PROVE  CalmInv'
  BY <1>3, RunOtherCalm
<1>4. ASSUME NEW p \in Proc,
             \/ CopyBinary(p)
             \/ MakeExecutable(p)
             \/ CopyToken(p)
             \/ Private(p)
             \/ Verify(p)
             \/ CopySkill(p)
             \/ Remove(p)
      PROVE  CalmInv'
  BY <1>4, InstallsCalm, CopyTokenCalm, LocalCalm, RemoveCalm
<1>5. ASSUME NEW p \in Proc,
             \/ ReadSSH(p)
             \/ AddForward(p)
             \/ RemoveForward(p)
             \/ Save(p)
             \/ Truncate(p)
             \/ Store(p)
             \/ DeleteToken(p)
             \/ RemoveEntry(p)
             \/ DeleteConfig(p)
      PROVE  CalmInv'
  BY <1>5, ReadSSHCalm, AddForwardCalm, RemoveForwardCalm, StoredCalm, HalfDoneCalm
<1>6. ASSUME NEW p \in Proc,
             \/ InstallUnit(p)
             \/ StartService(p)
             \/ RestartService(p)
             \/ StopService(p)
             \/ RemoveUnit(p)
             \/ FixKeychain(p)
      PROVE  CalmInv'
  BY <1>6, LocalCalm
<1>7. ASSUME NEW p \in Proc,
             \/ CheckKeychain(p)
             \/ CheckHost(p)
             \/ Fail(p)
             \/ BreakOff(p)
             \/ Kill(p)
      PROVE  CalmInv'
  BY <1>7, CheckKeychainCalm, CheckHostCalm, FailCalm, BreakOffCalm, KillCalm
<1> QED
  BY <1>1, <1>2, <1>3, <1>4, <1>5, <1>6, <1>7 DEF Next

\* A command that ran alone ends with its last step.
LEMMA EndsAt ==
  ASSUME IInv, CalmInv, [Next]_vars, NEW p \in Proc, run[p] # Idle, run[p].calm,
         run[p].step \in {"save", "check-host"}, run'[p] = Idle, faults' = faults
  PROVE  Save(p) \/ CheckHost(p)
<1>1. /\ \A q \in Proc \ {p} : run[q] = Idle
      /\ run[p] \in Job /\ faults \in Nat
  BY SetupAssumption DEF CalmInv, IInv, Types, Runs
<1>2. \A o \in Proc : run[o].step \notin Step \ {"save", "check-host"}
  BY <1>1, IdleFields
<1>3. \A o \in Proc : run[o] # Idle => o = p
  BY <1>1
<1>4. \A o \in Proc : \A cmd, alias, cfg, plan : ~Start(o, cmd, alias, cfg, plan)
  <2> SUFFICES ASSUME NEW o \in Proc, NEW cmd, NEW alias, NEW cfg, NEW plan,
                      Start(o, cmd, alias, cfg, plan)
               PROVE  FALSE
    OBVIOUS
  <2>1. o # p
    BY DEF Start
  <2>2. run'[p] = [run[p] EXCEPT !.calm = FALSE]
    BY <2>1 DEF Start
  <2>3. PICK y : y = [run[p] EXCEPT !.calm = FALSE]
    OBVIOUS
  <2>4. y \in Job
    BY <1>1, <2>3 DEF Job
  <2> QED
    BY <2>2, <2>3, <2>4, IdleFields
<1>5. run' # run
  OBVIOUS
<1>6. CASE UNCHANGED vars
  BY <1>5, <1>6 DEF vars
<1>7. ASSUME NEW o \in Proc, NEW alias \in Alias,
             \/ \E tokenOnly \in BOOLEAN : RunAddHost(o, alias, tokenOnly)
             \/ RunRemoveHost(o, alias)
             \/ RunRevoke(o, alias)
      PROVE  FALSE
  BY <1>4, <1>7 DEF RunAddHost, RunRemoveHost, RunRevoke
<1>8. ASSUME NEW o \in Proc,
             \/ \E keychainless \in BOOLEAN, port \in Port : RunInit(o, keychainless, port)
             \/ RunRotateToken(o)
             \/ RunDoctor(o)
             \/ \E keepConfig \in BOOLEAN : RunUninstall(o, keepConfig)
             \/ \E cmd \in {"start", "stop", "restart"} : RunService(o, cmd)
      PROVE  FALSE
  BY <1>4, <1>8 DEF RunInit, RunRotateToken, RunDoctor, RunUninstall, RunService
<1>9. ASSUME NEW o \in Proc,
             \/ CopyBinary(o)
             \/ MakeExecutable(o)
             \/ CopyToken(o)
             \/ Private(o)
             \/ Verify(o)
             \/ CopySkill(o)
             \/ Remove(o)
      PROVE  FALSE
  <2>1. run[o].step \in Step \ {"save", "check-host"}
    BY <1>9 DEF CopyBinary, MakeExecutable, CopyToken, Private, Verify, CopySkill, Remove, At, Step
  <2> QED
    BY <1>2, <2>1
<1>10. ASSUME NEW o \in Proc,
              \/ ReadSSH(o)
              \/ AddForward(o)
              \/ RemoveForward(o)
              \/ Truncate(o)
              \/ Store(o)
              \/ DeleteToken(o)
              \/ RemoveEntry(o)
              \/ DeleteConfig(o)
       PROVE  FALSE
  <2>1. run[o].step \in Step \ {"save", "check-host"}
    BY <1>10 DEF ReadSSH, AddForward, RemoveForward, Truncate, Store, DeleteToken, RemoveEntry,
       DeleteConfig, At, Step
  <2> QED
    BY <1>2, <2>1
<1>11. ASSUME NEW o \in Proc,
              \/ InstallUnit(o)
              \/ StartService(o)
              \/ RestartService(o)
              \/ StopService(o)
              \/ RemoveUnit(o)
              \/ CheckKeychain(o)
              \/ FixKeychain(o)
              \/ BreakOff(o)
       PROVE  FALSE
  <2>1. run[o].step \in Step \ {"save", "check-host"}
    BY <1>11 DEF InstallUnit, StartService, RestartService, StopService, RemoveUnit, CheckKeychain,
       FixKeychain, BreakOff, At, Step
  <2> QED
    BY <1>2, <2>1
<1>12. ASSUME NEW o \in Proc, Save(o) \/ CheckHost(o)
       PROVE  o = p
  <2>1. run[o].step \in Step
    BY <1>12 DEF Save, CheckHost, At, Step
  <2> QED
    BY <1>3, <2>1, IdleFields
<1>13. ASSUME NEW o \in Proc, Fail(o) \/ Kill(o)
       PROVE  FALSE
  <2>1. o = p
    BY <1>3, <1>13, IdleFields DEF Fail, Kill
  <2>2. faults' # faults + 1
    BY <1>1
  <2>3. ~Kill(o)
    BY <2>2 DEF Kill
  <2>4. Refused(p) /\ run[p].step = "save"
    BY <1>13, <2>1, <2>2, <2>3 DEF Fail
  <2> QED
    BY <2>4 DEF Refused
<1> QED
  BY <1>6, <1>7, <1>8, <1>9, <1>10, <1>11, <1>12, <1>13 DEF Next

LEMMA AddSuccess ==
  ASSUME IInv, CalmInv, [Next]_vars, NEW p \in Proc, Succeeds(p, "add-host", "save")
  PROVE  /\ Healthy(config', run[p].host) /\ remote[run[p].host].token # None
         /\ ~Conflicts(ssh, run[p].host, HostPort(config', run[p].host))
<1> DEFINE r == run[p]
           h == r.host
<1>1. r.cmd = "add-host" /\ r.step = "save" /\ r.calm /\ run'[p] = Idle /\ faults' = faults
  BY DEF Succeeds
<1>2. r # Idle /\ r.step \in Step
  BY <1>1, IdleFields DEF Step
<1>3. r \in Job /\ Suited(r) /\ JobOK(r, Load, ssh, whole, tokenFile, remote)
  BY <1>2, JobAt
<1>4. h \in Alias /\ r.cfg \in Config /\ OnePort(r.cfg)
  BY <1>1, <1>3, JobFields DEF Suited, Hosted, JobOK, Current
<1>5. Adding(r, ssh, remote)
  BY <1>1, <1>2 DEF CalmInv, CalmOK
<1>6. config' = AfterCommand(r.cmd, r.cfg, h)
  <2>1. Save(p)
    BY <1>1, <1>2, EndsAt DEF CheckHost, At
  <2> QED
    BY <2>1 DEF Save
<1>7. HostPort(config', h) = HostPort(r.cfg, h)
  BY <1>1, <1>4, <1>6, AfterCommandIs DEF Hosted
<1> QED
  BY <1>1, <1>5, <1>7 DEF Adding, Healthy, AfterBinary, AfterToken, AfterPrivate, AfterSkill

LEMMA DoctorSuccess ==
  ASSUME IInv, CalmInv, [Next]_vars, NEW p \in Proc, Succeeds(p, "doctor-fix", "check-host"),
         NEW h \in Hosts(Load)
  PROVE  Healthy(Load, h)
<1> DEFINE r == run[p]
<1>1. /\ r.cmd = "doctor-fix" /\ r.step = "check-host" /\ r.calm
      /\ run'[p] = Idle /\ faults' = faults
  BY DEF Succeeds
<1>2. r # Idle /\ r.step \in Step
  BY <1>1, IdleFields DEF Step
<1>3. r \in Job /\ JobOK(r, Load, ssh, whole, tokenFile, remote)
  BY <1>2, JobAt
<1>4. CalmOK(r, ssh, remote)
  BY <1>1, <1>2 DEF CalmInv
<1>5. r.cfg = Load
  BY <1>1, <1>3, <1>4 DEF CalmOK, JobOK, Current, Inits
<1>6. CheckHost(p)
  BY <1>1, <1>2, EndsAt DEF Save, At
<1>7. r.todo = {}
  <2>1. run \in Runs
    BY DEF IInv, Types
  <2>2. ASSUME NEW a \in r.todo \ {None}, NEW answers \in BOOLEAN,
               run' = [run EXCEPT ![p] = NextFix([r EXCEPT
                         !.todo = @ \ {a}, !.host = a, !.calm = @ /\ answers,
                         !.fixes = Failing(r.cfg, a, answers)])]
        PROVE  FALSE
    <3>1. PICK F : F = Failing(r.cfg, a, answers)
      OBVIOUS
    <3>2. PICK c : c = (r.calm /\ answers)
      OBVIOUS
    <3>3. PICK s : s = [r EXCEPT !.todo = @ \ {a}, !.host = a, !.calm = c, !.fixes = F]
      OBVIOUS
    <3>4. PICK x : x = NextFix(s)
      OBVIOUS
    <3>5. run'[p] = x
      BY <2>1, <2>2, <3>1, <3>2, <3>3, <3>4 DEF Runs
    <3> HIDE DEF r
    <3>6. a \in Alias /\ F \in Seq(Fixes) /\ c \in BOOLEAN
      BY <1>3, <3>1, <3>2, FailingIs, JobFields
    <3>7. r.todo \ {a} \in SUBSET (Alias \cup {None})
      BY <1>3, JobFields
    <3>8. s \in Job /\ s.cmd = r.cmd
      BY <1>3, <3>3, <3>6, <3>7 DEF Job
    <3>9. x \in Job
      BY <1>1, <3>4, <3>8, NextFixIs DEF Same
    <3> QED
      BY <1>1, <3>5, <3>9, IdleFields
  <2>3. ASSUME r.todo # {}, run' = [run EXCEPT ![p] = [r EXCEPT !.step = "fix-keychain", !.todo = {}]]
        PROVE  FALSE
    <3>1. PICK x : x = [r EXCEPT !.step = "fix-keychain", !.todo = {}]
      OBVIOUS
    <3>2. x \in Job
      BY <1>3, <3>1 DEF Job, Step
    <3>3. run'[p] = x
      BY <2>1, <2>3, <3>1 DEF Runs
    <3> QED
      BY <1>1, <3>2, <3>3, IdleFields
  <2> QED
    BY <1>6, <2>2, <2>3 DEF CheckHost
<1>8. Good(Load, h, ssh, remote)
  <2>1. PICK o : o = r
    OBVIOUS
  <2>2. \A b \in Hosts(o.cfg) \ o.todo : Good(o.cfg, b, ssh, remote)
    BY <1>1, <1>4, <2>1, CheckedGood
  <2> QED
    BY <1>5, <1>7, <2>1, <2>2
<1> QED
  BY <1>8 DEF Good, Reached, Healthy

\* However the machine and the hosts were left by failed, killed and concurrent commands: an
\* add-host, or a doctor --fix, that runs alone and ends well leaves nothing that doctor could
\* have fixed (Installer.Install, RunHostChecks and the fixes).
THEOREM LoneSuccessIsHealthy == Spec => SuccessMeansHealthy
<1>1. IInv /\ CalmInv /\ [Next]_vars
      => [\A p \in Proc :
            /\ Succeeds(p, "add-host", "save") =>
                 /\ Healthy(config', run[p].host) /\ remote[run[p].host].token # None
                 /\ ~Conflicts(ssh, run[p].host, HostPort(config', run[p].host))
            /\ Succeeds(p, "doctor-fix", "check-host") => \A h \in Hosts(Load) : Healthy(Load, h)]_vars
  BY AddSuccess, DoctorSuccess
<1> QED
  BY <1>1, InitInv, NextInv, InitCalm, NextCalm, PTL DEF Spec, SuccessMeansHealthy
====
