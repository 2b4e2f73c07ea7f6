---------------------------- MODULE LaunchProofs ----------------------------
(***************************************************************************)
(* A launch runs every thread of its grid once, block after block, for     *)
(* every warp size, word size, grid and block that 32 bits can count; and  *)
(* whatever the sizes it runs no thread twice and none outside the grid.   *)
(***************************************************************************)
EXTENDS Launch, FiniteSetTheorems, TLAPS

-----------------------------------------------------------------------------
(* Arithmetic                                                              *)

\* Quotient and remainder.
LEMMA DivMod ==
    ASSUME NEW a \in Nat, NEW b \in Nat \ {0}
    PROVE  a = (a \div b) * b + (a % b) /\ a % b \in 0..b - 1 /\ a \div b \in Nat
OBVIOUS

\* They are unique.
LEMMA DivUnique ==
    ASSUME NEW b \in Nat \ {0}, NEW q \in Nat, NEW r \in 0..b - 1
    PROVE  (q * b + r) \div b = q /\ (q * b + r) % b = r
OBVIOUS

\* Multiplication by a natural number is monotonic.
LEMMA TimesMonotonic ==
    ASSUME NEW a \in Nat, NEW b \in Nat, NEW c \in Nat, a <= b
    PROVE  a * c <= b * c
OBVIOUS

\* Products of natural numbers.
LEMMA Product ==
    ASSUME NEW a \in Nat, NEW b \in Nat
    PROVE  a * b \in Nat /\ a * b = b * a /\ (a + 1) * b = a * b + b
OBVIOUS

\* A quotient is no larger than the number.
LEMMA QuotientSmaller ==
    ASSUME NEW a \in Nat, NEW b \in Nat \ {0}
    PROVE  a \div b <= a
OBVIOUS

\* The number is less than one divisor above a multiple by the quotient.
LEMMA QuotientAbove ==
    ASSUME NEW a \in Nat, NEW b \in Nat \ {0}
    PROVE  a \div b \in Nat /\ (a \div b) * b \in Nat /\ a < (a \div b) * b + b
<1>1. a = (a \div b) * b + (a % b) /\ a % b \in 0..b - 1 /\ a \div b \in Nat
  BY DivMod
<1>2. (a \div b) * b \in Nat
  BY <1>1
<1> QED
  BY <1>1, <1>2

\* A remainder is no larger than the number.
LEMMA ModSmaller ==
    ASSUME NEW a \in Nat, NEW b \in Nat \ {0}
    PROVE  a % b \in Nat /\ a % b <= a /\ (a < b => a % b = a)
<1>1. a % b \in Nat /\ a % b < b /\ a \div b \in Nat
  BY DivMod
<1>2. a = (a \div b) * b + (a % b) /\ (a \div b) * b \in Nat
  BY DivMod, <1>1
<1>3. ASSUME a < b PROVE a % b = a
  BY <1>3
<1> QED
  BY <1>1, <1>2, <1>3

\* A number below a product has its quotient below the other factor.
LEMMA QuotientInside ==
    ASSUME NEW n \in Nat \ {0}, NEW m \in Nat, NEW i \in Nat, i < n * m
    PROVE  i \div n \in 0..m - 1
<1>1. i \div n \in Nat /\ i = (i \div n) * n + (i % n) /\ i % n \in Nat
  BY DivMod
<1>2. ASSUME m <= i \div n PROVE FALSE
  <2>1. m * n <= (i \div n) * n
    BY <1>1, <1>2, TimesMonotonic
  <2>2. m * n = n * m /\ (i \div n) * n \in Nat /\ m * n \in Nat
    BY <1>1
  <2> QED
    BY <1>1, <2>1, <2>2
<1> QED
  BY <1>1, <1>2

-----------------------------------------------------------------------------
(* Geometry                                                                *)

\* The lanes of a block, in numbers.
LEMMA LanesOfBlock ==
    ASSUME block \in Dim2
    PROVE  /\ Count(block) \in Words /\ Count(block) <= block.x * block.y
           /\ block.x \in Nat /\ block.y \in Nat /\ block.x * block.y \in Nat
           /\ WarpCount \in Words
           /\ \A e \in LiveLanes :
                 /\ e[1] \in Nat /\ e[2] \in 0..WarpSize - 1 /\ e = <<e[1], e[2]>>
                 /\ e[1] \in Words /\ e[2] \in Words
                 /\ LinearIndex(e[1], e[2]) \in Nat
                 /\ LinearIndex(e[1], e[2]) < Count(block)
<1>1. WarpSize \in Nat \ {0} /\ WordRange \in Nat \ {0}
  BY LaunchAssumption
<1>2. block.x \in Nat /\ block.y \in Nat
  BY <1>1 DEF Dim2, Words
<1>3. block.x * block.y \in Nat
  BY <1>2
<1>4. Count(block) \in Words /\ Count(block) <= block.x * block.y
  BY <1>1, <1>3, ModSmaller, DivMod DEF Count, Words
<1>5. WarpCount \in Words
  <2> DEFINE n == (Count(block) + WarpSize - 1) % WordRange
  <2>1. Count(block) \in Nat
    BY <1>1, <1>4 DEF Words
  <2>2. n \in Nat /\ n < WordRange
    <3>1. Count(block) + WarpSize - 1 \in Nat
      BY <1>1, <2>1
    <3> QED
      BY <1>1, <3>1, DivMod
  <2> HIDE DEF n
  <2>3. n \div WarpSize \in Nat /\ n \div WarpSize <= n
    BY <1>1, <2>2, DivMod, QuotientSmaller
  <2> QED
    BY <1>1, <2>2, <2>3 DEF WarpCount, n, Words
<1>6. ASSUME NEW e \in LiveLanes
      PROVE  /\ e[1] \in Nat /\ e[2] \in 0..WarpSize - 1 /\ e = <<e[1], e[2]>>
             /\ e[1] \in Words /\ e[2] \in Words
             /\ LinearIndex(e[1], e[2]) \in Nat
             /\ LinearIndex(e[1], e[2]) < Count(block)
  <2>1. /\ e \in (0..WarpCount - 1) \X (0..WarpSize - 1)
        /\ LinearIndex(e[1], e[2]) < Count(block)
    BY DEF LiveLanes
  <2>2. e[1] \in 0..WarpCount - 1 /\ e[2] \in 0..WarpSize - 1 /\ e = <<e[1], e[2]>>
    BY <2>1
  <2>3. WarpCount \in Nat /\ WarpCount < WordRange /\ Count(block) < WordRange
    BY <1>1, <1>4, <1>5 DEF Words
  <2>4. e[1] * WarpSize \in Nat
    BY <1>1, <2>2
  <2>5. e[1] \in Words
    BY <1>1, <2>2, <2>3 DEF Words
  <2>6. LinearIndex(e[1], e[2]) \in Nat /\ e[2] <= LinearIndex(e[1], e[2])
    BY <1>1, <2>2, <2>4 DEF LinearIndex
  <2>7. e[2] \in Words
    BY <1>1, <1>4, <2>1, <2>2, <2>3, <2>6 DEF Words
  <2> QED
    BY <2>1, <2>2, <2>5, <2>6, <2>7
<1> QED
  BY <1>2, <1>3, <1>4, <1>5, <1>6

\* Two lanes of a block are two threads.
LEMMA ThreadInjective ==
    ASSUME block \in Dim2, Count(block) # 0,
           NEW e \in LiveLanes, NEW f \in LiveLanes, Thread(e) = Thread(f)
    PROVE  e = f
<1> DEFINE i == LinearIndex(e[1], e[2])
           j == LinearIndex(f[1], f[2])
<1>1. WarpSize \in Nat \ {0}
  BY LaunchAssumption
<1>2. /\ i \in Nat /\ j \in Nat
      /\ e[1] \in Nat /\ e[2] \in 0..WarpSize - 1 /\ e = <<e[1], e[2]>>
      /\ f[1] \in Nat /\ f[2] \in 0..WarpSize - 1 /\ f = <<f[1], f[2]>>
      /\ i < Count(block)
  BY LanesOfBlock
<1>3. block.x \in Nat \ {0}
  <2>1. block.x \in Nat /\ block.y \in Nat /\ Count(block) <= block.x * block.y
        /\ Count(block) \in Nat
    BY LanesOfBlock DEF Words
  <2>2. block.x = 0 => block.x * block.y = 0
    BY <2>1
  <2> QED
    BY <2>1, <2>2
<1>4. i % block.x = j % block.x /\ i \div block.x = j \div block.x
  BY DEF Thread
<1> HIDE DEF i, j
<1>5. i = j
  BY <1>2, <1>3, <1>4, DivMod
<1>6. i = e[1] * WarpSize + e[2] /\ j = f[1] * WarpSize + f[2]
  BY DEF i, j, LinearIndex
<1>7. e[1] = i \div WarpSize /\ e[2] = i % WarpSize
  BY <1>1, <1>2, <1>6, DivUnique
<1>8. f[1] = j \div WarpSize /\ f[2] = j % WarpSize
  BY <1>1, <1>2, <1>6, DivUnique
<1> QED
  BY <1>2, <1>5, <1>7, <1>8

\* A lane is a thread of its block.
LEMMA ThreadInside ==
    ASSUME block \in Dim2, grid \in Dim2, Count(block) # 0, NEW e \in LiveLanes,
           ctaid \in Coordinates(grid)
    PROVE  Thread(e) \in Threads /\ Thread(e).ctaid = ctaid
<1> DEFINE i == LinearIndex(e[1], e[2])
<1>1. /\ i \in Nat /\ i < Count(block) /\ Count(block) <= block.x * block.y
      /\ block.x \in Nat /\ block.y \in Nat /\ Count(block) \in Nat
  BY LanesOfBlock DEF Words
<1>2. block.x \in Nat \ {0} /\ block.x * block.y \in Nat
  <2>1. block.x = 0 => block.x * block.y = 0
    BY <1>1
  <2> QED
    BY <1>1, <2>1
<1> HIDE DEF i
<1>3. i < block.x * block.y
  BY <1>1, <1>2
<1>4. i \div block.x \in 0..block.y - 1
  BY <1>1, <1>2, <1>3, QuotientInside
<1>5. i % block.x \in 0..block.x - 1
  BY <1>1, <1>2, DivMod
<1> QED
  BY <1>4, <1>5 DEF Thread, Threads, Coordinates, i

\* If 32 bits count the lanes of a block, every thread of it is one of its lanes.
LEMMA ThreadSurjective ==
    ASSUME block \in Dim2, BlockFits, NEW t \in Threads, t.ctaid = ctaid
    PROVE  \E e \in LiveLanes : Thread(e) = t
<1> DEFINE n == block.x * block.y
           i == t.tid.y * block.x + t.tid.x
           w == i \div WarpSize
           l == i % WarpSize
<1>1. WarpSize \in Nat \ {0} /\ WordRange \in Nat \ {0}
  BY LaunchAssumption
<1>2. block.x \in Nat /\ block.y \in Nat /\ n \in Nat
  BY LanesOfBlock
<1>3. t.tid.x \in 0..block.x - 1 /\ t.tid.y \in 0..block.y - 1
  BY DEF Threads, Coordinates
<1>4. i \in Nat /\ i < n
  <2>1. block.x \in Nat /\ block.y \in Nat /\ t.tid.x \in Nat /\ t.tid.y \in Nat
        /\ t.tid.x < block.x /\ t.tid.y + 1 <= block.y
    BY <1>2, <1>3
  <2>2. (t.tid.y + 1) * block.x <= block.y * block.x
    BY <2>1, TimesMonotonic
  <2>3. (t.tid.y + 1) * block.x = t.tid.y * block.x + block.x
        /\ block.y * block.x = n /\ t.tid.y * block.x \in Nat
    BY <2>1, Product
  <2> QED
    BY <2>1, <2>2, <2>3
<1>5. n + WarpSize - 1 < WordRange
  BY DEF BlockFits
<1>6. Count(block) = n
  BY <1>1, <1>2, <1>5, ModSmaller DEF Count
<1>7. i \div block.x = t.tid.y /\ i % block.x = t.tid.x
  <2>1. block.x \in Nat \ {0} /\ t.tid.y \in Nat
    BY <1>2, <1>3
  <2> QED
    BY <1>3, <2>1, DivUnique
<1> HIDE DEF i, n
<1>8. /\ w \in Nat /\ l \in 0..WarpSize - 1
      /\ i = w * WarpSize + l
  BY <1>1, <1>4, DivMod
<1>9. LinearIndex(w, l) = i
  BY <1>8 DEF LinearIndex
<1>10. w < WarpCount
  <2>1. WarpCount = (n + WarpSize - 1) \div WarpSize
    <3>1. n + WarpSize - 1 \in Nat
      BY <1>1, <1>2
    <3> QED
      BY <1>1, <1>5, <1>6, <3>1, ModSmaller DEF WarpCount
  <2> DEFINE q == (n + WarpSize - 1) \div WarpSize
  <2>2. n + WarpSize - 1 \in Nat
    BY <1>1, <1>2
  <2>3. q \in Nat /\ n + WarpSize - 1 < q * WarpSize + WarpSize /\ q * WarpSize \in Nat
    BY <1>1, <2>2, QuotientAbove
  <2> HIDE DEF q
  <2>4. ASSUME q <= w PROVE FALSE
    <3>1. q * WarpSize <= w * WarpSize /\ w * WarpSize \in Nat
      BY <1>1, <1>8, <2>3, <2>4, TimesMonotonic
    <3> HIDE DEF w, l
    <3> QED
      BY <1>1, <1>2, <1>4, <1>8, <2>3, <3>1
  <2> QED
    BY <1>8, <2>1, <2>3, <2>4 DEF q
<1>11. WarpCount \in Nat
  BY LanesOfBlock, <1>1 DEF Words
<1> HIDE DEF w, l
<1>12. <<w, l>> \in LiveLanes
  <2>1. w \in 0..WarpCount - 1
    BY <1>8, <1>10, <1>11
  <2>2. <<w, l>> \in (0..WarpCount - 1) \X (0..WarpSize - 1)
    BY <1>8, <2>1
  <2> QED
    BY <1>4, <1>6, <1>9, <2>2 DEF LiveLanes
<1>13. Thread(<<w, l>>) = t
  <2>1. t = [ctaid |-> t.ctaid, tid |-> [x |-> t.tid.x, y |-> t.tid.y]]
    BY DEF Threads, Coordinates
  <2> QED
    BY <1>7, <1>9, <2>1 DEF Thread
<1> QED
  BY <1>12, <1>13

-----------------------------------------------------------------------------
(* The order of the blocks                                                 *)

\* What the two loops of launch do to the order of blocks.
LEMMA FollowingInOrder ==
    ASSUME grid \in Dim2, NEW c \in Coordinates(grid)
    PROVE  /\ Following(c).y < grid.y => Following(c) \in Coordinates(grid)
           /\ \A d \in Coordinates(grid) : Before(d, Following(c)) <=> Before(d, c) \/ d = c
           /\ ~(Following(c).y < grid.y)
                  => \A d \in Coordinates(grid) : Before(d, c) \/ d = c
<1>1. grid.x \in Nat /\ grid.y \in Nat
  BY LaunchAssumption DEF Dim2, Words
<1>2. c.x \in 0..grid.x - 1 /\ c.y \in 0..grid.y - 1 /\ c = [x |-> c.x, y |-> c.y]
  BY DEF Coordinates
<1>3. Following(c) = IF c.x + 1 < grid.x THEN [x |-> c.x + 1, y |-> c.y]
                     ELSE [x |-> 0, y |-> c.y + 1]
  BY <1>2 DEF Following
<1>4. \A d \in Coordinates(grid) :
          /\ d.x \in 0..grid.x - 1 /\ d.y \in 0..grid.y - 1
          /\ d = c <=> d.x = c.x /\ d.y = c.y
  BY <1>2 DEF Coordinates
<1>5. CASE c.x + 1 < grid.x
  <2>1. Following(c).x = c.x + 1 /\ Following(c).y = c.y
    BY <1>3, <1>5
  <2>2. Following(c) \in Coordinates(grid)
    BY <1>1, <1>2, <1>3, <1>5 DEF Coordinates
  <2>3. Following(c).y < grid.y
    BY <1>1, <1>2, <2>1
  <2>4. \A d \in Coordinates(grid) : Before(d, Following(c)) <=> Before(d, c) \/ d = c
    BY <1>1, <1>2, <1>4, <2>1 DEF Before
  <2> QED
    BY <2>2, <2>3, <2>4
<1>6. CASE ~(c.x + 1 < grid.x)
  <2>1. Following(c).x = 0 /\ Following(c).y = c.y + 1
    BY <1>3, <1>6
  <2>2. Following(c).y < grid.y => Following(c) \in Coordinates(grid)
    BY <1>1, <1>2, <1>3, <1>6 DEF Coordinates
  <2>3. \A d \in Coordinates(grid) : Before(d, Following(c)) <=> Before(d, c) \/ d = c
    BY <1>1, <1>2, <1>4, <1>6, <2>1 DEF Before
  <2>4. ~(Following(c).y < grid.y) => \A d \in Coordinates(grid) : Before(d, c) \/ d = c
    BY <1>1, <1>2, <1>4, <1>6, <2>1 DEF Before
  <2> QED
    BY <2>2, <2>3, <2>4
<1> QED
  BY <1>5, <1>6

\* Before is a strict order on blocks.
LEMMA BeforeStrict ==
    ASSUME grid \in Dim2, NEW c \in Coordinates(grid)
    PROVE  /\ ~Before(c, c)
           /\ \A d \in Coordinates(grid) : Before(d, c) => ~Before(c, d)
<1>1. grid.x \in Nat /\ grid.y \in Nat
  BY LaunchAssumption DEF Dim2, Words
<1>2. \A d \in Coordinates(grid) : d.x \in Nat /\ d.y \in Nat
  BY <1>1 DEF Coordinates
<1> QED
  BY <1>2 DEF Before

-----------------------------------------------------------------------------
(* The invariant                                                           *)

Running == phase \in {"block", "next"}

\* A block that runs is one of the grid, and the lanes it waits for are its own.
InGrid ==
    /\ Running => Count(block) # 0 /\ ctaid \in Coordinates(grid)
    /\ waiting \subseteq LiveLanes
    /\ phase = "next" => waiting = {}

\* A launch begins with nothing.
Fresh ==
    phase = "called" => ran = {} /\ result = NoResult /\ ctaid = [x |-> 0, y |-> 0]

\* The threads of the block that runs are those of its lanes that have ended.
RanSoFar ==
    Running =>
        /\ \A e \in LiveLanes \ waiting : Thread(e) \in ran
        /\ \A t \in ran : \/ Before(t.ctaid, ctaid)
                          \/ \E e \in LiveLanes \ waiting : t = Thread(e)

NoneLater == \A t \in ran : ~Before(ctaid, t.ctaid)

ResultLast == phase # "host" => result = NoResult

IInv ==
    /\ TypeOK /\ InGrid /\ Fresh /\ RanSoFar /\ NoneLater /\ ResultLast
    /\ ThreadsInside /\ BlocksInOrder /\ EveryThreadRuns

\* While nothing has been returned, nothing is claimed of the result.
LEMMA NoClaim == result = NoResult => EveryThreadRuns
BY DEF EveryThreadRuns, NoResult

\* An empty set of ended threads satisfies what is said of them.
LEMMA NoneRan ==
    ASSUME ran = {}, ~Running, result.kind # "stats"
    PROVE  RanSoFar /\ NoneLater /\ ThreadsInside /\ BlocksInOrder /\ EveryThreadRuns
BY DEF RanSoFar, NoneLater, ThreadsInside, BlocksInOrder, EveryThreadRuns, Running

LEMMA InitHolds == Init => IInv
<1> SUFFICES ASSUME Init PROVE IInv
  OBVIOUS
<1>1. WordRange \in Nat /\ MaxLaunches \in Nat /\ WordRange > 1
  BY LaunchAssumption
<1>2. 0 \in Words /\ 1 \in Words /\ 0 \in 0..MaxLaunches
  BY <1>1 DEF Words
<1>3. TypeOK
  BY <1>2 DEF Init, TypeOK, Dim2, NoStats, Results
<1>4. InGrid /\ Fresh /\ ResultLast
  BY DEF Init, InGrid, Fresh, ResultLast, Running
<1>5. ran = {} /\ ~Running /\ result.kind # "stats"
  BY DEF Init, NoResult, Running
<1> QED
  BY <1>3, <1>4, <1>5, NoneRan DEF IInv

\* A launch is called.
LEMMA CallHolds ==
    ASSUME IInv, NEW p \in Programs, NEW g \in Grids, NEW b \in BlockSizes, Call(p, g, b)
    PROVE  IInv'
<1>1. WordRange \in Nat /\ MaxLaunches \in Nat /\ WordRange > 1 /\ g \in Dim2 /\ b \in Dim2
  BY LaunchAssumption
<1>2. 0 \in Words
  BY <1>1 DEF Words
<1>3. TypeOK'
  <2>1. launches' \in 0..MaxLaunches
    BY <1>1 DEF Call, IInv, TypeOK
  <2>2. ctaid' \in Dim2 /\ grid' \in Dim2 /\ block' \in Dim2 /\ invalid' \in Programs \cup {{}}
    BY <1>1, <1>2 DEF Call, Dim2
  <2>3. stats' \in [DOMAIN NoStats -> Words] /\ result' \in Results
    BY <1>2 DEF Call, NoStats, Results
  <2> QED
    BY <2>1, <2>2, <2>3 DEF Call, TypeOK
<1>4. InGrid' /\ Fresh' /\ ResultLast'
  BY DEF Call, InGrid, Fresh, ResultLast, Running
<1>5. ran' = {} /\ ~Running' /\ result'.kind # "stats"
  BY DEF Call, NoResult, Running
<1>6. RanSoFar' /\ NoneLater' /\ ThreadsInside' /\ BlocksInOrder' /\ EveryThreadRuns'
  BY <1>5 DEF RanSoFar, NoneLater, ThreadsInside, BlocksInOrder, EveryThreadRuns, Running
<1> QED
  BY <1>3, <1>4, <1>6 DEF IInv

\* What was said of the threads remains when a launch returns.
LEMMA ReturnHolds ==
    ASSUME IInv, NEW r \in Results, Return(r),
           UNCHANGED <<ctaid, waiting, stats>>,
           r.kind = "stats" /\ BlockFits => ran = Threads
    PROVE  IInv'
<1>1. /\ phase' = "host" /\ result' = r
      /\ UNCHANGED <<invalid, grid, block, ran, launches, ctaid, waiting, stats>>
  BY DEF Return
<1>2. TypeOK'
  BY <1>1 DEF IInv, TypeOK
<1>3. LiveLanes' = LiveLanes /\ Threads' = Threads /\ BlockFits' = BlockFits
  BY <1>1 DEF LiveLanes, WarpCount, Count, Threads, Coordinates, BlockFits
<1>4. InGrid' /\ Fresh' /\ ResultLast' /\ RanSoFar'
  BY <1>1, <1>3 DEF IInv, InGrid, Fresh, ResultLast, RanSoFar, Running
<1>5. NoneLater' /\ ThreadsInside'
  BY <1>1, <1>3 DEF IInv, NoneLater, ThreadsInside
<1>6. BlocksInOrder'
  BY <1>1, <1>3, <1>5 DEF BlocksInOrder, NoneLater
<1>7. EveryThreadRuns'
  BY <1>1, <1>3 DEF EveryThreadRuns
<1> QED
  BY <1>2, <1>4, <1>5, <1>6, <1>7 DEF IInv

\* Faults are results.
LEMMA FaultTyped ==
    ASSUME NEW b \in Words, NEW w \in Words, NEW l \in Words, NEW pc \in Words
    PROVE  Faulted(b, w, l, pc) \in Results /\ Faulted(b, w, l, pc).kind # "stats"
BY DEF Faulted, Results

\* The launches that are refused.
LEMMA RefusedHolds ==
    ASSUME IInv, Undecodable \/ Empty
    PROVE  IInv'
<1>1. 0 \in Words
  BY LaunchAssumption DEF Words
<1>2. ASSUME Undecodable PROVE IInv'
  <2>1. PICK index \in invalid : Return(Faulted(0, 0, 0, index % PCRange))
    BY <1>2 DEF Undecodable
  <2>2. index % PCRange \in Words
    BY LaunchAssumption DEF IInv, TypeOK, Words
  <2> QED
    BY <1>1, <1>2, <2>1, <2>2, FaultTyped, ReturnHolds DEF Undecodable
<1>3. ASSUME Empty PROVE IInv'
  BY <1>1, <1>3, FaultTyped, ReturnHolds DEF Empty
<1> QED
  BY <1>2, <1>3

\* A fault in a block.
LEMMA FaultHolds ==
    ASSUME IInv, NEW e \in waiting, BlockFaults(e)
    PROVE  IInv'
<1>1. e \in LiveLanes /\ block \in Dim2 /\ grid \in Dim2 /\ ctaid \in Dim2
  BY DEF IInv, InGrid, TypeOK
<1>2. e[1] \in Words /\ e[2] \in Words
  BY <1>1, LanesOfBlock
<1>3. 0 \in Words /\ WordRange \in Nat \ {0}
  BY LaunchAssumption DEF Words
<1>4. BlockNumber(ctaid) \in Words
  <2>1. ctaid.x \in Nat /\ ctaid.y \in Nat /\ grid.x \in Nat
    BY <1>1, <1>3 DEF Dim2, Words
  <2>2. ctaid.y * grid.x + ctaid.x \in Nat
    BY <2>1, Product
  <2> QED
    BY <1>3, <2>2, DivMod DEF BlockNumber, Words
<1> QED
  BY <1>2, <1>3, <1>4, FaultTyped, ReturnHolds DEF BlockFaults

\* Counters are reduced to 32 bits.
LEMMA CounterTyped ==
    ASSUME NEW a \in Words, NEW b \in Words
    PROVE  (a + b) % WordRange \in Words
<1>1. WordRange \in Nat \ {0} /\ a + b \in Nat
  BY LaunchAssumption DEF Words
<1> QED
  BY <1>1, DivMod DEF Words

\* Entering a block keeps the types.
LEMMA EnterTyped ==
    ASSUME IInv, Enter, ctaid' \in Dim2, UNCHANGED <<invalid, grid, block, ran, result, launches>>
    PROVE  TypeOK' /\ LiveLanes' = LiveLanes /\ waiting' = LiveLanes
<1>1. stats \in [DOMAIN NoStats -> Words] /\ block \in Dim2
  BY DEF IInv, TypeOK
<1>2. (stats.warps_launched + WarpCount) % WordRange \in Words
  BY <1>1, LanesOfBlock, CounterTyped DEF NoStats
<1>3. stats' \in [DOMAIN NoStats -> Words]
  BY <1>1, <1>2 DEF Enter
<1>4. LiveLanes \in SUBSET (Words \X (0..WarpSize - 1))
  BY <1>1, LanesOfBlock
<1>5. LiveLanes' = LiveLanes
  BY DEF LiveLanes, WarpCount, Count
<1> QED
  BY <1>3, <1>4, <1>5 DEF IInv, TypeOK, Enter

\* A launch that is neither refused nor empty enters block (0, 0).
LEMMA FirstBlockHolds ==
    ASSUME IInv, FirstBlock
    PROVE  IInv'
<1>1. /\ ran = {} /\ result = NoResult /\ ctaid = [x |-> 0, y |-> 0]
      /\ grid \in Dim2 /\ block \in Dim2 /\ ctaid \in Dim2
      /\ Count(block) # 0 /\ Count(grid) # 0
      /\ Enter
      /\ UNCHANGED <<invalid, grid, block, ctaid, ran, result, launches>>
  BY DEF FirstBlock, IInv, Fresh, TypeOK
<1>2. TypeOK' /\ LiveLanes' = LiveLanes /\ waiting' = LiveLanes /\ phase' = "block"
  BY <1>1, EnterTyped DEF Enter
<1>3. ctaid \in Coordinates(grid)
  <2>1. grid.x \in Nat /\ grid.y \in Nat
    BY <1>1, LaunchAssumption DEF Dim2, Words
  <2>2. grid.x * grid.y # 0
    <3>1. 0 % WordRange = 0
      BY LaunchAssumption, ModSmaller
    <3> QED
      BY <1>1, <3>1 DEF Count
  <2>3. grid.x # 0 /\ grid.y # 0
    BY <2>1, <2>2
  <2> QED
    BY <1>1, <2>1, <2>3 DEF Coordinates
<1>4. InGrid' /\ Fresh' /\ ResultLast'
  BY <1>1, <1>2, <1>3 DEF InGrid, Fresh, ResultLast, Running, Coordinates, Count
<1>5. RanSoFar' /\ NoneLater' /\ ThreadsInside'
  BY <1>1, <1>2 DEF RanSoFar, NoneLater, ThreadsInside
<1>6. BlocksInOrder'
  <2>1. \A t \in Threads : ~Before(t.ctaid, ctaid)
    <3>1. \A t \in Threads : t.ctaid.x \in 0..grid.x - 1 /\ t.ctaid.y \in 0..grid.y - 1
      BY DEF Threads, Coordinates
    <3>2. ctaid.x = 0 /\ ctaid.y = 0 /\ grid.x \in Nat /\ grid.y \in Nat
      BY <1>1, LaunchAssumption DEF Dim2, Words
    <3> QED
      BY <3>1, <3>2 DEF Before
  <2>2. Threads' = Threads /\ ctaid' = ctaid /\ ran' = {}
    BY <1>1 DEF Threads, Coordinates
  <2> QED
    BY <2>1, <2>2 DEF BlocksInOrder
<1>7. EveryThreadRuns'
  BY <1>1 DEF EveryThreadRuns, NoResult
<1> QED
  BY <1>2, <1>4, <1>5, <1>6, <1>7 DEF IInv

\* A lane ends as a thread of the block.
LEMMA RunThreadHolds ==
    ASSUME IInv, NEW e \in waiting, RunThread(e)
    PROVE  IInv'
<1>1. /\ phase = "block" /\ waiting' = waiting \ {e} /\ ran' = ran \cup {Thread(e)}
      /\ UNCHANGED <<phase, invalid, grid, block, ctaid, stats, result, launches>>
  BY DEF RunThread
<1>2. /\ grid \in Dim2 /\ block \in Dim2 /\ ctaid \in Coordinates(grid) /\ ctaid \in Dim2
      /\ Count(block) # 0 /\ waiting \subseteq LiveLanes
  BY <1>1 DEF IInv, TypeOK, InGrid, Running
<1>3. Thread(e) \in Threads /\ Thread(e).ctaid = ctaid
  BY <1>2, ThreadInside
<1>4. /\ LiveLanes' = LiveLanes /\ Threads' = Threads /\ BlockFits' = BlockFits
      /\ Coordinates(grid)' = Coordinates(grid) /\ Count(block)' = Count(block)
      /\ \A f : Thread(f)' = Thread(f)
  BY <1>1 DEF LiveLanes, WarpCount, Count, Threads, Coordinates, BlockFits, Thread
<1>5. Threads \subseteq [ctaid : Dim2, tid : Dim2]
  <2>1. \A d \in Dim2 : Coordinates(d) \subseteq Dim2
    BY LaunchAssumption DEF Coordinates, Dim2, Words
  <2> QED
    BY <1>2, <2>1 DEF Threads
<1>6. TypeOK'
  BY <1>1, <1>2, <1>3, <1>5 DEF IInv, TypeOK
<1>7. InGrid' /\ Fresh' /\ ResultLast'
  BY <1>1, <1>4 DEF IInv, InGrid, Fresh, ResultLast, Running
<1>8. RanSoFar'
  <2>1. LiveLanes \ waiting' = (LiveLanes \ waiting) \cup {e}
    BY <1>1, <1>2
  <2>2. /\ \A f \in LiveLanes \ waiting : Thread(f) \in ran
        /\ \A t \in ran : \/ Before(t.ctaid, ctaid)
                          \/ \E f \in LiveLanes \ waiting : t = Thread(f)
    BY <1>1 DEF IInv, RanSoFar, Running
  <2>3. \A f \in LiveLanes \ waiting' : Thread(f) \in ran'
    BY <1>1, <2>1, <2>2
  <2>4. \A t \in ran' : \/ Before(t.ctaid, ctaid)
                        \/ \E f \in LiveLanes \ waiting' : t = Thread(f)
    BY <1>1, <2>1, <2>2
  <2> QED
    BY <1>1, <1>4, <2>3, <2>4 DEF RanSoFar
<1>9. NoneLater' /\ ThreadsInside'
  BY <1>1, <1>2, <1>3, <1>4, BeforeStrict DEF IInv, NoneLater, ThreadsInside
<1>10. BlocksInOrder'
  <2>1. BlockFits => \A t \in Threads : Before(t.ctaid, ctaid) => t \in ran'
    BY <1>1 DEF IInv, BlocksInOrder
  <2> QED
    BY <1>1, <1>4, <1>9, <2>1 DEF BlocksInOrder, NoneLater
<1>11. EveryThreadRuns'
  BY <1>1 DEF IInv, ResultLast, EveryThreadRuns, NoResult
<1> QED
  BY <1>6, <1>7, <1>8, <1>9, <1>10, <1>11 DEF IInv

\* A block has ended.
LEMMA BlockEndsHolds ==
    ASSUME IInv, BlockEnds
    PROVE  IInv'
<1>1. /\ phase = "block" /\ waiting = {} /\ phase' = "next"
      /\ stats' = [stats EXCEPT !.blocks_executed = (@ + 1) % WordRange,
                                !.lanes_launched = (@ + Count(block)) % WordRange]
      /\ UNCHANGED <<invalid, grid, block, ctaid, waiting, ran, result, launches>>
  BY DEF BlockEnds
<1>2. /\ LiveLanes' = LiveLanes /\ Threads' = Threads /\ BlockFits' = BlockFits
      /\ Coordinates(grid)' = Coordinates(grid) /\ Count(block)' = Count(block)
      /\ \A f : Thread(f)' = Thread(f)
  BY <1>1 DEF LiveLanes, WarpCount, Count, Threads, Coordinates, BlockFits, Thread
<1>3. stats \in [DOMAIN NoStats -> Words] /\ block \in Dim2
  BY DEF IInv, TypeOK
<1>4. /\ (stats.blocks_executed + 1) % WordRange \in Words
      /\ (stats.lanes_launched + Count(block)) % WordRange \in Words
  <2>1. 1 \in Words
    BY LaunchAssumption DEF Words
  <2> QED
    BY <1>3, <2>1, LanesOfBlock, CounterTyped DEF NoStats
<1>5. stats' \in [DOMAIN NoStats -> Words]
  BY <1>1, <1>3, <1>4
<1>6. TypeOK'
  BY <1>1, <1>5 DEF IInv, TypeOK
<1>7. InGrid' /\ Fresh' /\ ResultLast'
  BY <1>1, <1>2 DEF IInv, InGrid, Fresh, ResultLast, Running
<1>8. RanSoFar'
  BY <1>1, <1>2 DEF IInv, RanSoFar, Running
<1>9. NoneLater' /\ ThreadsInside'
  BY <1>1, <1>2 DEF IInv, NoneLater, ThreadsInside
<1>10. BlocksInOrder'
  BY <1>1, <1>2 DEF IInv, BlocksInOrder
<1>11. EveryThreadRuns'
  BY <1>1 DEF IInv, ResultLast, EveryThreadRuns, NoResult
<1> QED
  BY <1>6, <1>7, <1>8, <1>9, <1>10, <1>11 DEF IInv

\* When a block has ended and 32 bits can count its lanes, all its threads have run.
LEMMA BlockComplete ==
    ASSUME IInv, phase = "next", BlockFits, NEW t \in Threads, t.ctaid = ctaid
    PROVE  t \in ran
<1>1. block \in Dim2 /\ waiting = {}
  BY DEF IInv, TypeOK, InGrid
<1>2. PICK e \in LiveLanes : Thread(e) = t
  BY <1>1, ThreadSurjective
<1> QED
  BY <1>1, <1>2 DEF IInv, RanSoFar, Running

\* The loops go on with the following block.
LEMMA NextBlockHolds ==
    ASSUME IInv, NextBlock
    PROVE  IInv'
<1>1. /\ phase = "next" /\ Following(ctaid).y < grid.y /\ ctaid' = Following(ctaid)
      /\ Enter
      /\ UNCHANGED <<invalid, grid, block, ran, result, launches>>
  BY DEF NextBlock
<1>2. /\ grid \in Dim2 /\ block \in Dim2 /\ ctaid \in Coordinates(grid)
      /\ Count(block) # 0 /\ waiting = {}
  BY <1>1 DEF IInv, TypeOK, InGrid, Running
<1>3. /\ ctaid' \in Coordinates(grid)
      /\ \A d \in Coordinates(grid) : Before(d, ctaid') <=> Before(d, ctaid) \/ d = ctaid
  BY <1>1, <1>2, FollowingInOrder
<1>4. Coordinates(grid) \subseteq Dim2
  BY <1>2, LaunchAssumption DEF Coordinates, Dim2, Words
<1>5. TypeOK' /\ LiveLanes' = LiveLanes /\ waiting' = LiveLanes /\ phase' = "block"
  BY <1>1, <1>3, <1>4, EnterTyped DEF Enter
<1>6. Threads' = Threads /\ Coordinates(grid)' = Coordinates(grid)
      /\ Count(block)' = Count(block) /\ BlockFits' = BlockFits
  BY <1>1 DEF Threads, Coordinates, Count, BlockFits
<1>7. InGrid' /\ Fresh' /\ ResultLast'
  BY <1>1, <1>2, <1>3, <1>5, <1>6 DEF IInv, InGrid, Fresh, ResultLast, Running
<1>8. \A t \in ran : t \in Threads /\ t.ctaid \in Coordinates(grid) /\ Before(t.ctaid, ctaid')
  <2>1. \A t \in ran : t \in Threads
    BY DEF IInv, ThreadsInside
  <2>2. \A t \in Threads : t.ctaid \in Coordinates(grid)
    BY DEF Threads
  <2>3. \A e : Thread(e).ctaid = ctaid
    BY DEF Thread
  <2>4. \A t \in ran : Before(t.ctaid, ctaid) \/ t.ctaid = ctaid
    BY <1>1, <2>3 DEF IInv, RanSoFar, Running
  <2> QED
    BY <1>3, <2>1, <2>2, <2>4
<1>9. RanSoFar'
  BY <1>1, <1>5, <1>8 DEF RanSoFar
<1>10. NoneLater' /\ ThreadsInside'
  <2>1. \A t \in ran : ~Before(ctaid', t.ctaid)
    BY <1>2, <1>3, <1>8, BeforeStrict
  <2> QED
    BY <1>1, <1>6, <2>1 DEF IInv, NoneLater, ThreadsInside
<1>11. BlocksInOrder'
  <2>1. ASSUME BlockFits, NEW t \in Threads, Before(t.ctaid, ctaid')
        PROVE  t \in ran
    <3>1. t.ctaid \in Coordinates(grid)
      BY DEF Threads
    <3>2. CASE Before(t.ctaid, ctaid)
      BY <1>1, <2>1, <3>2 DEF IInv, BlocksInOrder
    <3>3. CASE t.ctaid = ctaid
      BY <1>1, <2>1, <3>3, BlockComplete
    <3> QED
      BY <1>3, <2>1, <3>1, <3>2, <3>3
  <2> QED
    BY <1>1, <1>6, <1>10, <2>1 DEF BlocksInOrder, NoneLater
<1>12. EveryThreadRuns'
  BY <1>1 DEF IInv, ResultLast, EveryThreadRuns, NoResult
<1> QED
  BY <1>5, <1>7, <1>9, <1>10, <1>11, <1>12 DEF IInv

\* After the last block everything has run.
LEMMA CompletesHolds ==
    ASSUME IInv, Completes
    PROVE  IInv'
<1>1. /\ phase = "next" /\ ~(Following(ctaid).y < grid.y) /\ Return(Succeeded(stats))
      /\ UNCHANGED <<ctaid, waiting, stats>>
  BY DEF Completes
<1>2. grid \in Dim2 /\ ctaid \in Coordinates(grid) /\ stats \in [DOMAIN NoStats -> Words]
  BY <1>1 DEF IInv, TypeOK, InGrid, Running
<1>3. Succeeded(stats) \in Results
  BY <1>2 DEF Succeeded, Results
<1>4. ASSUME BlockFits PROVE ran = Threads
  <2>1. ASSUME NEW t \in Threads PROVE t \in ran
    <3>1. t.ctaid \in Coordinates(grid)
      BY DEF Threads
    <3>2. Before(t.ctaid, ctaid) \/ t.ctaid = ctaid
      BY <1>1, <1>2, <3>1, FollowingInOrder
    <3>3. CASE Before(t.ctaid, ctaid)
      BY <1>1, <1>4, <3>3 DEF IInv, BlocksInOrder
    <3>4. CASE t.ctaid = ctaid
      BY <1>1, <1>4, <3>4, BlockComplete
    <3> QED
      BY <3>2, <3>3, <3>4
  <2> QED
    BY <2>1 DEF IInv, ThreadsInside
<1> QED
  BY <1>1, <1>3, <1>4, ReturnHolds

\* The invariant is inductive.
LEMMA StepHolds == IInv /\ [Next]_vars => IInv'
<1> SUFFICES ASSUME IInv, [Next]_vars PROVE IInv'
  OBVIOUS
<1>1. ASSUME NEW p \in Programs, NEW g \in Grids, NEW b \in BlockSizes, Call(p, g, b)
      PROVE  IInv'
  BY <1>1, CallHolds
<1>2. ASSUME NEW e \in waiting, RunThread(e) \/ BlockFaults(e) PROVE IInv'
  BY <1>2, RunThreadHolds, FaultHolds
<1>3. ASSUME UNCHANGED vars PROVE IInv'
  <2>1. /\ LiveLanes' = LiveLanes /\ Threads' = Threads /\ BlockFits' = BlockFits
        /\ Coordinates(grid)' = Coordinates(grid) /\ Count(block)' = Count(block)
        /\ \A f : Thread(f)' = Thread(f)
    BY <1>3 DEF vars, LiveLanes, WarpCount, Count, Threads, Coordinates, BlockFits, Thread
  <2>2. TypeOK'
    BY <1>3 DEF vars, IInv, TypeOK
  <2>3. InGrid' /\ Fresh' /\ ResultLast'
    BY <1>3, <2>1 DEF vars, IInv, InGrid, Fresh, ResultLast, Running
  <2>4. RanSoFar'
    BY <1>3, <2>1 DEF vars, IInv, RanSoFar, Running
  <2>5. NoneLater' /\ ThreadsInside' /\ BlocksInOrder' /\ EveryThreadRuns'
    BY <1>3, <2>1 DEF vars, IInv, NoneLater, ThreadsInside, BlocksInOrder, EveryThreadRuns
  <2> QED
    BY <2>2, <2>3, <2>4, <2>5 DEF IInv
<1> QED
  BY <1>1, <1>2, <1>3, RefusedHolds, FirstBlockHolds, BlockEndsHolds, NextBlockHolds,
     CompletesHolds DEF Next, Idle

LEMMA AlwaysIInv == Spec => []IInv
<1> QED
  BY InitHolds, StepHolds, PTL DEF Spec

-----------------------------------------------------------------------------

\* Every variable of a launch keeps its type: counters, indices and the block number of a
\* fault stay in 32 bits.
THEOREM TypeCorrect == Spec => []TypeOK
<1>1. IInv => TypeOK
  BY DEF IInv
<1> QED
  BY <1>1, AlwaysIInv, PTL

\* No lane reads coordinates outside its grid or block, whatever their sizes.
THEOREM ThreadsAreInside == Spec => []ThreadsInside
<1>1. IInv => ThreadsInside
  BY DEF IInv
<1> QED
  BY <1>1, AlwaysIInv, PTL

\* A launch runs no thread twice, whatever the sizes: the linear index is one to one.
THEOREM ThreadsRunOnce == Spec => []NoThreadTwice
<1>1. IInv => NoThreadTwice
  <2> SUFFICES ASSUME IInv, phase = "block", NEW e \in waiting
               PROVE  /\ Thread(e) \notin ran
                      /\ \A f \in waiting : Thread(e) = Thread(f) => e = f
    BY DEF NoThreadTwice
  <2>1. /\ grid \in Dim2 /\ block \in Dim2 /\ ctaid \in Coordinates(grid)
        /\ Count(block) # 0 /\ waiting \subseteq LiveLanes
    BY DEF IInv, TypeOK, InGrid, Running
  <2>2. \A f \in LiveLanes : Thread(e) = Thread(f) => e = f
    BY <2>1, ThreadInjective
  <2>3. ~Before(Thread(e).ctaid, ctaid)
    BY <2>1, BeforeStrict DEF Thread
  <2>4. Thread(e) \notin ran
    BY <2>2, <2>3 DEF IInv, RanSoFar, Running
  <2> QED
    BY <2>1, <2>2, <2>4
<1> QED
  BY <1>1, AlwaysIInv, PTL

\* Blocks run one at a time in the order of the ISA document, also up to a fault.
THEOREM BlocksRunInOrder == Spec => []BlocksInOrder
<1>1. IInv => BlocksInOrder
  BY DEF IInv
<1> QED
  BY <1>1, AlwaysIInv, PTL

\* A launch that succeeds has run every thread of its grid, if 32 bits can count the lanes
\* of a block and round them up to warps.
THEOREM AllThreadsRun == Spec => []EveryThreadRuns
<1>1. IInv => EveryThreadRuns
  BY DEF IInv
<1> QED
  BY <1>1, AlwaysIInv, PTL

-----------------------------------------------------------------------------
(* The block that a fault names                                            *)

\* Numbers of blocks are in the order of the blocks.
LEMMA NumberInOrder ==
    ASSUME grid \in Dim2, NEW c \in Coordinates(grid), NEW d \in Coordinates(grid)
    PROVE  c.x + c.y * grid.x < d.y * grid.x + d.x <=> Before(c, d)
<1> DEFINE n == grid.x
<1>1. /\ n \in Nat /\ c.x \in Nat /\ c.y \in Nat /\ d.x \in Nat /\ d.y \in Nat
      /\ c.x < n /\ d.x < n
  <2>1. grid.x \in Nat /\ grid.y \in Nat
    BY LaunchAssumption DEF Dim2, Words
  <2> QED
    BY <2>1 DEF Coordinates
<1>2. c.y * n \in Nat /\ d.y * n \in Nat
  BY <1>1, Product
<1> HIDE DEF n
<1>3. CASE c.y = d.y
  BY <1>1, <1>2, <1>3 DEF Before, n
<1>4. ASSUME c.y < d.y PROVE c.x + c.y * n < d.y * n + d.x
  <2>1. (c.y + 1) * n <= d.y * n /\ (c.y + 1) * n = c.y * n + n
    BY <1>1, <1>4, TimesMonotonic, Product
  <2> QED
    BY <1>1, <1>2, <2>1
<1>5. ASSUME d.y < c.y PROVE d.y * n + d.x < c.x + c.y * n
  <2>1. (d.y + 1) * n <= c.y * n /\ (d.y + 1) * n = d.y * n + n
    BY <1>1, <1>5, TimesMonotonic, Product
  <2> QED
    BY <1>1, <1>2, <2>1
<1> QED
  BY <1>1, <1>2, <1>3, <1>4, <1>5 DEF Before, n

\* Every block of the grid has a thread.
LEMMA BlockHasThread ==
    ASSUME block \in Dim2, block.x * block.y # 0, NEW c \in Coordinates(grid)
    PROVE  \E t \in Threads : t.ctaid = c
<1>1. block.x \in Nat /\ block.y \in Nat
  BY LaunchAssumption DEF Dim2, Words
<1>2. block.x # 0 /\ block.y # 0
  BY <1>1
<1>3. [x |-> 0, y |-> 0] \in Coordinates(block)
  BY <1>1, <1>2 DEF Coordinates
<1>4. [ctaid |-> c, tid |-> [x |-> 0, y |-> 0]] \in Threads
  BY <1>3 DEF Threads
<1> QED
  BY <1>4

\* A launch that was refused names block 0, and no block has run.
LEMMA RefusedNamesBlock ==
    ASSUME IInv, Undecodable \/ Empty
    PROVE  FaultNamesBlock'
<1>1. /\ result'.block = 0 /\ ran' = {} /\ block \in Dim2 /\ grid \in Dim2
      /\ UNCHANGED <<grid, block>>
  BY DEF Undecodable, Empty, Return, Faulted, IInv, Fresh, TypeOK
<1>2. SUFFICES ASSUME block.x * block.y # 0, NEW c \in Coordinates(grid)
               PROVE  c.x + c.y * grid.x < 0 <=> \A t \in Threads : t.ctaid = c => t \in {}
  BY <1>1 DEF FaultNamesBlock, Threads, Coordinates
<1>3. c.x + c.y * grid.x \in Nat
  <2>1. grid.x \in Nat /\ grid.y \in Nat
    BY <1>1, LaunchAssumption DEF Dim2, Words
  <2>2. c.x \in Nat /\ c.y \in Nat
    BY <1>2, <2>1 DEF Coordinates
  <2> QED
    BY <2>1, <2>2, Product
<1>4. \E t \in Threads : t.ctaid = c
  BY <1>1, <1>2, BlockHasThread
<1> QED
  BY <1>3, <1>4

\* The block that faults is the first that has not ended.
LEMMA FaultNamesFirst ==
    ASSUME IInv, NEW e \in waiting, BlockFaults(e)
    PROVE  FaultNamesBlock'
<1>1. /\ result'.block = BlockNumber(ctaid)
      /\ UNCHANGED <<grid, block, ran, ctaid>> /\ Running /\ phase = "block"
      /\ grid \in Dim2 /\ block \in Dim2 /\ ctaid \in Coordinates(grid)
      /\ Count(block) # 0 /\ waiting \subseteq LiveLanes
  BY DEF BlockFaults, Return, Faulted, IInv, TypeOK, InGrid, Running
<1>2. SUFFICES ASSUME BlockFits, GridFits, block.x * block.y # 0,
                      NEW c \in Coordinates(grid)
               PROVE  c.x + c.y * grid.x < BlockNumber(ctaid)
                          <=> \A t \in Threads : t.ctaid = c => t \in ran
  BY <1>1 DEF FaultNamesBlock, Threads, Coordinates, BlockFits, GridFits
<1>3. /\ grid.x \in Nat /\ grid.y \in Nat /\ WordRange \in Nat \ {0}
      /\ ctaid.x \in Nat /\ ctaid.y \in Nat /\ ctaid.x < grid.x /\ ctaid.y + 1 <= grid.y
  <2>1. grid.x \in Nat /\ grid.y \in Nat /\ WordRange \in Nat \ {0}
    BY <1>1, LaunchAssumption DEF Dim2, Words
  <2> QED
    BY <1>1, <2>1 DEF Coordinates
<1>4. BlockNumber(ctaid) = ctaid.y * grid.x + ctaid.x
  <2> DEFINE n == ctaid.y * grid.x
  <2>1. n \in Nat /\ grid.y * grid.x \in Nat /\ (ctaid.y + 1) * grid.x = n + grid.x
        /\ (ctaid.y + 1) * grid.x <= grid.y * grid.x
        /\ grid.y * grid.x = grid.x * grid.y
    BY <1>3, Product, TimesMonotonic
  <2> HIDE DEF n
  <2>2. n + ctaid.x \in Nat /\ n + ctaid.x < WordRange
    BY <1>2, <1>3, <2>1 DEF GridFits
  <2>3. (n + ctaid.x) % WordRange = n + ctaid.x
    BY <1>3, <2>2, ModSmaller
  <2> QED
    BY <2>3 DEF BlockNumber, n
<1>5. c.x + c.y * grid.x < BlockNumber(ctaid) <=> Before(c, ctaid)
  BY <1>1, <1>4, NumberInOrder
<1>6. ASSUME Before(c, ctaid), NEW t \in Threads, t.ctaid = c
      PROVE  t \in ran
  BY <1>1, <1>2, <1>6 DEF IInv, BlocksInOrder
<1>7. ASSUME ~Before(c, ctaid)
      PROVE  \E t \in Threads : t.ctaid = c /\ t \notin ran
  <2>1. CASE c = ctaid
    <3>1. Thread(e) \in Threads /\ Thread(e).ctaid = ctaid
      BY <1>1, ThreadInside
    <3>2. \A f \in LiveLanes : Thread(e) = Thread(f) => e = f
      BY <1>1, ThreadInjective
    <3>3. ~Before(Thread(e).ctaid, ctaid)
      BY <1>1, <3>1, BeforeStrict
    <3>4. Thread(e) \notin ran
      BY <1>1, <3>2, <3>3 DEF IInv, RanSoFar
    <3> QED
      BY <2>1, <3>1, <3>4
  <2>2. CASE c # ctaid
    <3>1. Before(ctaid, c)
      <4>1. c.x \in Nat /\ c.y \in Nat /\ (c = ctaid <=> c.x = ctaid.x /\ c.y = ctaid.y)
        BY <1>1, <1>2, <1>3 DEF Coordinates
      <4> QED
        BY <1>3, <1>7, <2>2, <4>1 DEF Before
    <3>2. PICK t \in Threads : t.ctaid = c
      BY <1>1, <1>2, BlockHasThread
    <3>3. t \notin ran
      BY <3>1, <3>2 DEF IInv, NoneLater
    <3> QED
      BY <3>2, <3>3
  <2> QED
    BY <2>1, <2>2
<1> QED
  BY <1>5, <1>6, <1>7

\* No other step returns a fault, and only Call forgets one.
LEMMA FaultNamesHolds == IInv /\ FaultNamesBlock /\ [Next]_vars => FaultNamesBlock'
<1> SUFFICES ASSUME IInv, FaultNamesBlock, [Next]_vars PROVE FaultNamesBlock'
  OBVIOUS
<1>1. ASSUME result'.kind # "fault" PROVE FaultNamesBlock'
  BY <1>1 DEF FaultNamesBlock
<1>2. ASSUME NEW p, NEW g, NEW b, Call(p, g, b) PROVE FaultNamesBlock'
  BY <1>1, <1>2 DEF Call, NoResult
<1>3. ASSUME NEW e \in waiting, BlockFaults(e) PROVE FaultNamesBlock'
  BY <1>3, FaultNamesFirst
<1>4. ASSUME phase # "host", UNCHANGED result PROVE FaultNamesBlock'
  BY <1>1, <1>4 DEF IInv, ResultLast, NoResult
<1>5. ASSUME NEW e \in waiting, RunThread(e) PROVE FaultNamesBlock'
  BY <1>4, <1>5 DEF RunThread
<1>6. CASE Undecodable \/ Empty
  BY <1>6, RefusedNamesBlock
<1>7. CASE FirstBlock \/ BlockEnds \/ NextBlock
  BY <1>4, <1>7 DEF FirstBlock, BlockEnds, NextBlock
<1>8. CASE Completes
  BY <1>1, <1>8 DEF Completes, Return, Succeeded
<1>9. CASE UNCHANGED vars
  BY <1>9 DEF vars, FaultNamesBlock, BlockFits, GridFits, Threads, Coordinates
<1> QED
  BY <1>2, <1>3, <1>5, <1>6, <1>7, <1>8, <1>9 DEF Next, Idle

\* fault.hpp:8-10 "block": exactly the blocks before the one a fault names have ended, so
\* that the host can tell which took effect, if 32 bits can count blocks and lanes.
THEOREM FaultsNameTheirBlock == Spec => []FaultNamesBlock
<1>1. Init => FaultNamesBlock
  BY DEF Init, FaultNamesBlock, NoResult
<1> QED
  BY <1>1, FaultNamesHolds, AlwaysIInv, PTL DEF Spec

-----------------------------------------------------------------------------
(* How many blocks, warps and threads there are                            *)

\* There are as many coordinates as the product of the sizes.
LEMMA CoordinatesCounted ==
    ASSUME NEW d \in Dim2
    PROVE  /\ IsFiniteSet(Coordinates(d))
           /\ Cardinality(Coordinates(d)) = d.x * d.y
<1> DEFINE X == 0..d.x - 1
           Y == 0..d.y - 1
           f == [e \in X \X Y |-> [x |-> e[1], y |-> e[2]]]
<1>1. d.x \in Nat /\ d.y \in Nat
  BY LaunchAssumption DEF Dim2, Words
<1>2. IsFiniteSet(X) /\ IsFiniteSet(Y) /\ Cardinality(X) = d.x /\ Cardinality(Y) = d.y
  <2>1. 0 \in Int /\ d.x - 1 \in Int /\ d.y - 1 \in Int
    BY <1>1
  <2>2. /\ IsFiniteSet(X) /\ Cardinality(X) = IF 0 > d.x - 1 THEN 0 ELSE d.x - 1 - 0 + 1
        /\ IsFiniteSet(Y) /\ Cardinality(Y) = IF 0 > d.y - 1 THEN 0 ELSE d.y - 1 - 0 + 1
    BY <2>1, FS_Interval
  <2> QED
    BY <1>1, <2>2
<1>3. IsFiniteSet(X \X Y) /\ Cardinality(X \X Y) = d.x * d.y
  <2> HIDE DEF X, Y
  <2>1. Cardinality(X \X Y) = Cardinality(X) * Cardinality(Y) /\ IsFiniteSet(X \X Y)
    BY <1>2, FS_Product
  <2> QED
    BY <1>2, <2>1
<1>4. f \in Bijection(X \X Y, Coordinates(d))
  <2>1. f \in [X \X Y -> Coordinates(d)]
    BY DEF Coordinates
  <2>2. \A a, b \in X \X Y : f[a] = f[b] => a = b
    <3> SUFFICES ASSUME NEW a \in X \X Y, NEW b \in X \X Y, f[a] = f[b] PROVE a = b
      OBVIOUS
    <3>1. f[a].x = a[1] /\ f[a].y = a[2] /\ f[b].x = b[1] /\ f[b].y = b[2]
      OBVIOUS
    <3>2. a = <<a[1], a[2]>> /\ b = <<b[1], b[2]>>
      OBVIOUS
    <3> QED
      BY <3>1, <3>2
  <2>3. \A c \in Coordinates(d) : \E e \in X \X Y : f[e] = c
    <3> SUFFICES ASSUME NEW c \in Coordinates(d) PROVE \E e \in X \X Y : f[e] = c
      OBVIOUS
    <3>1. c = [x |-> c.x, y |-> c.y] /\ c.x \in X /\ c.y \in Y
      BY DEF Coordinates
    <3>2. <<c.x, c.y>> \in X \X Y /\ f[<<c.x, c.y>>] = c
      BY <3>1
    <3> QED
      BY <3>2
  <2> QED
    BY <2>1, <2>2, <2>3 DEF Bijection, Injection, Surjection, IsInjective
<1> QED
  BY <1>3, <1>4, FS_Bijection DEF ExistsBijection

\* A launch has as many threads as its blocks times those of a block.
LEMMA ThreadsCounted ==
    ASSUME grid \in Dim2, block \in Dim2
    PROVE  Cardinality(Threads) = (grid.x * grid.y) * (block.x * block.y)
<1> DEFINE G == Coordinates(grid)
           B == Coordinates(block)
           f == [e \in G \X B |-> [ctaid |-> e[1], tid |-> e[2]]]
<1>1. IsFiniteSet(G \X B)
      /\ Cardinality(G \X B) = (grid.x * grid.y) * (block.x * block.y)
  <2>1. /\ IsFiniteSet(G) /\ Cardinality(G) = grid.x * grid.y
        /\ IsFiniteSet(B) /\ Cardinality(B) = block.x * block.y
    BY CoordinatesCounted
  <2> HIDE DEF G, B
  <2>2. Cardinality(G \X B) = Cardinality(G) * Cardinality(B) /\ IsFiniteSet(G \X B)
    BY <2>1, FS_Product
  <2> QED
    BY <2>1, <2>2
<1>2. f \in Bijection(G \X B, Threads)
  <2> HIDE DEF G, B
  <2>1. Threads = [ctaid : G, tid : B]
    BY DEF Threads, G, B
  <2>2. f \in [G \X B -> Threads]
    BY <2>1
  <2>3. \A a, b \in G \X B : f[a] = f[b] => a = b
    <3> SUFFICES ASSUME NEW a \in G \X B, NEW b \in G \X B, f[a] = f[b] PROVE a = b
      OBVIOUS
    <3>1. f[a].ctaid = a[1] /\ f[a].tid = a[2] /\ f[b].ctaid = b[1] /\ f[b].tid = b[2]
      OBVIOUS
    <3>2. a = <<a[1], a[2]>> /\ b = <<b[1], b[2]>>
      OBVIOUS
    <3> QED
      BY <3>1, <3>2
  <2>4. \A t \in Threads : \E e \in G \X B : f[e] = t
    <3> SUFFICES ASSUME NEW t \in Threads PROVE \E e \in G \X B : f[e] = t
      OBVIOUS
    <3>1. t = [ctaid |-> t.ctaid, tid |-> t.tid] /\ t.ctaid \in G /\ t.tid \in B
      BY <2>1
    <3>2. <<t.ctaid, t.tid>> \in G \X B /\ f[<<t.ctaid, t.tid>>] = t
      BY <3>1
    <3> QED
      BY <3>2
  <2> QED
    BY <2>2, <2>3, <2>4 DEF Bijection, Injection, Surjection, IsInjective
<1> QED
  BY <1>1, <1>2, FS_Bijection DEF ExistsBijection

\* The rounding up in warp_count: as many warps as are needed for the lanes.
LEMMA WarpsNeeded ==
    ASSUME block \in Dim2, BlockFits
    PROVE  /\ WarpCount \in Nat
           /\ \A i \in Nat : i < block.x * block.y => i \div WarpSize < WarpCount
           /\ \A w \in Nat : w < WarpCount => w * WarpSize < block.x * block.y
<1> DEFINE n == block.x * block.y
           q == (n + WarpSize - 1) \div WarpSize
<1>1. WarpSize \in Nat \ {0} /\ WordRange \in Nat \ {0}
  BY LaunchAssumption
<1>2. n \in Nat /\ n + WarpSize - 1 \in Nat /\ n + WarpSize - 1 < WordRange
  <2>1. n \in Nat
    BY LanesOfBlock
  <2>2. n + WarpSize - 1 < WordRange
    BY DEF BlockFits
  <2> HIDE DEF n
  <2> QED
    BY <1>1, <2>1, <2>2
<1>3. WarpCount = q
  <2>1. Count(block) = n
    BY <1>1, <1>2, ModSmaller DEF Count
  <2> HIDE DEF n
  <2> QED
    BY <1>1, <1>2, <2>1, ModSmaller DEF WarpCount
<1> HIDE DEF n
<1>4. /\ q \in Nat /\ q * WarpSize \in Nat
      /\ n + WarpSize - 1 < q * WarpSize + WarpSize /\ q * WarpSize <= n + WarpSize - 1
  <2>1. /\ n + WarpSize - 1 = q * WarpSize + ((n + WarpSize - 1) % WarpSize)
        /\ (n + WarpSize - 1) % WarpSize \in Nat
    BY <1>1, <1>2, DivMod
  <2>2. q \in Nat /\ q * WarpSize \in Nat /\ n + WarpSize - 1 < q * WarpSize + WarpSize
    BY <1>1, <1>2, QuotientAbove
  <2> QED
    BY <1>1, <1>2, <2>1, <2>2
<1> HIDE DEF q
<1>5. ASSUME NEW i \in Nat, i < n PROVE i \div WarpSize < q
  <2> DEFINE w == i \div WarpSize
  <2>1. w \in Nat /\ i = w * WarpSize + (i % WarpSize) /\ i % WarpSize \in Nat
    BY <1>1, DivMod
  <2> HIDE DEF w
  <2>2. ASSUME q <= w PROVE FALSE
    <3>1. q * WarpSize <= w * WarpSize /\ w * WarpSize \in Nat
      BY <1>1, <1>4, <2>1, <2>2, TimesMonotonic
    <3> QED
      BY <1>1, <1>2, <1>4, <1>5, <2>1, <3>1
  <2>3. w < q
    BY <1>4, <2>1, <2>2
  <2> QED
    BY <2>3 DEF w
<1>6. ASSUME NEW w \in Nat, w < q PROVE w * WarpSize < n
  <2>1. (w + 1) * WarpSize <= q * WarpSize /\ (w + 1) * WarpSize = w * WarpSize + WarpSize
        /\ w * WarpSize \in Nat
    BY <1>1, <1>4, <1>6, TimesMonotonic, Product
  <2> QED
    BY <1>1, <1>2, <1>4, <2>1
<1> QED
  BY <1>3, <1>4, <1>5, <1>6 DEF n

\* The warps that the threads ts are in.
Warps(ts) == {<<t.ctaid, (t.tid.y * block.x + t.tid.x) \div WarpSize>> : t \in ts}

\* A launch has as many warps as its blocks times those of a block.
LEMMA WarpsCounted ==
    ASSUME grid \in Dim2, block \in Dim2, BlockFits
    PROVE  Cardinality(Warps(Threads)) = (grid.x * grid.y) * WarpCount
<1> DEFINE G == Coordinates(grid)
           W == 0..WarpCount - 1
           Linear(t) == t.tid.y * block.x + t.tid.x
<1>1. WarpSize \in Nat \ {0} /\ WarpCount \in Nat /\ block.x \in Nat /\ block.y \in Nat
  BY LaunchAssumption, LanesOfBlock, WarpsNeeded
<1>2. ASSUME NEW t \in Threads PROVE t.ctaid \in G /\ Linear(t) \div WarpSize \in W
  <2>1. t.ctaid \in G /\ t.tid.x \in 0..block.x - 1 /\ t.tid.y \in 0..block.y - 1
    BY DEF Threads, Coordinates
  <2>2. t.tid.x \in Nat /\ t.tid.y \in Nat /\ t.tid.x < block.x /\ t.tid.y + 1 <= block.y
    BY <1>1, <2>1
  <2>3. (t.tid.y + 1) * block.x <= block.y * block.x /\ block.y * block.x = block.x * block.y
        /\ (t.tid.y + 1) * block.x = t.tid.y * block.x + block.x /\ t.tid.y * block.x \in Nat
    BY <1>1, <2>2, TimesMonotonic, Product
  <2>4. Linear(t) \in Nat /\ Linear(t) < block.x * block.y
    <3>1. block.x * block.y \in Nat
      BY <1>1
    <3> QED
      BY <1>1, <2>2, <2>3, <3>1
  <2> HIDE DEF Linear
  <2>5. Linear(t) \div WarpSize < WarpCount /\ Linear(t) \div WarpSize \in Nat
    BY <1>1, <2>4, WarpsNeeded, DivMod
  <2> QED
    BY <1>1, <2>1, <2>5
<1>3. ASSUME NEW c \in G, NEW w \in W
      PROVE  \E t \in Threads : t.ctaid = c /\ Linear(t) \div WarpSize = w
  <2> DEFINE i == w * WarpSize
             t == [ctaid |-> c, tid |-> [x |-> i % block.x, y |-> i \div block.x]]
  <2>1. w \in Nat /\ w < WarpCount
    BY <1>1
  <2>2. i \in Nat /\ i < block.x * block.y
    BY <1>1, <2>1, WarpsNeeded
  <2>3. i \div WarpSize = w
    <3>1. (w * WarpSize + 0) \div WarpSize = w /\ 0 \in 0..WarpSize - 1
      BY <1>1, <2>1, DivUnique
    <3> QED
      BY <1>1, <2>1, <3>1
  <2> HIDE DEF i
  <2>4. block.x \in Nat \ {0}
    <3>1. block.x = 0 => block.x * block.y = 0
      BY <1>1
    <3> QED
      BY <1>1, <2>2, <3>1
  <2>5. i \div block.x \in 0..block.y - 1 /\ i % block.x \in 0..block.x - 1
        /\ i = (i \div block.x) * block.x + (i % block.x)
    BY <1>1, <2>2, <2>4, QuotientInside, DivMod
  <2>6. t \in Threads
    BY <2>5 DEF Threads, Coordinates
  <2>7. Linear(t) = i
    BY <2>5
  <2> QED
    BY <2>3, <2>6, <2>7
<1>4. Warps(Threads) = G \X W
  <2>1. ASSUME NEW v \in Warps(Threads) PROVE v \in G \X W
    <3>1. PICK t \in Threads : v = <<t.ctaid, Linear(t) \div WarpSize>>
      BY <2>1 DEF Warps
    <3> QED
      BY <1>2, <3>1
  <2>2. ASSUME NEW v \in G \X W PROVE v \in Warps(Threads)
    <3>1. v = <<v[1], v[2]>> /\ v[1] \in G /\ v[2] \in W
      OBVIOUS
    <3>2. PICK t \in Threads : t.ctaid = v[1] /\ Linear(t) \div WarpSize = v[2]
      BY <1>3, <3>1
    <3> QED
      BY <3>1, <3>2 DEF Warps
  <2> QED
    BY <2>1, <2>2
<1>5. IsFiniteSet(W) /\ Cardinality(W) = WarpCount
  <2>1. 0 \in Int /\ WarpCount - 1 \in Int
    BY <1>1
  <2>2. IsFiniteSet(W) /\ Cardinality(W) = IF 0 > WarpCount - 1 THEN 0 ELSE WarpCount - 1 - 0 + 1
    BY <2>1, FS_Interval
  <2> QED
    BY <1>1, <2>2
<1>6. IsFiniteSet(G) /\ Cardinality(G) = grid.x * grid.y
  BY CoordinatesCounted
<1> HIDE DEF G, W
<1> QED
  BY <1>4, <1>5, <1>6, FS_Product

-----------------------------------------------------------------------------
(* The counters of a launch                                                *)

\* Reducing a sum's first term before adding does not change the reduced sum.
LEMMA SumReduced ==
    ASSUME NEW a \in Nat, NEW b \in Nat, NEW m \in Nat \ {0}
    PROVE  ((a % m) + b) % m = (a + b) % m
<1> DEFINE q == a \div m
           r == a % m
           p == (r + b) \div m
           s == (r + b) % m
<1>1. a = q * m + r /\ r \in 0..m - 1 /\ q \in Nat
  BY DivMod
<1>2. r + b \in Nat
  BY <1>1
<1> HIDE DEF q, r
<1>3. r + b = p * m + s /\ s \in 0..m - 1 /\ p \in Nat
  BY <1>2, DivMod
<1> HIDE DEF p, s
<1>4. q + p \in Nat /\ (q + p) * m = q * m + p * m /\ q * m \in Nat /\ p * m \in Nat
  BY <1>1, <1>3
<1>5. a + b = (q + p) * m + s
  BY <1>1, <1>3, <1>4
<1>6. ((q + p) * m + s) % m = s
  BY <1>3, <1>4, DivUnique
<1> QED
  BY <1>5, <1>6 DEF r, s

\* How many blocks of the grid g come before c.
Number(c, g) == c.y * g.x + c.x

\* The loops go through the numbers one by one, up to the size of the grid.
LEMMA NumberFollowing ==
    ASSUME grid \in Dim2, NEW c \in Coordinates(grid)
    PROVE  /\ Number(c, grid) \in Nat /\ grid.x * grid.y \in Nat
           /\ Following(c).y < grid.y => Number(Following(c), grid) = Number(c, grid) + 1
           /\ ~(Following(c).y < grid.y) => Number(c, grid) + 1 = grid.x * grid.y
<1>1. grid.x \in Nat /\ grid.y \in Nat
  BY LaunchAssumption DEF Dim2, Words
<1>2. c.x \in 0..grid.x - 1 /\ c.y \in 0..grid.y - 1 /\ c = [x |-> c.x, y |-> c.y]
  BY DEF Coordinates
<1>3. c.x \in Nat /\ c.y \in Nat /\ c.x < grid.x /\ c.y < grid.y
  BY <1>1, <1>2
<1>4. /\ c.y * grid.x \in Nat /\ grid.x * grid.y \in Nat /\ grid.x * grid.y = grid.y * grid.x
      /\ (c.y + 1) * grid.x = c.y * grid.x + grid.x
  BY <1>1, <1>3, Product
<1>5. Number(c, grid) \in Nat
  BY <1>3, <1>4 DEF Number
<1>6. CASE c.x + 1 < grid.x
  <2>1. Following(c).x = c.x + 1 /\ Following(c).y = c.y
    BY <1>2, <1>6 DEF Following
  <2>2. Number(Following(c), grid) = Number(c, grid) + 1
    BY <1>3, <1>4, <2>1 DEF Number
  <2> QED
    BY <1>3, <1>4, <1>5, <2>1, <2>2
<1>7. CASE ~(c.x + 1 < grid.x)
  <2>1. Following(c).x = 0 /\ Following(c).y = c.y + 1 /\ grid.x = c.x + 1
    BY <1>1, <1>3, <1>7 DEF Following
  <2>2. Number(Following(c), grid) = Number(c, grid) + 1
    BY <1>1, <1>3, <1>4, <2>1 DEF Number
  <2>3. ASSUME ~(Following(c).y < grid.y) PROVE Number(c, grid) + 1 = grid.x * grid.y
    <3>1. grid.y = c.y + 1
      BY <1>1, <1>3, <2>1, <2>3
    <3> QED
      BY <1>3, <1>4, <2>1, <3>1 DEF Number
  <2> QED
    BY <1>4, <1>5, <2>2, <2>3
<1> QED
  BY <1>6, <1>7

\* The statistics of n blocks that have begun, of which m have ended, each of so many
\* warps and lanes.
Statistics(n, m, warps, lanes) ==
    [blocks_executed |-> m % WordRange, warps_launched |-> (n * warps) % WordRange,
     lanes_launched |-> (m * lanes) % WordRange]

\* The counters have counted the blocks of the launch up to the one that runs.
Begun == Statistics(Number(ctaid, grid) + 1, Number(ctaid, grid), WarpCount, Count(block))
Ended == Statistics(Number(ctaid, grid) + 1, Number(ctaid, grid) + 1, WarpCount, Count(block))
Whole == Statistics(grid.x * grid.y, grid.x * grid.y, WarpCount, Count(block))

Counted ==
    /\ phase = "called" => stats = NoStats
    /\ phase = "block" => stats = Begun
    /\ phase = "next" => stats = Ended
    /\ result.kind = "stats" => grid \in Dim2 /\ block \in Dim2 /\ result.stats = Whole

\* Entering a block counts its warps.
LEMMA EnterCounts ==
    ASSUME block \in Dim2, NEW n \in Nat,
           stats = Statistics(n, n, WarpCount, Count(block)), Enter
    PROVE  stats' = Statistics(n + 1, n, WarpCount, Count(block))
<1>1. WordRange \in Nat \ {0} /\ WarpCount \in Nat
  BY LaunchAssumption, LanesOfBlock DEF Words
<1>2. n * WarpCount \in Nat /\ (n + 1) * WarpCount = n * WarpCount + WarpCount
  BY <1>1, Product
<1>3. (((n * WarpCount) % WordRange) + WarpCount) % WordRange = ((n + 1) * WarpCount) % WordRange
  BY <1>1, <1>2, SumReduced
<1>4. stats' = [stats EXCEPT !.warps_launched = (@ + WarpCount) % WordRange]
  BY DEF Enter
<1> QED
  BY <1>3, <1>4 DEF Statistics

\* The end of a block counts the block and its lanes.
LEMMA EndCounts ==
    ASSUME block \in Dim2, NEW n \in Nat,
           stats = Statistics(n + 1, n, WarpCount, Count(block)), BlockEnds
    PROVE  stats' = Statistics(n + 1, n + 1, WarpCount, Count(block))
<1>1. WordRange \in Nat \ {0} /\ Count(block) \in Nat
  BY LaunchAssumption, LanesOfBlock DEF Words
<1>2. n * Count(block) \in Nat /\ (n + 1) * Count(block) = n * Count(block) + Count(block)
  BY <1>1, Product
<1>3. ((n % WordRange) + 1) % WordRange = (n + 1) % WordRange
  BY <1>1, SumReduced
<1>4. (((n * Count(block)) % WordRange) + Count(block)) % WordRange
          = ((n + 1) * Count(block)) % WordRange
  BY <1>1, <1>2, SumReduced
<1>5. stats' = [stats EXCEPT !.blocks_executed = (@ + 1) % WordRange,
                             !.lanes_launched = (@ + Count(block)) % WordRange]
  BY DEF BlockEnds
<1> QED
  BY <1>3, <1>4, <1>5 DEF Statistics

\* What is counted of a launch does not change while its arguments do not.
LEMMA SameCounts ==
    ASSUME UNCHANGED <<grid, block>>
    PROVE  WarpCount' = WarpCount /\ Count(block)' = Count(block) /\ Whole' = Whole
BY DEF WarpCount, Whole, Count, Statistics

\* Every step keeps the count.
LEMMA CountedHolds == IInv /\ Counted /\ [Next]_vars => Counted'
<1> SUFFICES ASSUME IInv, Counted, [Next]_vars PROVE Counted'
  OBVIOUS
<1>1. grid \in Dim2 /\ block \in Dim2 /\ WordRange \in Nat \ {0}
  BY LaunchAssumption DEF IInv, TypeOK
<1>2. ASSUME NEW p, NEW g, NEW b, Call(p, g, b) PROVE Counted'
  BY <1>2 DEF Call, Counted, NoResult
<1>3. ASSUME phase' = "host", result'.kind # "stats" PROVE Counted'
  BY <1>3 DEF Counted
<1>4. CASE Undecodable \/ Empty
  BY <1>3, <1>4 DEF Undecodable, Empty, Return, Faulted
<1>5. ASSUME NEW e \in waiting, BlockFaults(e) PROVE Counted'
  BY <1>3, <1>5 DEF BlockFaults, Return, Faulted
<1>6. ASSUME UNCHANGED <<phase, grid, block, ctaid, stats, result>> PROVE Counted'
  <2>1. Whole' = Whole /\ WarpCount' = WarpCount /\ Count(block)' = Count(block)
    BY <1>6, SameCounts
  <2>2. Begun' = Begun /\ Ended' = Ended
    BY <1>6, <2>1 DEF Begun, Ended, Number, Statistics
  <2> QED
    BY <1>6, <2>1, <2>2 DEF Counted
<1>7. ASSUME NEW e \in waiting, RunThread(e) PROVE Counted'
  BY <1>6, <1>7 DEF RunThread
<1>8. CASE FirstBlock
  <2>1. /\ stats = NoStats /\ ctaid = [x |-> 0, y |-> 0] /\ result = NoResult
        /\ Enter /\ phase' = "block" /\ UNCHANGED <<grid, block, ctaid, result>>
    BY <1>8 DEF FirstBlock, IInv, Fresh, ResultLast, Counted, Enter
  <2>2. stats = Statistics(0, 0, WarpCount, Count(block))
    <3>1. WarpCount \in Nat /\ Count(block) \in Nat
      BY <1>1, LanesOfBlock DEF Words
    <3>2. 0 * WarpCount = 0 /\ 0 * Count(block) = 0 /\ 0 % WordRange = 0
      BY <1>1, <3>1, ModSmaller
    <3> QED
      BY <2>1, <3>2 DEF Statistics, NoStats
  <2>3. stats' = Statistics(0 + 1, 0, WarpCount, Count(block))
    BY <1>1, <2>1, <2>2, EnterCounts
  <2>4. Number(ctaid, grid) = 0
    <3>1. grid.x \in Nat
      BY <1>1, LaunchAssumption DEF Dim2, Words
    <3> QED
      BY <2>1, <3>1 DEF Number
  <2>5. Begun' = Begun
    BY <2>1, SameCounts DEF Begun, Number, Statistics
  <2> QED
    BY <2>1, <2>3, <2>4, <2>5 DEF Counted, Begun, NoResult
<1>9. CASE BlockEnds
  <2> DEFINE n == Number(ctaid, grid)
  <2>1. /\ phase = "block" /\ phase' = "next" /\ UNCHANGED <<grid, block, ctaid, result>>
        /\ result = NoResult /\ ctaid \in Coordinates(grid)
    BY <1>9 DEF BlockEnds, IInv, ResultLast, InGrid, Running
  <2>2. n \in Nat
    BY <1>1, <2>1, NumberFollowing
  <2>3. stats = Statistics(n + 1, n, WarpCount, Count(block))
    BY <2>1 DEF Counted, Begun
  <2>4. Ended' = Ended
    BY <2>1, SameCounts DEF Ended, Number, Statistics
  <2>5. stats' = Ended
    <3> HIDE DEF n
    <3>1. stats' = Statistics(n + 1, n + 1, WarpCount, Count(block))
      BY <1>1, <1>9, <2>2, <2>3, EndCounts
    <3> QED
      BY <3>1 DEF Ended, n
  <2> QED
    BY <2>1, <2>4, <2>5 DEF Counted, NoResult
<1>10. CASE NextBlock
  <2> DEFINE n == Number(ctaid, grid)
  <2>1. /\ phase = "next" /\ Following(ctaid).y < grid.y /\ ctaid' = Following(ctaid)
        /\ Enter /\ phase' = "block" /\ UNCHANGED <<grid, block, result>>
        /\ result = NoResult /\ ctaid \in Coordinates(grid)
    BY <1>10 DEF NextBlock, Enter, IInv, ResultLast, InGrid, Running
  <2>2. n \in Nat /\ Number(Following(ctaid), grid) = n + 1
    BY <1>1, <2>1, NumberFollowing
  <2>3. stats = Statistics(n + 1, n + 1, WarpCount, Count(block))
    BY <2>1 DEF Counted, Ended
  <2>4. Begun' = Statistics(n + 1 + 1, n + 1, WarpCount, Count(block))
    BY <2>1, <2>2, SameCounts DEF Begun, Number, Statistics
  <2> HIDE DEF n
  <2>5. stats' = Statistics(n + 1 + 1, n + 1, WarpCount, Count(block))
    BY <1>1, <2>1, <2>2, <2>3, EnterCounts
  <2> QED
    BY <2>1, <2>4, <2>5 DEF Counted, NoResult
<1>11. CASE Completes
  <2> DEFINE n == Number(ctaid, grid)
  <2>1. /\ phase = "next" /\ ~(Following(ctaid).y < grid.y) /\ result' = Succeeded(stats)
        /\ phase' = "host" /\ UNCHANGED <<grid, block>> /\ ctaid \in Coordinates(grid)
    BY <1>11 DEF Completes, Return, IInv, InGrid, Running
  <2>2. n + 1 = grid.x * grid.y
    BY <1>1, <2>1, NumberFollowing
  <2>3. stats = Whole
    BY <2>1, <2>2 DEF Counted, Ended, Whole
  <2> QED
    BY <1>1, <2>1, <2>3, SameCounts DEF Counted, Succeeded
<1>12. CASE UNCHANGED vars
  BY <1>6, <1>12 DEF vars
<1> QED
  BY <1>2, <1>4, <1>5, <1>7, <1>8, <1>9, <1>10, <1>11, <1>12 DEF Next, Idle

\* docs/counters.md:19-21: a launch that returns statistics has counted its blocks, the
\* warps of its threads and its threads, reduced to the width of the counters, for every
\* grid and every block whose lanes and warps 32 bits can count.
THEOREM CountersAreRight == Spec => []CountersMatch
<1>1. Init => Counted
  BY DEF Init, Counted, NoResult
<1>2. IInv /\ Counted => CountersMatch
  <2> SUFFICES ASSUME IInv, Counted, result.kind = "stats", BlockFits
               PROVE  /\ result.stats.blocks_executed = (grid.x * grid.y) % WordRange
                      /\ result.stats.warps_launched = Cardinality(Warps(ran)) % WordRange
                      /\ result.stats.lanes_launched = Cardinality(ran) % WordRange
    BY DEF CountersMatch, Warps
  <2>1. /\ grid \in Dim2 /\ block \in Dim2 /\ ran = Threads
        /\ result.stats = Whole
    BY DEF IInv, EveryThreadRuns, Counted
  <2>2. Count(block) = block.x * block.y
    <3>1. WordRange \in Nat \ {0} /\ WarpSize \in Nat \ {0} /\ block.x * block.y \in Nat
      BY <2>1, LaunchAssumption, LanesOfBlock
    <3>2. block.x * block.y < WordRange
      BY <3>1 DEF BlockFits
    <3> QED
      BY <3>1, <3>2, ModSmaller DEF Count
  <2>3. /\ Cardinality(Threads) = (grid.x * grid.y) * (block.x * block.y)
        /\ Cardinality(Warps(Threads)) = (grid.x * grid.y) * WarpCount
    BY <2>1, ThreadsCounted, WarpsCounted
  <2> QED
    BY <2>1, <2>2, <2>3 DEF Whole, Statistics
<1> QED
  BY <1>1, <1>2, CountedHolds, AlwaysIInv, PTL DEF Spec
=============================================================================
