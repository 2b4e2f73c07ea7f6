---------------------------- MODULE MemoryProofs ----------------------------
(***************************************************************************)
(* A memory instruction of a warp, for any number of lanes, any width of   *)
(* the words and any memories: the effects of its lanes' accesses, made    *)
(* one by one, are those of wisa-spec.md section 5.                        *)
(***************************************************************************)
EXTENDS Memory, FiniteSetTheorems, WellFoundedInduction, TLAPS

\* The types, without those of the counters.
Typed ==
    /\ regs \in RegisterFiles /\ cells \in Memories
    /\ access \in Accesses /\ exec \in SUBSET Lanes
    /\ addresses \in [Lanes -> Words] /\ pending \in SUBSET exec
    /\ before.cells \in Memories /\ before.regs \in RegisterFiles
    /\ issued \in 0..MaxAccesses
    /\ fault \in [lane : Lanes \cup {-1}, address : Words]

\* The lanes that have performed are below those that have not.
InOrder == \A l \in Performed, m \in pending : l < m

\* Addresses are those of the registers at issue.
AddressesAtIssue ==
    \A l \in exec : addresses[l] =
        IF access.space = "param" THEN access.imm
        ELSE (before.regs[l][access.src0] + access.imm) % WordRange

\* An instruction changes registers or memory, not both.
OneWay ==
    /\ access.store => regs = before.regs
    /\ ~access.store => cells = before.cells

IInv ==
    /\ Typed
    /\ InOrder /\ AddressesAtIssue /\ OneWay
    /\ PerformedInside /\ StoresInLaneOrder /\ LoadsDeliver /\ FaultIsFirst

-----------------------------------------------------------------------------

\* What Accesses may contain: no store to the parameter table.
LEMMA AccessTyped ==
    ASSUME NEW i \in Accesses
    PROVE  /\ i \in AccessType
           /\ i.space = "param" => ~i.store
BY MemoryAssumption

\* An access that is not refused is a whole word of its memory.
LEMMA AcceptedWord ==
    ASSUME NEW space \in {"global", "shared"}, NEW a \in Words, ~Refused(space, a)
    PROVE  /\ a \div WordBytes \in WordsOf(space)
           /\ a = WordBytes * (a \div WordBytes)
<1>1. Bytes[space] \in Nat
  BY MemoryAssumption DEF Bytes
<1>2. a \in Nat /\ a % 4 = 0 /\ a + 4 <= Bytes[space]
  <2>1. a \in Nat
    BY MemoryAssumption DEF Words
  <2>2. space # "param"
    OBVIOUS
  <2>3. a % 4 = 0 /\ ~(a + 4 > Bytes[space])
    BY <2>2 DEF Refused, WordBytes
  <2> QED
    BY <1>1, <2>1, <2>3
<1>3. a = 4 * (a \div 4) /\ a \div 4 \in Nat
  BY <1>2
<1>4. a \div 4 <= (Bytes[space] \div 4) - 1
  BY <1>1, <1>2, <1>3
<1> QED
  BY <1>1, <1>3, <1>4 DEF WordsOf, WordBytes

\* Words are named by their first byte.
LEMMA WordNumber ==
    ASSUME NEW c \in Nat, NEW a \in Nat, WordBytes * c = a
    PROVE  c = a \div WordBytes
BY DEF WordBytes

\* The number of a word is natural.
LEMMA WordsNatural == \A space : WordsOf(space) \subseteq Nat
BY DEF WordsOf

\* A 32-bit sum is a word.
LEMMA SumIsWord ==
    ASSUME NEW a \in Words, NEW b \in Words
    PROVE  (a + b) % WordRange \in Words
<1>1. WordRange \in Nat /\ WordRange > 0 /\ a + b \in Nat
  BY MemoryAssumption DEF Words
<1> QED
  BY <1>1 DEF Words

\* The addresses of an instruction are words.
LEMMA AddressesTyped ==
    ASSUME regs \in RegisterFiles, NEW i \in Accesses, NEW lanes \in SUBSET Lanes
    PROVE  AddressesOf(i, lanes) \in [Lanes -> Words]
<1>1. i.imm \in Words /\ i.src0 \in Registers
  BY AccessTyped DEF AccessType
<1>2. 0 \in Words
  BY MemoryAssumption DEF Words
<1>3. \A l \in Lanes : regs[l][i.src0] \in Words
  BY <1>1 DEF RegisterFiles
<1>4. \A l \in Lanes : (regs[l][i.src0] + i.imm) % WordRange \in Words
  BY <1>1, <1>3, SumIsWord
<1> QED
  BY <1>1, <1>2, <1>4 DEF AddressesOf

\* What a load delivers is a word.
LEMMA LoadedTyped ==
    ASSUME cells \in Memories, NEW space \in Spaces, NEW a \in Words, ~Refused(space, a)
    PROVE  Loaded(cells, space, a) \in Words
<1>1. CASE space = "param"
  <2>1. a \in Nat /\ ~(a >= Len(Params)) /\ Params \in Seq(Words)
    BY <1>1, MemoryAssumption DEF Refused, Words
  <2>2. a + 1 \in 1..Len(Params)
    BY <2>1
  <2> QED
    BY <1>1, <2>1, <2>2 DEF Loaded
<1>2. CASE space # "param"
  <2>1. space \in {"global", "shared"}
    BY <1>2 DEF Spaces
  <2>2. a \div WordBytes \in WordsOf(space)
    BY <2>1, AcceptedWord
  <2>3. cells[space] \in [WordsOf(space) -> Words]
    BY <2>1 DEF Memories
  <2> QED
    BY <1>2, <2>2, <2>3 DEF Loaded
<1> QED
  BY <1>1, <1>2

\* The lane whose turn it is joins those that have performed.
LEMMA TurnPerforms ==
    ASSUME IInv, NEW l \in Lanes, Turn(l), exec' = exec, pending' = pending \ {l}
    PROVE  /\ l \in exec /\ l \notin Performed
           /\ pending' \in SUBSET exec
           /\ Performed' = Performed \cup {l}
           /\ \A m \in Performed : m < l
           /\ InOrder'
<1>1. exec \subseteq Int /\ pending \subseteq exec /\ l \in pending
  BY DEF IInv, Typed, Lanes, Turn
<1>2. \A m \in Performed : m < l
  BY <1>1 DEF IInv, InOrder
<1>3. Performed' = Performed \cup {l}
  BY <1>1 DEF Performed
<1>4. \A m \in pending' : l < m
  BY <1>1 DEF Turn
<1>5. Performed \subseteq Int /\ pending' \subseteq Int /\ pending' \subseteq pending
  BY <1>1 DEF Performed
<1>6. InOrder'
  BY <1>1, <1>3, <1>4, <1>5 DEF IInv, InOrder
<1> QED
  BY <1>1, <1>2, <1>3, <1>6 DEF Performed

-----------------------------------------------------------------------------

LEMMA InitHolds == Init => IInv
<1> SUFFICES ASSUME Init PROVE IInv
  OBVIOUS
<1>1. access \in Accesses
  BY MemoryAssumption DEF Init
<1>2. 0 \in Words /\ 0 \in 0..MaxAccesses
  BY MemoryAssumption DEF Words
<1>3. cells \in Memories /\ regs \in RegisterFiles
  BY <1>2, MemoryAssumption DEF Init, Memories
<1>4. Typed
  BY <1>1, <1>2, <1>3 DEF Init, Typed, None
<1>5. Performed = {}
  BY DEF Init, Performed
<1>6. InOrder /\ AddressesAtIssue /\ OneWay /\ PerformedInside /\ FaultIsFirst
  BY <1>5 DEF Init, InOrder, AddressesAtIssue, OneWay, PerformedInside, FaultIsFirst, None
<1>7. StoresInLaneOrder
  BY <1>5 DEF Init, StoresInLaneOrder
<1>8. LoadsDeliver
  BY <1>5 DEF Init, LoadsDeliver
<1> QED
  BY <1>4, <1>6, <1>7, <1>8 DEF IInv

\* An instruction begins with the memories and the registers as they are.
LEMMA IssueHolds ==
    ASSUME IInv, NEW i \in Accesses, NEW lanes \in SUBSET Lanes, Issue(i, lanes)
    PROVE  IInv'
<1>1. Typed'
  <2>1. addresses' \in [Lanes -> Words]
    BY AddressesTyped DEF IInv, Typed, Issue
  <2>2. issued' \in 0..MaxAccesses
    BY MemoryAssumption DEF IInv, Typed, Issue
  <2> QED
    BY <2>1, <2>2 DEF IInv, Typed, Issue
<1>2. Performed' = {}
  BY DEF Issue, Performed
<1>3. before'.regs = regs' /\ before'.cells = cells' /\ regs' = regs /\ fault' = None
  BY DEF Issue
<1>4. InOrder' /\ OneWay' /\ PerformedInside' /\ FaultIsFirst'
  BY <1>2, <1>3 DEF InOrder, OneWay, PerformedInside, FaultIsFirst
<1>5. AddressesAtIssue'
  <2>1. access' = i /\ exec' = lanes /\ addresses' = AddressesOf(i, lanes)
    BY DEF Issue
  <2> QED
    BY <1>3, <2>1 DEF AddressesAtIssue, AddressesOf
<1>6. StoresInLaneOrder'
  BY <1>2, <1>3 DEF StoresInLaneOrder
<1>7. LoadsDeliver'
  BY <1>2, <1>3 DEF LoadsDeliver
<1> QED
  BY <1>1, <1>4, <1>5, <1>6, <1>7 DEF IInv

\* An access that is not refused is inside.
LEMMA AcceptedInside ==
    ASSUME IInv, NEW l \in exec, ~Refused(access.space, addresses[l]),
           Performed' = Performed \cup {l},
           UNCHANGED <<access, addresses>>
    PROVE  PerformedInside'
<1>1. access.space \in Spaces /\ addresses[l] \in Words
  BY AccessTyped DEF IInv, Typed, AccessType
<1>2. CASE access.space = "param"
  <2>1. addresses[l] \in Nat /\ Len(Params) \in Nat
    BY <1>1, MemoryAssumption DEF Words
  <2>2. addresses[l] < Len(Params)
    BY <1>2, <2>1 DEF Refused
  <2>3. addresses[l] \in 0..Len(Params) - 1
    BY <2>1, <2>2
  <2> QED
    BY <1>2, <2>3 DEF IInv, PerformedInside
<1>3. CASE access.space # "param"
  <2>1. \E c \in WordsOf(access.space) : addresses[l] = WordBytes * c
    BY <1>1, <1>3, AcceptedWord DEF Spaces
  <2> QED
    BY <1>3, <2>1 DEF IInv, PerformedInside
<1> QED
  BY <1>2, <1>3

\* A load writes one register of its lane, and memory is what it was at issue.
LEMMA LoadHolds ==
    ASSUME IInv, NEW l \in Lanes, Load(l)
    PROVE  IInv'
<1> DEFINE value == Loaded(cells, access.space, addresses[l])
<1>1. /\ Turn(l) /\ ~access.store /\ ~Refused(access.space, addresses[l])
      /\ pending' = pending \ {l}
      /\ UNCHANGED <<cells, access, exec, addresses, before, stats, issued, fault>>
  BY DEF Load
<1>2. /\ l \in exec /\ l \notin Performed /\ pending' \in SUBSET exec
      /\ Performed' = Performed \cup {l}
      /\ InOrder'
  BY <1>1, TurnPerforms
<1>3. regs' = [regs EXCEPT ![l][access.dst] = value]
  BY DEF Load
<1>4. /\ access.space \in Spaces /\ access.dst \in Registers /\ access.imm \in Words
      /\ access \in Accesses
      /\ addresses[l] \in Words /\ regs \in RegisterFiles
  BY AccessTyped DEF IInv, Typed, AccessType
<1>5. value \in Words
  BY <1>1, <1>4, LoadedTyped DEF IInv, Typed
<1> HIDE DEF value
<1>6. regs' \in RegisterFiles
  BY <1>3, <1>4, <1>5 DEF RegisterFiles
<1>7. \A m \in Lanes, r \in Registers :
          regs'[m][r] = IF m = l /\ r = access.dst THEN value ELSE regs[m][r]
  BY <1>3, <1>4 DEF RegisterFiles
<1>8. Typed'
  BY <1>1, <1>2, <1>6 DEF IInv, Typed
<1>9. AddressesAtIssue' /\ OneWay'
  BY <1>1 DEF IInv, AddressesAtIssue, OneWay
<1>10. PerformedInside'
  BY <1>1, <1>2, AcceptedInside
<1>11. StoresInLaneOrder'
  BY <1>1 DEF IInv, StoresInLaneOrder
<1>12. FaultIsFirst'
  BY <1>1 DEF IInv, FaultIsFirst, Turn
<1>13. LoadsDeliver'
  <2>1. cells = before.cells
    BY <1>1 DEF IInv, OneWay
  <2>2. addresses[l] = IF access.space = "param" THEN access.imm
                       ELSE (before.regs[l][access.src0] + access.imm) % WordRange
    BY <1>2 DEF IInv, AddressesAtIssue
  <2>3. access.space = "param" => value = Params[access.imm + 1]
    BY <2>2 DEF value, Loaded
  <2>4. access.space # "param" => \E c \in WordsOf(access.space) :
            /\ WordBytes * c = (before.regs[l][access.src0] + access.imm) % WordRange
            /\ value = before.cells[access.space][c]
    <3> SUFFICES ASSUME access.space # "param"
                 PROVE  \E c \in WordsOf(access.space) :
                           /\ WordBytes * c = addresses[l]
                           /\ value = before.cells[access.space][c]
      BY <2>2
    <3>1. /\ addresses[l] \div WordBytes \in WordsOf(access.space)
          /\ addresses[l] = WordBytes * (addresses[l] \div WordBytes)
      BY <1>1, <1>4, AcceptedWord DEF Spaces
    <3>2. value = before.cells[access.space][addresses[l] \div WordBytes]
      BY <2>1 DEF value, Loaded
    <3> QED
      BY <3>1, <3>2
  <2>5. \A r \in Registers : regs[l][r] = before.regs[l][r]
    BY <1>2 DEF IInv, LoadsDeliver
  <2>6. \A r \in Registers : r # access.dst => regs'[l][r] = before.regs[l][r]
    BY <1>7, <2>5
  <2>7. regs'[l][access.dst] = value
    BY <1>4, <1>7
  <2>8. \A m \in Lanes \ {l} : \A r \in Registers : regs'[m][r] = regs[m][r]
    BY <1>7
  <2> QED
    BY <1>1, <1>2, <2>3, <2>4, <2>6, <2>7, <2>8 DEF IInv, LoadsDeliver
<1> QED
  BY <1>2, <1>8, <1>9, <1>10, <1>11, <1>12, <1>13 DEF IInv

\* A store writes one word, over what lower lanes have stored there.
LEMMA StoreHolds ==
    ASSUME IInv, NEW l \in Lanes, Store(l)
    PROVE  IInv'
<1> DEFINE space == access.space
           word == addresses[l] \div WordBytes
           value == regs[l][access.src1]
<1>1. /\ Turn(l) /\ access.store /\ ~Refused(access.space, addresses[l])
      /\ pending' = pending \ {l}
      /\ UNCHANGED <<regs, access, exec, addresses, before, stats, issued, fault>>
  BY DEF Store
<1>2. /\ l \in exec /\ l \notin Performed /\ pending' \in SUBSET exec
      /\ Performed' = Performed \cup {l}
      /\ \A m \in Performed : m < l
      /\ InOrder'
  BY <1>1, TurnPerforms
<1>3. /\ space \in {"global", "shared"} /\ access.src1 \in Registers
      /\ addresses[l] \in Words /\ regs \in RegisterFiles /\ cells \in Memories
  BY <1>1, AccessTyped DEF IInv, Typed, AccessType, Spaces
<1>4. value \in Words
  BY <1>3 DEF RegisterFiles
<1>5. word \in WordsOf(space) /\ addresses[l] = WordBytes * word
  BY <1>1, <1>3, AcceptedWord
<1>6. cells' = [cells EXCEPT ![space][word] = value]
  BY DEF Store, Stored
<1>7. value = before.regs[l][access.src1]
  BY <1>1 DEF IInv, OneWay
<1> HIDE DEF space, word, value
<1>8. cells' \in Memories
  BY <1>3, <1>4, <1>5, <1>6 DEF Memories
<1>9. \A s \in {"global", "shared"} : \A c \in WordsOf(s) :
          cells'[s][c] = IF s = space /\ c = word THEN value ELSE cells[s][c]
  BY <1>3, <1>5, <1>6 DEF Memories
<1>10. Typed'
  BY <1>1, <1>2, <1>8 DEF IInv, Typed
<1>11. AddressesAtIssue' /\ OneWay'
  BY <1>1 DEF IInv, AddressesAtIssue, OneWay
<1>12. PerformedInside'
  BY <1>1, <1>2, AcceptedInside
<1>13. LoadsDeliver'
  BY <1>1, <1>2 DEF IInv, LoadsDeliver
<1>14. FaultIsFirst'
  BY <1>1 DEF IInv, FaultIsFirst, Turn
<1>15. StoresInLaneOrder'
  <2> DEFINE Writers(P, s, c) ==
                 {m \in P : access.store /\ access.space = s /\ addresses[m] = WordBytes * c}
  <2> SUFFICES ASSUME NEW s \in {"global", "shared"}, NEW c \in WordsOf(s)
               PROVE  /\ Writers(Performed', s, c) = {}
                             => cells'[s][c] = before.cells[s][c]
                      /\ \A k \in Writers(Performed', s, c) :
                             (\A m \in Writers(Performed', s, c) : m <= k)
                                 => cells'[s][c] = before.regs[k][access.src1]
    BY <1>1 DEF StoresInLaneOrder
  <2>1. /\ Writers(Performed, s, c) = {} => cells[s][c] = before.cells[s][c]
        /\ \A k \in Writers(Performed, s, c) :
               (\A m \in Writers(Performed, s, c) : m <= k)
                   => cells[s][c] = before.regs[k][access.src1]
    BY DEF IInv, StoresInLaneOrder
  <2>2. CASE s = space /\ c = word
    <3>1. cells'[s][c] = value
      BY <1>9, <2>2
    <3>2. l \in Writers(Performed', s, c)
      BY <1>1, <1>2, <1>5, <2>2 DEF space
    <3>3. ASSUME NEW k \in Writers(Performed', s, c),
                 \A m \in Writers(Performed', s, c) : m <= k
          PROVE  k = l
      <4>1. l <= k /\ k \in Performed \cup {l}
        BY <1>2, <3>2, <3>3
      <4>2. k \in Int /\ l \in Int
        BY <4>1, <1>2 DEF IInv, Typed, Performed, Lanes
      <4> QED
        BY <1>2, <4>1, <4>2
    <3> QED
      BY <1>7, <3>1, <3>2, <3>3
  <2>3. CASE ~(s = space /\ c = word)
    <3>1. cells'[s][c] = cells[s][c]
      BY <1>9, <2>3
    <3>2. l \notin Writers(Performed', s, c)
      <4>1. c \in Nat /\ word \in Nat
        BY <1>5, WordsNatural
      <4>2. addresses[l] = WordBytes * c => c = word
        BY <1>5, <4>1 DEF WordBytes
      <4> QED
        BY <2>3, <4>2 DEF space
    <3>3. Writers(Performed', s, c) = Writers(Performed, s, c)
      BY <1>2, <3>2
    <3> QED
      BY <2>1, <3>1, <3>3
  <2> QED
    BY <2>2, <2>3
<1> QED
  BY <1>2, <1>10, <1>11, <1>12, <1>13, <1>14, <1>15 DEF IInv

\* A refused access changes nothing but the fault, which it names.
LEMMA RefuseHolds ==
    ASSUME IInv, NEW l \in Lanes, Refuse(l)
    PROVE  IInv'
<1>1. /\ Turn(l) /\ Refused(access.space, addresses[l])
      /\ fault' = [lane |-> l, address |-> addresses[l]]
      /\ UNCHANGED <<regs, cells, access, exec, addresses, pending, before, stats, issued>>
  BY DEF Refuse
<1>2. addresses[l] \in Words /\ l \in pending /\ l \in exec
  BY <1>1 DEF IInv, Typed, Turn
<1>3. Typed'
  BY <1>1, <1>2 DEF IInv, Typed
<1>4. Performed' = Performed
  BY <1>1 DEF Performed
<1>5. Performed = {m \in exec : m < l}
  <2>1. \A m \in Performed : m < l /\ m \in exec
    BY <1>2 DEF IInv, InOrder, Performed
  <2>2. \A m \in pending : l <= m
    BY <1>1 DEF Turn
  <2>3. exec \subseteq Int /\ l \in Int
    BY DEF IInv, Typed, Lanes
  <2>4. \A m \in exec : m < l => m \in Performed
    BY <2>2, <2>3 DEF Performed
  <2> QED
    BY <2>1, <2>4
<1>6. FaultIsFirst'
  <2>1. addresses[l] = IF access.space = "param" THEN access.imm
                       ELSE (before.regs[l][access.src0] + access.imm) % WordRange
    BY <1>2 DEF IInv, AddressesAtIssue
  <2> QED
    BY <1>1, <1>2, <1>4, <1>5, <2>1 DEF FaultIsFirst
<1>7. InOrder' /\ AddressesAtIssue' /\ OneWay' /\ PerformedInside'
  BY <1>1, <1>4 DEF IInv, InOrder, AddressesAtIssue, OneWay, PerformedInside
<1>8. StoresInLaneOrder'
  BY <1>1, <1>4 DEF IInv, StoresInLaneOrder
<1>9. LoadsDeliver'
  BY <1>1, <1>4 DEF IInv, LoadsDeliver
<1> QED
  BY <1>3, <1>6, <1>7, <1>8, <1>9 DEF IInv

\* The invariant is inductive.
LEMMA StepHolds == IInv /\ [Next]_vars => IInv'
<1> SUFFICES ASSUME IInv, [Next]_vars PROVE IInv'
  OBVIOUS
<1>1. ASSUME NEW i \in Accesses, NEW lanes \in SUBSET Lanes, Issue(i, lanes) PROVE IInv'
  BY <1>1, IssueHolds
<1>2. ASSUME NEW l \in Lanes, Load(l) PROVE IInv'
  BY <1>2, LoadHolds
<1>3. ASSUME NEW l \in Lanes, Store(l) PROVE IInv'
  BY <1>3, StoreHolds
<1>4. ASSUME NEW l \in Lanes, Refuse(l) PROVE IInv'
  BY <1>4, RefuseHolds
<1>5. ASSUME UNCHANGED vars PROVE IInv'
  <2>1. Performed' = Performed
    BY <1>5 DEF vars, Performed
  <2>2. Typed' /\ FaultIsFirst' /\ InOrder' /\ AddressesAtIssue' /\ OneWay' /\ PerformedInside'
    BY <1>5, <2>1 DEF vars, IInv, Typed, FaultIsFirst, InOrder, AddressesAtIssue, OneWay,
                      PerformedInside
  <2>3. StoresInLaneOrder'
    BY <1>5, <2>1 DEF vars, IInv, StoresInLaneOrder
  <2>4. LoadsDeliver'
    BY <1>5, <2>1 DEF vars, IInv, LoadsDeliver
  <2> QED
    BY <2>2, <2>3, <2>4 DEF IInv
<1> QED
  BY <1>1, <1>2, <1>3, <1>4, <1>5 DEF Next, Ended

LEMMA AlwaysIInv == Spec => []IInv
<1> QED
  BY InitHolds, StepHolds, PTL DEF Spec

-----------------------------------------------------------------------------

\* Lanes of one instruction that store to the same word leave the value of the highest
\* of them that came to store, at every moment and after a fault; other words are kept.
THEOREM StoresAreInLaneOrder == Spec => []StoresInLaneOrder
<1>1. IInv => StoresInLaneOrder
  BY DEF IInv
<1> QED
  BY <1>1, AlwaysIInv, PTL

\* Loads deliver what memory held at issue to their own lanes, and nothing else in
\* the register file changes.
THEOREM LoadsAreSimultaneous == Spec => []LoadsDeliver
<1>1. IInv => LoadsDeliver
  BY DEF IInv
<1> QED
  BY <1>1, AlwaysIInv, PTL

\* A faulting instruction has performed exactly the accesses of the lanes below the one
\* that its fault names.
THEOREM FaultsAreFirst == Spec => []FaultIsFirst
<1>1. IInv => FaultIsFirst
  BY DEF IInv
<1> QED
  BY <1>1, AlwaysIInv, PTL

\* An access performed is a whole word inside its memory or a parameter of the launch,
\* for memories of any size, also not a multiple of four, and any 32-bit sum.
THEOREM AccessesStayInside == Spec => []PerformedInside
<1>1. IInv => PerformedInside
  BY DEF IInv
<1> QED
  BY <1>1, AlwaysIInv, PTL

-----------------------------------------------------------------------------
(* Counting the transactions of an access                                  *)

\* k numbers are enough to tell apart the elements of S that f tells apart, or those of
\* one class.
Enough(S, f, k) ==
    \E number \in [S -> 1..k] : \A x, y \in S : number[x] = number[y] => f[x] = f[y]
EnoughByClass(S, class, f, k) ==
    \E number \in [S -> 1..k] : \A x, y \in S :
        number[x] = number[y] => (class[x] = class[y] => f[x] = f[y])

\* Numbers for the elements of S that tell apart what f tells apart: as many as f has
\* values are enough, and fewer are not.
LEMMA Numbering ==
    ASSUME NEW S, IsFiniteSet(S), NEW T, NEW f \in Surjection(S, T)
    PROVE  /\ IsFiniteSet(T) /\ Cardinality(T) \in Nat
           /\ Enough(S, f, Cardinality(T))
           /\ \A j \in 0..Cardinality(T) - 1 : ~Enough(S, f, j)
<1> DEFINE n == Cardinality(T)
<1>0. f \in [S -> T] /\ \A t \in T : \E x \in S : f[x] = t
  BY DEF Surjection
<1>1. IsFiniteSet(T)
  BY FS_Surjection
<1>2. n \in Nat /\ \E g : g \in Bijection(1..n, T)
  BY <1>1, FS_CardinalityType DEF ExistsBijection
<1>3. PICK g : g \in Bijection(1..n, T)
  BY <1>2
<1>4. /\ g \in [1..n -> T]
      /\ \A i, j \in 1..n : g[i] = g[j] => i = j
      /\ \A t \in T : \E i \in 1..n : g[i] = t
  BY <1>3 DEF Bijection, Injection, Surjection, IsInjective
<1>5. \E number \in [S -> 1..n] : \A x, y \in S : number[x] = number[y] <=> f[x] = f[y]
  <2> DEFINE number == [x \in S |-> CHOOSE i \in 1..n : g[i] = f[x]]
  <2>1. \A x \in S : f[x] \in T
    BY <1>0
  <2> HIDE DEF n
  <2>2. \A x \in S : number[x] \in 1..n /\ g[number[x]] = f[x]
    BY <1>4, <2>1
  <2>3. number \in [S -> 1..n]
    BY <2>2
  <2>4. \A x, y \in S : f[x] = f[y] => number[x] = number[y]
    OBVIOUS
  <2> HIDE DEF number
  <2>5. \A x, y \in S : number[x] = number[y] <=> f[x] = f[y]
    BY <2>2, <2>4
  <2> QED
    BY <2>3, <2>5
<1>6. ASSUME NEW j \in 0..n - 1, NEW number \in [S -> 1..j],
             \A x, y \in S : number[x] = number[y] => f[x] = f[y]
      PROVE  FALSE
  <2> DEFINE of == [t \in T |-> CHOOSE x \in S : f[x] = t]
             h == [t \in T |-> number[of[t]]]
  <2>1. \A t \in T : of[t] \in S /\ f[of[t]] = t
    BY <1>0
  <2> HIDE DEF n, of
  <2>2. h \in [T -> 1..j]
    BY <2>1
  <2>3. \A t, u \in T : h[t] = h[u] => t = u
    BY <1>6, <2>1
  <2> HIDE DEF h
  <2>4. h \in Injection(T, 1..j)
    BY <2>2, <2>3 DEF Injection, IsInjective
  <2>5. IsFiniteSet(1..j) /\ Cardinality(1..j) = j
    <3>1. 1 \in Int /\ j \in Int
      BY <1>6
    <3>2. IsFiniteSet(1..j) /\ Cardinality(1..j) = IF 1 > j THEN 0 ELSE j - 1 + 1
      BY <3>1, FS_Interval
    <3> QED
      BY <1>6, <3>2
  <2>6. Cardinality(T) <= j
    BY <2>4, <2>5, FS_Injection
  <2> QED
    BY <1>2, <1>6, <2>6 DEF n
<1> QED
  BY <1>1, <1>2, <1>5, <1>6 DEF n, Enough

\* A finite set of numbers that has an element has a greatest one.
LEMMA MaxOf ==
    ASSUME NEW S \in SUBSET Nat, S # {}, NEW n \in Nat, \A s \in S : s <= n
    PROVE  Max(S) \in S /\ \A s \in S : s <= Max(S)
<1> DEFINE Gap == {m \in Nat : n - m \in S}
<1>1. \A s \in S : s \in Nat /\ n - s \in Gap
  OBVIOUS
<1>2. \E g \in Gap : \A h \in Gap : g <= h
  <2>1. Gap \subseteq Nat /\ Gap # {}
    BY <1>1
  <2> HIDE DEF Gap
  <2>2. \E g \in Gap : \A h \in Gap : <<h, g>> \notin OpToRel(<, Nat)
    BY <2>1, NatLessThanWellFounded, WFMin
  <2>3. \A g, h \in Gap : <<h, g>> \notin OpToRel(<, Nat) => g <= h
    BY <2>1 DEF OpToRel
  <2> QED
    BY <2>2, <2>3
<1>3. PICK g \in Gap : \A h \in Gap : g <= h
  BY <1>2
<1>4. g \in Nat /\ n - g \in S /\ \A s \in S : s \in Nat /\ g <= n - s
  BY <1>1, <1>3
<1> HIDE DEF Gap
<1>5. \E x \in S : \A y \in S : x >= y
  <2>1. \A y \in S : n - g >= y
    BY <1>4
  <2> QED
    BY <1>4, <2>1
<1>6. Max(S) \in S /\ \A y \in S : Max(S) >= y
  BY <1>5 DEF Max
<1> QED
  BY <1>6

\* As Numbering, where only the elements of one class need be told apart, of classes that
\* need so many numbers each: as many are needed as the class needs that needs the most.
LEMMA NumberingByClass ==
    ASSUME NEW S, NEW f, NEW K, NEW class \in [S -> K], NEW Of \in [K -> SUBSET S],
           \A k \in K : \A x \in S : x \in Of[k] <=> class[x] = k,
           NEW size \in [K -> Nat],
           NEW widest \in K, \A k \in K : size[k] <= size[widest],
           \A k \in K : Enough(Of[k], f, size[k]),
           \A j \in 0..size[widest] - 1 : ~Enough(Of[widest], f, j)
    PROVE  /\ EnoughByClass(S, class, f, size[widest])
           /\ \A j \in 0..size[widest] - 1 : ~EnoughByClass(S, class, f, j)
<1> DEFINE n == size[widest]
<1>1. \E number \in [S -> 1..n] : \A x, y \in S :
          number[x] = number[y] => (class[x] = class[y] => f[x] = f[y])
  <2> DEFINE Good(k, h) == \A x, y \in Of[k] : h[x] = h[y] => f[x] = f[y]
             of == [k \in K |-> CHOOSE h \in [Of[k] -> 1..size[k]] : Good(k, h)]
             number == [x \in S |-> of[class[x]][x]]
  <2>1. ASSUME NEW k \in K PROVE of[k] \in [Of[k] -> 1..size[k]] /\ Good(k, of[k])
    <3>1. \E h \in [Of[k] -> 1..size[k]] : Good(k, h)
      BY DEF Enough
    <3> HIDE DEF Good
    <3> QED
      BY <3>1
  <2> HIDE DEF of
  <2>2. ASSUME NEW x \in S
        PROVE  class[x] \in K /\ x \in Of[class[x]] /\ of[class[x]][x] \in 1..n
    <3>1. class[x] \in K /\ x \in Of[class[x]]
      OBVIOUS
    <3>2. of[class[x]][x] \in 1..size[class[x]]
      <4> HIDE DEF Good
      <4> QED
        BY <2>1, <3>1
    <3>3. size[class[x]] \in Nat /\ n \in Nat /\ size[class[x]] <= n
      BY <3>1
    <3> HIDE DEF n
    <3> QED
      BY <3>1, <3>2, <3>3
  <2>3. number \in [S -> 1..n]
    BY <2>2
  <2>4. ASSUME NEW x \in S, NEW y \in S, number[x] = number[y], class[x] = class[y]
        PROVE  f[x] = f[y]
    <3>1. x \in Of[class[x]] /\ y \in Of[class[x]] /\ class[x] \in K
      BY <2>2, <2>4
    <3>2. of[class[x]][x] = of[class[x]][y]
      BY <2>4
    <3> QED
      BY <2>1, <3>1, <3>2
  <2> HIDE DEF number, n
  <2> QED
    BY <2>3, <2>4
<1>2. ASSUME NEW j \in 0..n - 1, NEW number \in [S -> 1..j],
             \A x, y \in S : number[x] = number[y] => (class[x] = class[y] => f[x] = f[y])
      PROVE  FALSE
  <2> DEFINE part == [x \in Of[widest] |-> number[x]]
  <2>1. Of[widest] \subseteq S /\ \A x \in Of[widest] : class[x] = widest
    OBVIOUS
  <2>2. part \in [Of[widest] -> 1..j]
    BY <1>2, <2>1
  <2>3. \A x, y \in Of[widest] : part[x] = part[y] => f[x] = f[y]
    BY <1>2, <2>1
  <2>4. ~ \E h \in [Of[widest] -> 1..j] : \A x, y \in Of[widest] : h[x] = h[y] => f[x] = f[y]
    BY <1>2 DEF Enough
  <2> HIDE DEF part
  <2> QED
    BY <2>2, <2>3, <2>4
<1> QED
  BY <1>1, <1>2 DEF EnoughByClass

-----------------------------------------------------------------------------
(* The statistics of an access                                             *)

\* The statistics are those before the access, as the analyzer has observed it.
Tallied ==
    /\ before.stats \in [Counters -> Nat]
    /\ stats = Observed(before.stats, access, addresses, exec)

\* The lanes of a warp are finitely many.
LEMMA LanesFinite ==
    ASSUME NEW lanes \in SUBSET Lanes
    PROVE  IsFiniteSet(lanes) /\ Cardinality(lanes) \in Nat
<1>1. 0 \in Int /\ WarpSize - 1 \in Int
  BY MemoryAssumption
<1>2. IsFiniteSet(Lanes)
  BY <1>1, FS_Interval DEF Lanes
<1> QED
  BY <1>2, FS_Subset, FS_CardinalityType

\* The segments that the analyzer counts are the fewest that serve the lanes.
LEMMA SegmentsFewest ==
    ASSUME NEW lanes \in SUBSET Lanes, NEW a \in [Lanes -> Words]
    PROVE  /\ DistinctSegments(a, lanes) \in Nat
           /\ \E number \in [lanes -> 1..DistinctSegments(a, lanes)] : \A l, m \in lanes :
                  number[l] = number[m] => a[l] \div SegmentBytes = a[m] \div SegmentBytes
           /\ \A j \in 0..DistinctSegments(a, lanes) - 1 :
                  ~ \E number \in [lanes -> 1..j] : \A l, m \in lanes :
                        number[l] = number[m] => a[l] \div SegmentBytes = a[m] \div SegmentBytes
<1> DEFINE f == [l \in lanes |-> a[l] \div SegmentBytes]
           T == {a[l] \div SegmentBytes : l \in lanes}
<1>1. IsFiniteSet(lanes)
  BY LanesFinite
<1>2. f \in Surjection(lanes, T)
  BY DEF Surjection
<1>3. \A l \in lanes : f[l] = a[l] \div SegmentBytes
  OBVIOUS
<1>4. DistinctSegments(a, lanes) = Cardinality(T)
  BY DEF DistinctSegments
<1> HIDE DEF f, T
<1>5. /\ Cardinality(T) \in Nat
      /\ Enough(lanes, f, Cardinality(T))
      /\ \A j \in 0..Cardinality(T) - 1 : ~Enough(lanes, f, j)
  BY <1>1, <1>2, Numbering
<1>6. \E number \in [lanes -> 1..Cardinality(T)] : \A l, m \in lanes :
          number[l] = number[m] => a[l] \div SegmentBytes = a[m] \div SegmentBytes
  BY <1>3, <1>5 DEF Enough
<1>7. \A j \in 0..Cardinality(T) - 1 :
          ~ \E number \in [lanes -> 1..j] : \A l, m \in lanes :
                number[l] = number[m] => a[l] \div SegmentBytes = a[m] \div SegmentBytes
  BY <1>3, <1>5 DEF Enough
<1> QED
  BY <1>4, <1>5, <1>6, <1>7

\* The degree of conflict is the fewest passes in which a bank delivers one address.
LEMMA PassesFewest ==
    ASSUME NEW lanes \in SUBSET Lanes, NEW a \in [Lanes -> Words]
    PROVE  /\ BankConflictDegree(a, lanes) \in Nat
           /\ \E number \in [lanes -> 1..BankConflictDegree(a, lanes)] : \A l, m \in lanes :
                  number[l] = number[m] => (Bank(a[l]) = Bank(a[m]) => a[l] = a[m])
           /\ \A j \in 0..BankConflictDegree(a, lanes) - 1 :
                  ~ \E number \in [lanes -> 1..j] : \A l, m \in lanes :
                        number[l] = number[m] => (Bank(a[l]) = Bank(a[m]) => a[l] = a[m])
<1> DEFINE K == 0..BankCount - 1
           class == [l \in lanes |-> Bank(a[l])]
           Of == [k \in K |-> {l \in lanes : class[l] = k}]
           Delivered(k) == {a[l] : l \in Of[k]}
           size == [k \in K |-> Cardinality(Delivered(k))]
           n == BankConflictDegree(a, lanes)
<1>1. class \in [lanes -> K] /\ \A l \in lanes : class[l] = Bank(a[l])
  <2>1. ASSUME NEW l \in lanes PROVE Bank(a[l]) \in K
    <3>1. a[l] \in Nat /\ BankCount \in Nat \ {0}
      BY MemoryAssumption DEF Words
    <3>2. a[l] \div WordBytes \in Nat
      BY <3>1 DEF WordBytes
    <3> QED
      BY <3>1, <3>2 DEF Bank
  <2> QED
    BY <2>1
<1>2. n = Max({size[k] : k \in K})
  <2>1. ASSUME NEW k \in K
        PROVE  size[k] = Cardinality({a[l] : l \in {m \in lanes : Bank(a[m]) = k}})
    <3>1. Of[k] = {m \in lanes : Bank(a[m]) = k}
      OBVIOUS
    <3>2. Delivered(k) = {a[l] : l \in {m \in lanes : Bank(a[m]) = k}}
      BY <3>1
    <3> HIDE DEF Delivered
    <3> QED
      BY <3>2
  <2> HIDE DEF size
  <2>2. {size[k] : k \in K} =
            {Cardinality({a[l] : l \in {m \in lanes : Bank(a[m]) = b}}) : b \in 0..BankCount - 1}
    BY <2>1
  <2> QED
    BY <2>2 DEF BankConflictDegree
<1> HIDE DEF n, class
<1>3. ASSUME NEW k \in K
      PROVE  /\ size[k] \in Nat /\ size[k] <= Cardinality(lanes)
             /\ Enough(Of[k], a, size[k])
             /\ \A j \in 0..size[k] - 1 : ~Enough(Of[k], a, j)
  <2> DEFINE A == Of[k]
             T == Delivered(k)
             g == [l \in A |-> a[l]]
  <2>1. size[k] = Cardinality(T)
    OBVIOUS
  <2>2. A \subseteq lanes /\ \A l \in A : g[l] = a[l]
    OBVIOUS
  <2>3. g \in Surjection(A, T)
    BY DEF Surjection
  <2> HIDE DEF size, A, T, g
  <2>4. IsFiniteSet(A) /\ Cardinality(A) <= Cardinality(lanes)
        /\ Cardinality(A) \in Nat /\ Cardinality(lanes) \in Nat
    BY <2>2, LanesFinite, FS_Subset
  <2>5. Cardinality(T) <= Cardinality(A)
    BY <2>3, <2>4, FS_Surjection
  <2>6. /\ Cardinality(T) \in Nat
        /\ Enough(A, g, Cardinality(T))
        /\ \A j \in 0..Cardinality(T) - 1 : ~Enough(A, g, j)
    BY <2>3, <2>4, Numbering
  <2>7. size[k] \in Nat /\ size[k] <= Cardinality(lanes)
    BY <2>1, <2>4, <2>5, <2>6
  <2>8. \A j : Enough(A, g, j) <=> Enough(A, a, j)
    BY <2>2 DEF Enough
  <2> QED
    BY <2>1, <2>6, <2>7, <2>8 DEF A
<1>4. size \in [K -> Nat]
      /\ Of \in [K -> SUBSET lanes] /\ \A k \in K : \A l \in lanes : l \in Of[k] <=> class[l] = k
  BY <1>3
<1> HIDE DEF size, Of
<1>5. n \in {size[k] : k \in K} /\ \A k \in K : size[k] <= n
  <2> DEFINE Sizes == {size[k] : k \in K}
  <2>1. Sizes \in SUBSET Nat /\ Cardinality(lanes) \in Nat /\ \A s \in Sizes : s <= Cardinality(lanes)
    BY <1>3, LanesFinite
  <2>2. 0 \in K
    BY MemoryAssumption
  <2>3. Sizes # {}
    BY <2>2
  <2>4. n \in Sizes /\ \A s \in Sizes : s <= n
    <3> HIDE DEF Sizes
    <3>1. Max(Sizes) \in Sizes /\ \A s \in Sizes : s <= Max(Sizes)
      BY <2>1, <2>3, MaxOf
    <3> QED
      BY <1>2, <3>1 DEF Sizes
  <2> QED
    BY <2>4
<1>6. PICK widest \in K : n = size[widest]
  BY <1>5
<1> HIDE DEF K
<1>7. \A k \in K : size[k] <= size[widest]
  BY <1>5, <1>6
<1>8. /\ EnoughByClass(lanes, class, a, size[widest])
      /\ \A j \in 0..size[widest] - 1 : ~EnoughByClass(lanes, class, a, j)
  BY <1>1, <1>3, <1>4, <1>7, NumberingByClass
<1>9. \A j : EnoughByClass(lanes, class, a, j) <=>
          \E number \in [lanes -> 1..j] : \A l, m \in lanes :
              number[l] = number[m] => (Bank(a[l]) = Bank(a[m]) => a[l] = a[m])
  BY <1>1 DEF EnoughByClass
<1>10. n \in Nat
  BY <1>4, <1>6
<1> QED
  BY <1>6, <1>8, <1>9, <1>10 DEF n

\* Adding to a counter changes no other.
LEMMA Adding ==
    ASSUME NEW s \in [Counters -> Nat], NEW c \in Counters, NEW v \in Nat
    PROVE  /\ [s EXCEPT ![c] = s[c] + v] \in [Counters -> Nat]
           /\ \A d \in Counters :
                  [s EXCEPT ![c] = s[c] + v][d] = IF d = c THEN s[d] + v ELSE s[d]
<1>1. s[c] + v \in Nat
  OBVIOUS
<1> QED
  BY <1>1

\* What the analyzer adds for an access to global memory, and to shared memory.
LEMMA GlobalAdds ==
    ASSUME NEW s \in [Counters -> Nat], NEW i \in Accesses, NEW a \in [Lanes -> Words],
           NEW lanes \in SUBSET Lanes
    PROVE  LET t == OnGlobal(s, i, a, lanes) IN
           /\ t \in [Counters -> Nat]
           /\ t.global_loads = s.global_loads + (IF i.store THEN 0 ELSE 1)
           /\ t.global_stores = s.global_stores + (IF i.store THEN 1 ELSE 0)
           /\ t.global_segments = s.global_segments + DistinctSegments(a, lanes)
           /\ t.shared_wavefronts = s.shared_wavefronts
           /\ t.shared_conflicted_accesses = s.shared_conflicted_accesses
<1> DEFINE load == IF i.store THEN 0 ELSE 1
           store == IF i.store THEN 1 ELSE 0
           n == Cardinality(lanes)
           k == DistinctSegments(a, lanes)
           s1 == [s EXCEPT !["global_loads"] = s["global_loads"] + load]
           s2 == [s1 EXCEPT !["global_stores"] = s1["global_stores"] + store]
           s3 == [s2 EXCEPT !["global_lane_accesses"] = s2["global_lane_accesses"] + n]
           s4 == [s3 EXCEPT !["global_segments"] = s3["global_segments"] + k]
<1>1. /\ load \in Nat /\ store \in Nat /\ n \in Nat /\ k \in Nat
      /\ "global_loads" \in Counters /\ "global_stores" \in Counters
      /\ "global_lane_accesses" \in Counters /\ "global_segments" \in Counters
      /\ "shared_wavefronts" \in Counters /\ "shared_conflicted_accesses" \in Counters
  BY LanesFinite, SegmentsFewest DEF Counters
<1>2. OnGlobal(s, i, a, lanes) =
          [s EXCEPT !.global_loads = @ + load, !.global_stores = @ + store,
                    !.global_lane_accesses = @ + n, !.global_segments = @ + k]
  BY DEF OnGlobal
<1> HIDE DEF load, store, n, k
<1>3. OnGlobal(s, i, a, lanes) = s4
  BY <1>2
<1>4. s1 \in [Counters -> Nat]
      /\ \A d \in Counters : s1[d] = IF d = "global_loads" THEN s[d] + load ELSE s[d]
  BY <1>1, Adding
<1> HIDE DEF s1
<1>5. s2 \in [Counters -> Nat]
      /\ \A d \in Counters : s2[d] = IF d = "global_stores" THEN s1[d] + store ELSE s1[d]
  BY <1>1, <1>4, Adding
<1> HIDE DEF s2
<1>6. s3 \in [Counters -> Nat]
      /\ \A d \in Counters : s3[d] = IF d = "global_lane_accesses" THEN s2[d] + n ELSE s2[d]
  BY <1>1, <1>5, Adding
<1> HIDE DEF s3
<1>7. s4 \in [Counters -> Nat]
      /\ \A d \in Counters : s4[d] = IF d = "global_segments" THEN s3[d] + k ELSE s3[d]
  BY <1>1, <1>6, Adding
<1> HIDE DEF s4
<1> QED
  BY <1>1, <1>3, <1>4, <1>5, <1>6, <1>7 DEF load, store, k

LEMMA SharedAdds ==
    ASSUME NEW s \in [Counters -> Nat], NEW i \in Accesses, NEW a \in [Lanes -> Words],
           NEW lanes \in SUBSET Lanes
    PROVE  LET t == OnShared(s, i, a, lanes)
               degree == BankConflictDegree(a, lanes) IN
           /\ t \in [Counters -> Nat]
           /\ t.global_loads = s.global_loads /\ t.global_stores = s.global_stores
           /\ t.global_segments = s.global_segments
           /\ t.shared_wavefronts = s.shared_wavefronts + degree
           /\ t.shared_conflicted_accesses =
                  s.shared_conflicted_accesses + (IF degree > 1 THEN 1 ELSE 0)
<1> DEFINE degree == BankConflictDegree(a, lanes)
           conflict == IF degree > 1 THEN 1 ELSE 0
           n == Cardinality(lanes)
           s1 == [s EXCEPT !["shared_accesses"] = s["shared_accesses"] + 1]
           s2 == [s1 EXCEPT !["shared_lane_accesses"] = s1["shared_lane_accesses"] + n]
           s3 == [s2 EXCEPT !["shared_wavefronts"] = s2["shared_wavefronts"] + degree]
           s4 == [s3 EXCEPT !["shared_conflicted_accesses"] =
                                s3["shared_conflicted_accesses"] + conflict]
<1>1. /\ degree \in Nat /\ conflict \in Nat /\ n \in Nat
      /\ "global_loads" \in Counters /\ "global_stores" \in Counters
      /\ "global_segments" \in Counters
      /\ "shared_accesses" \in Counters /\ "shared_lane_accesses" \in Counters
      /\ "shared_wavefronts" \in Counters /\ "shared_conflicted_accesses" \in Counters
  BY LanesFinite, PassesFewest DEF Counters
<1>2. OnShared(s, i, a, lanes) =
          [s EXCEPT !.shared_accesses = @ + 1, !.shared_lane_accesses = @ + n,
                    !.shared_wavefronts = @ + degree,
                    !.shared_conflicted_accesses = @ + conflict]
  BY DEF OnShared
<1> HIDE DEF degree, conflict, n
<1>3. OnShared(s, i, a, lanes) = s4
  BY <1>2
<1>4. s1 \in [Counters -> Nat]
      /\ \A d \in Counters : s1[d] = IF d = "shared_accesses" THEN s[d] + 1 ELSE s[d]
  BY <1>1, Adding
<1> HIDE DEF s1
<1>5. s2 \in [Counters -> Nat]
      /\ \A d \in Counters : s2[d] = IF d = "shared_lane_accesses" THEN s1[d] + n ELSE s1[d]
  BY <1>1, <1>4, Adding
<1> HIDE DEF s2
<1>6. s3 \in [Counters -> Nat]
      /\ \A d \in Counters : s3[d] = IF d = "shared_wavefronts" THEN s2[d] + degree ELSE s2[d]
  BY <1>1, <1>5, Adding
<1> HIDE DEF s3
<1>7. s4 \in [Counters -> Nat]
      /\ \A d \in Counters :
             s4[d] = IF d = "shared_conflicted_accesses" THEN s3[d] + conflict ELSE s3[d]
  BY <1>1, <1>6, Adding
<1> HIDE DEF s4
<1> QED
  BY <1>1, <1>3, <1>4, <1>5, <1>6, <1>7 DEF degree, conflict

\* What the analyzer makes of statistics is statistics.
LEMMA ObservedTyped ==
    ASSUME NEW s \in [Counters -> Nat], NEW i \in Accesses, NEW a \in [Lanes -> Words],
           NEW lanes \in SUBSET Lanes
    PROVE  Observed(s, i, a, lanes) \in [Counters -> Nat]
BY GlobalAdds, SharedAdds DEF Observed

\* Every step keeps the tally.
LEMMA TalliedHolds == IInv /\ Tallied /\ [Next]_vars => Tallied'
<1> SUFFICES ASSUME IInv, Tallied, [Next]_vars PROVE Tallied'
  OBVIOUS
<1>1. ASSUME NEW i \in Accesses, NEW lanes \in SUBSET Lanes, Issue(i, lanes) PROVE Tallied'
  <2>1. stats \in [Counters -> Nat]
    BY ObservedTyped DEF Tallied, IInv, Typed
  <2>2. /\ before'.stats = stats /\ access' = i /\ addresses' = AddressesOf(i, lanes)
        /\ exec' = lanes /\ stats' = Observed(stats, i, AddressesOf(i, lanes), lanes)
    BY <1>1 DEF Issue
  <2> QED
    BY <2>1, <2>2 DEF Tallied
<1>2. ASSUME UNCHANGED <<stats, before, access, addresses, exec>> PROVE Tallied'
  BY <1>2 DEF Tallied
<1>3. ASSUME NEW l \in Lanes, Load(l) \/ Store(l) \/ Refuse(l) PROVE Tallied'
  BY <1>2, <1>3 DEF Load, Store, Refuse
<1>4. CASE UNCHANGED vars
  BY <1>2, <1>4 DEF vars
<1> QED
  BY <1>1, <1>3, <1>4 DEF Next, Ended

\* memory_stats.hpp:19-29: what an access adds to global_segments and shared_wavefronts
\* is the least number of segments, or of passes of the banks, that can serve its lanes,
\* for any sizes of them and any addresses, and the counters of the other space stay.
THEOREM TransactionsAreFewest == Spec => []FewestTransactions
<1>1. Init => Tallied
  <2> SUFFICES ASSUME Init PROVE Tallied
    OBVIOUS
  <2>1. before.stats = [c \in Counters |-> 0] /\ stats = before.stats /\ exec = {}
    BY DEF Init
  <2> QED
    BY <2>1 DEF Tallied, Observed
<1>2. IInv /\ Tallied => FewestTransactions
  <2> SUFFICES ASSUME IInv, Tallied PROVE FewestTransactions
    OBVIOUS
  <2> DEFINE s == before.stats
             segments == DistinctSegments(addresses, exec)
             degree == BankConflictDegree(addresses, exec)
             FewestSegments(k) ==
                 /\ \E number \in [exec -> 1..k] : \A l, m \in exec : number[l] = number[m] =>
                        addresses[l] \div SegmentBytes = addresses[m] \div SegmentBytes
                 /\ \A j \in 0..k - 1 : ~ \E number \in [exec -> 1..j] :
                        \A l, m \in exec : number[l] = number[m] =>
                            addresses[l] \div SegmentBytes = addresses[m] \div SegmentBytes
             FewestPasses(k) ==
                 /\ \E number \in [exec -> 1..k] : \A l, m \in exec : number[l] = number[m] =>
                        (Bank(addresses[l]) = Bank(addresses[m]) => addresses[l] = addresses[m])
                 /\ \A j \in 0..k - 1 : ~ \E number \in [exec -> 1..j] :
                        \A l, m \in exec : number[l] = number[m] =>
                            (Bank(addresses[l]) = Bank(addresses[m])
                                 => addresses[l] = addresses[m])
             Added(c) == stats[c] - s[c]
             global == access.space = "global" /\ exec # {}
  <2>1. /\ s \in [Counters -> Nat] /\ stats = Observed(s, access, addresses, exec)
        /\ access \in Accesses /\ access.space \in Spaces
        /\ exec \in SUBSET Lanes /\ addresses \in [Lanes -> Words]
    BY AccessTyped DEF Tallied, IInv, Typed, AccessType
  <2>2. segments \in Nat /\ FewestSegments(segments)
    BY <2>1, SegmentsFewest
  <2>3. degree \in Nat /\ FewestPasses(degree)
    BY <2>1, PassesFewest
  <2>4. exec = {} => FewestPasses(0)
    <3> SUFFICES ASSUME exec = {} PROVE FewestPasses(0)
      OBVIOUS
    <3>1. [l \in exec |-> 0] \in [exec -> 1..0]
      OBVIOUS
    <3>2. 0..0 - 1 = {}
      OBVIOUS
    <3> QED
      BY <3>1, <3>2
  <2>5. FewestTransactions =
            /\ Added("global_loads") + Added("global_stores") = (IF global THEN 1 ELSE 0)
            /\ IF global THEN FewestSegments(Added("global_segments"))
               ELSE Added("global_segments") = 0
            /\ IF access.space = "shared" THEN FewestPasses(Added("shared_wavefronts"))
               ELSE Added("shared_wavefronts") = 0
            /\ Added("shared_conflicted_accesses") =
                   (IF Added("shared_wavefronts") > 1 THEN 1 ELSE 0)
    BY DEF FewestTransactions, Fewest, ServedIn
  <2>6. /\ s["global_loads"] \in Nat /\ s["global_stores"] \in Nat
        /\ s["global_segments"] \in Nat /\ s["shared_wavefronts"] \in Nat
        /\ s["shared_conflicted_accesses"] \in Nat
    BY <2>1 DEF Counters
  <2> HIDE DEF s, segments, degree, FewestSegments, FewestPasses
  <2>7. CASE exec = {} \/ access.space = "param"
    <3>1. stats = s
      BY <2>1, <2>7 DEF Observed
    <3>2. /\ Added("global_loads") = 0 /\ Added("global_stores") = 0
          /\ Added("global_segments") = 0 /\ Added("shared_wavefronts") = 0
          /\ Added("shared_conflicted_accesses") = 0
      BY <2>6, <3>1
    <3> HIDE DEF Added
    <3> QED
      BY <2>4, <2>5, <2>7, <3>2
  <2>8. CASE exec # {} /\ access.space = "global"
    <3>1. stats = OnGlobal(s, access, addresses, exec)
      BY <2>1, <2>8 DEF Observed
    <3>2. /\ stats.global_loads = s.global_loads + (IF access.store THEN 0 ELSE 1)
          /\ stats.global_stores = s.global_stores + (IF access.store THEN 1 ELSE 0)
          /\ stats.global_segments = s.global_segments + segments
          /\ stats.shared_wavefronts = s.shared_wavefronts
          /\ stats.shared_conflicted_accesses = s.shared_conflicted_accesses
      BY <2>1, <3>1, GlobalAdds DEF segments
    <3>3. /\ Added("global_loads") + Added("global_stores") = 1
          /\ Added("global_segments") = segments /\ Added("shared_wavefronts") = 0
          /\ Added("shared_conflicted_accesses") = 0
      BY <2>2, <2>6, <3>2
    <3> HIDE DEF Added
    <3> QED
      BY <2>2, <2>5, <2>8, <3>3
  <2>9. CASE exec # {} /\ access.space = "shared"
    <3>1. stats = OnShared(s, access, addresses, exec)
      BY <2>1, <2>9 DEF Observed
    <3>2. /\ stats.global_loads = s.global_loads /\ stats.global_stores = s.global_stores
          /\ stats.global_segments = s.global_segments
          /\ stats.shared_wavefronts = s.shared_wavefronts + degree
          /\ stats.shared_conflicted_accesses =
                 s.shared_conflicted_accesses + (IF degree > 1 THEN 1 ELSE 0)
      BY <2>1, <3>1, SharedAdds DEF degree
    <3>3. /\ Added("global_loads") = 0 /\ Added("global_stores") = 0
          /\ Added("global_segments") = 0 /\ Added("shared_wavefronts") = degree
          /\ Added("shared_conflicted_accesses") = IF degree > 1 THEN 1 ELSE 0
      BY <2>3, <2>6, <3>2
    <3> HIDE DEF Added
    <3> QED
      BY <2>3, <2>5, <2>9, <3>3
  <2> QED
    BY <2>1, <2>7, <2>8, <2>9 DEF Spaces
<1> QED
  BY <1>1, <1>2, TalliedHolds, AlwaysIInv, PTL DEF Spec
=============================================================================
