------------------------------- MODULE Memory -------------------------------
(***************************************************************************)
(* The memory instructions of a warp: Warp::memory_access of               *)
(* src/core/warp.cpp, the memories of src/core/memory.cpp and the analyzer *)
(* of src/core/memory_analysis.cpp.  An instruction computes the address   *)
(* of every executing lane, is counted, and then performs the lanes'       *)
(* accesses one by one in the order of the lanes; a transition is the      *)
(* first part of an instruction or one lane's access.                      *)
(***************************************************************************)
EXTENDS Integers, Sequences, FiniteSetsExt

CONSTANTS
    WarpSize,          \* lanes of a warp: 32 in the code
    WordRange,         \* 2^32 in the code: a register holds 0..WordRange - 1
    GlobalBytes,       \* the size of the device's global memory
    SharedBytes,       \* the size of the block's shared memory
    Params,            \* the parameter table of the launch
    SegmentBytes,      \* segment_bytes: 128
    BankCount,         \* bank_count: 32
    Accesses,          \* the memory instructions considered
    InitRegisters,     \* the register files considered
    MaxAccesses        \* model bound: memory instructions of the warp

Lanes == 0..WarpSize - 1
Words == 0..WordRange - 1
WordBytes == 4
Spaces == {"global", "shared", "param"}
Bytes == [global |-> GlobalBytes, shared |-> SharedBytes]
Registers == {"src0", "src1", "dst"}

\* Decoded, with the space and direction that memory_access takes from the opcode;
\* dst and src0 may be the same register.
AccessType ==
    [space : Spaces, store : BOOLEAN, src0 : Registers, src1 : Registers,
     dst : Registers, imm : Words]
RegisterFiles == [Lanes -> [Registers -> Words]]

ASSUME MemoryAssumption ==
    /\ WarpSize \in Nat \ {0} /\ WordRange \in Nat \ {0}
    /\ GlobalBytes \in Nat /\ SharedBytes \in Nat
    /\ Params \in Seq(Words)
    /\ SegmentBytes \in Nat \ {0} /\ BankCount \in Nat \ {0}
    /\ Accesses # {} /\ Accesses \subseteq {i \in AccessType : i.space = "param" => ~i.store}
    /\ InitRegisters \subseteq RegisterFiles
    /\ MaxAccesses \in Nat

VARIABLES
    regs,              \* the general registers of the warp
    cells,             \* of global and of shared memory, the words it holds
    access,            \* the instruction in progress, or the last one
    exec,              \* its execution mask
    addresses,         \* its lanes' addresses
    pending,           \* its lanes that have not performed their access
    before,            \* the memories and registers when it was issued (history)
    stats,             \* MemoryStats
    issued,            \* how many were issued
    fault              \* None, or the lane and the address of a refused access

vars == <<regs, cells, access, exec, addresses, pending, before, stats, issued, fault>>

None == [lane |-> -1, address |-> 0]

\* The words that lie wholly inside a memory, by number.
WordsOf(space) == 0..(Bytes[space] \div WordBytes) - 1
Memories == [global : [WordsOf("global") -> Words], shared : [WordsOf("shared") -> Words]]

Counters ==
    {"global_loads", "global_stores", "global_lane_accesses", "global_segments",
     "shared_accesses", "shared_lane_accesses", "shared_wavefronts",
     "shared_conflicted_accesses"}

-----------------------------------------------------------------------------
(* memory_analysis.cpp                                                     *)

DistinctSegments(a, lanes) == Cardinality({a[l] \div SegmentBytes : l \in lanes})

Bank(address) == (address \div WordBytes) % BankCount
\* Mutant: identical addresses do not broadcast.
BankConflictDegreePerLane(a, lanes) ==
    Max({Cardinality({l \in lanes : Bank(a[l]) = b}) : b \in 0..BankCount - 1})
BankConflictDegree(a, lanes) ==
    Max({Cardinality({a[l] : l \in {m \in lanes : Bank(a[m]) = b}}) :
            b \in 0..BankCount - 1})

OnGlobal(s, i, a, lanes) ==
    [s EXCEPT !.global_loads = @ + (IF i.store THEN 0 ELSE 1),
              !.global_stores = @ + (IF i.store THEN 1 ELSE 0),
              !.global_lane_accesses = @ + Cardinality(lanes),
              !.global_segments = @ + DistinctSegments(a, lanes)]

OnShared(s, i, a, lanes) ==
    LET degree == BankConflictDegree(a, lanes) IN
    [s EXCEPT !.shared_accesses = @ + 1,
              !.shared_lane_accesses = @ + Cardinality(lanes),
              !.shared_wavefronts = @ + degree,
              !.shared_conflicted_accesses = @ + (IF degree > 1 THEN 1 ELSE 0)]

\* on_warp_access, called only if some lane executes.
Observed(s, i, a, lanes) ==
    IF lanes = {} \/ i.space = "param" THEN s
    ELSE IF i.space = "global" THEN OnGlobal(s, i, a, lanes) ELSE OnShared(s, i, a, lanes)

-----------------------------------------------------------------------------
(* memory.cpp                                                              *)

\* Mutant: the alignment is not checked.
RefusedInBounds(space, address) ==
    IF space = "param" THEN address >= Len(Params) ELSE address + WordBytes > Bytes[space]
\* ByteMemory::check and the bound of the parameter table.
Refused(space, address) ==
    IF space = "param" THEN address >= Len(Params)
    ELSE address % WordBytes # 0 \/ address + WordBytes > Bytes[space]

\* Mutant: the ordinal of a parameter is taken for a byte offset.
LoadedByOffset(m, space, address) ==
    IF space = "param" THEN Params[address \div WordBytes + 1]
    ELSE m[space][address \div WordBytes]
Loaded(m, space, address) ==
    IF space = "param" THEN Params[address + 1] ELSE m[space][address \div WordBytes]

Stored(m, space, address, value) == [m EXCEPT ![space][address \div WordBytes] = value]

-----------------------------------------------------------------------------
(* Warp::memory_access                                                     *)

Init ==
    /\ regs \in InitRegisters
    /\ cells = [global |-> [c \in WordsOf("global") |-> 0],
                shared |-> [c \in WordsOf("shared") |-> 0]]
    /\ access = (CHOOSE i \in Accesses : TRUE) /\ exec = {} /\ addresses = [l \in Lanes |-> 0]
    /\ pending = {}
    /\ stats = [c \in Counters |-> 0]
    /\ before = [cells |-> cells, regs |-> regs, stats |-> stats]
    /\ issued = 0
    /\ fault = None

\* Mutant: the sum is not reduced to 32 bits.
AddressesOfWide(i, lanes) ==
    [l \in Lanes |-> IF l \notin lanes THEN 0
                     ELSE IF i.space = "param" THEN i.imm
                     ELSE regs[l][i.src0] + i.imm]
\* The sum of two registers of 32 bits; inactive lanes keep the array's zeros.
AddressesOf(i, lanes) ==
    [l \in Lanes |-> IF l \notin lanes THEN 0
                     ELSE IF i.space = "param" THEN i.imm
                     ELSE (regs[l][i.src0] + i.imm) % WordRange]

Issue(i, lanes) ==
    /\ fault = None /\ pending = {} /\ issued < MaxAccesses
    /\ access' = i /\ exec' = lanes /\ pending' = lanes
    /\ addresses' = AddressesOf(i, lanes)
    /\ stats' = Observed(stats, i, AddressesOf(i, lanes), lanes)
    /\ before' = [cells |-> cells, regs |-> regs, stats |-> stats]
    /\ issued' = issued + 1
    /\ UNCHANGED <<regs, cells, fault>>

\* Mutant: the lanes are taken from the mask's most significant bit.
TurnFromTop(l) == fault = None /\ l \in pending /\ \A m \in pending : m <= l
\* It is lane l's turn: lanes access in ascending order.
Turn(l) == fault = None /\ l \in pending /\ \A m \in pending : l <= m

Load(l) ==
    /\ Turn(l) /\ ~access.store /\ ~Refused(access.space, addresses[l])
    /\ regs' = [regs EXCEPT ![l][access.dst] =
                    Loaded(cells, access.space, addresses[l])]
    /\ pending' = pending \ {l}
    /\ UNCHANGED <<cells, access, exec, addresses, before, stats, issued, fault>>

Store(l) ==
    /\ Turn(l) /\ access.store /\ ~Refused(access.space, addresses[l])
    /\ cells' = Stored(cells, access.space, addresses[l], regs[l][access.src1])
    /\ pending' = pending \ {l}
    /\ UNCHANGED <<regs, access, exec, addresses, before, stats, issued, fault>>

\* Mutant: the fault names the first lane of the instruction.
RefuseNamesFirst(l) ==
    /\ Turn(l) /\ Refused(access.space, addresses[l])
    /\ fault' = [lane |-> CHOOSE k \in exec : \A m \in exec : k <= m, address |-> addresses[l]]
    /\ UNCHANGED <<regs, cells, access, exec, addresses, pending, before, stats, issued>>
\* The first refused access ends the launch; no later lane performs its own.
Refuse(l) ==
    /\ Turn(l) /\ Refused(access.space, addresses[l])
    /\ fault' = [lane |-> l, address |-> addresses[l]]
    /\ UNCHANGED <<regs, cells, access, exec, addresses, pending, before, stats, issued>>

\* The warp has faulted, or issues no more memory instructions.
Ended == (fault # None \/ pending = {}) /\ UNCHANGED vars

Next ==
    \/ \E i \in Accesses, lanes \in SUBSET Lanes : Issue(i, lanes)
    \/ \E l \in Lanes : Load(l) \/ Store(l) \/ Refuse(l)
    \/ Ended

Spec == Init /\ [][Next]_vars

-----------------------------------------------------------------------------
(* Properties                                                              *)

\* The lanes of the instruction that have performed their access.
Performed == exec \ pending

\* docs/wisa-spec.md:122, at every moment of an instruction and also after a fault: a
\* cell of memory holds what the highest lane that has stored there stored, and
\* what it held before if none has. (Loads change no memory.)
StoresInLaneOrder ==
    \A space \in {"global", "shared"} : \A c \in WordsOf(space) :
        LET writers == {l \in Performed : access.store /\ access.space = space
                                          /\ addresses[l] = WordBytes * c}
        IN  /\ writers = {} => cells[space][c] = before.cells[space][c]
            /\ \A l \in writers : (\A m \in writers : m <= l)
                   => cells[space][c] = before.regs[l][access.src1]

\* A register changes only by a load of its own lane, which delivers the parameter or
\* what the word at the address that src0 and the offset gave held when the instruction
\* was issued, although src0 may be the destination and lower lanes have loaded before.
LoadsDeliver ==
    \A l \in Lanes : \A r \in Registers :
        IF l \in Performed /\ ~access.store /\ r = access.dst
        THEN IF access.space = "param" THEN regs[l][r] = Params[access.imm + 1]
             ELSE \E c \in WordsOf(access.space) :
                 /\ WordBytes * c = (before.regs[l][access.src0] + access.imm) % WordRange
                 /\ regs[l][r] = before.cells[access.space][c]
        ELSE regs[l][r] = before.regs[l][r]

\* A launch that faults reports the lowest lane whose access is refused, with its
\* address in 32 bits (warp.cpp:231-238): the lanes below it have performed theirs,
\* itself and the lanes above it have not.
FaultIsFirst ==
    fault # None =>
        /\ fault.lane \in exec
        /\ fault.address = IF access.space = "param" THEN access.imm
                           ELSE (before.regs[fault.lane][access.src0] + access.imm) % WordRange
        /\ Performed = {l \in exec : l < fault.lane}
        /\ Refused(access.space, fault.address)

\* No access is performed that leaves its memory or straddles two words, whatever a
\* register and an offset add up to in 32 bits and whatever the size of the memory.
PerformedInside ==
    \A l \in Performed :
        IF access.space = "param" THEN addresses[l] \in 0..Len(Params) - 1
        ELSE \E c \in WordsOf(access.space) : addresses[l] = WordBytes * c

\* The executing lanes can be served k at a time: those with the same number Together.
ServedIn(k, Together(_, _)) ==
    \E number \in [exec -> 1..k] : \A l, m \in exec :
        number[l] = number[m] => Together(addresses[l], addresses[m])
Fewest(k, Together(_, _)) ==
    ServedIn(k, Together) /\ \A j \in 0..k - 1 : ~ServedIn(j, Together)

\* memory_stats.hpp:19-29, of an access, performed or refused: what it adds to
\* global_segments is the least number of aligned segments that serve its lanes, to
\* shared_wavefronts the least number of passes in which a bank delivers one address,
\* and it is conflicted if one pass does not do.
FewestTransactions ==
    LET Added(c) == stats[c] - before.stats[c]
        InSegment(a, b) == a \div SegmentBytes = b \div SegmentBytes
        InPass(a, b) == Bank(a) = Bank(b) => a = b
        global == access.space = "global" /\ exec # {}
    IN  /\ Added("global_loads") + Added("global_stores") = (IF global THEN 1 ELSE 0)
        /\ IF global THEN Fewest(Added("global_segments"), InSegment)
           ELSE Added("global_segments") = 0
        /\ IF access.space = "shared" THEN Fewest(Added("shared_wavefronts"), InPass)
           ELSE Added("shared_wavefronts") = 0
        /\ Added("shared_conflicted_accesses") =
               (IF Added("shared_wavefronts") > 1 THEN 1 ELSE 0)
=============================================================================
