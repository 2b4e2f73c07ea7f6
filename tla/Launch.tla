------------------------------- MODULE Launch -------------------------------
(***************************************************************************)
(* Device::launch of src/core/device.cpp with the geometry of              *)
(* include/warpsim/core/lane_context.hpp and types.hpp: a host launches    *)
(* programs over grids of blocks, one launch after the other.  run_block,  *)
(* the subject of module Block, appears by its outcome: each live lane of  *)
(* the block runs to its end, or one of them faults.  A thread is a lane   *)
(* as its kernel sees it, by the special registers it reads.               *)
(***************************************************************************)
EXTENDS Integers, FiniteSets

CONSTANTS
    WarpSize,          \* lanes of a warp: 32 in the code
    WordRange,         \* 2^32 in the code: sizes, indices and counters are uint32_t
    PCRange,           \* 2^16 in the code: the PC of a fault is uint16_t
    Programs,          \* the programs: the indices of their words that do not decode
    Grids, BlockSizes, \* the Dim2 that the host launches over
    MaxLaunches        \* model bound: launches of one device

Words == 0..WordRange - 1
Dim2 == [x : Words, y : Words]

ASSUME LaunchAssumption ==
    /\ WarpSize \in Nat \ {0} /\ WordRange \in Nat \ {0, 1} /\ PCRange \in 1..WordRange
    /\ \A p \in Programs : p \subseteq Nat
    /\ Grids \subseteq Dim2 /\ BlockSizes \subseteq Dim2
    /\ MaxLaunches \in Nat

VARIABLES
    phase,             \* where the launch is: "host" if there is none
    invalid, grid, block, \* its arguments
    ctaid,             \* the block that runs: by and bx
    waiting,           \* the lanes of that block, <<warp, lane>>, that have not ended
    ran,               \* the threads that have ended in this launch (history)
    stats,             \* of LaunchStats, the three that count what was launched
    result,            \* what the last launch returned
    launches           \* how many there were

vars == <<phase, invalid, grid, block, ctaid, waiting, ran, stats, result, launches>>

NoStats == [blocks_executed |-> 0, warps_launched |-> 0, lanes_launched |-> 0]
NoResult == [kind |-> "none"]
Faulted(b, w, l, pc) == [kind |-> "fault", block |-> b, warp |-> w, lane |-> l, pc |-> pc]
Succeeded(s) == [kind |-> "stats", stats |-> s]

-----------------------------------------------------------------------------
(* Geometry                                                                *)

\* Dim2::count, in 32 bits.
Count(d) == (d.x * d.y) % WordRange

\* Mutant: no warp for the lanes left over.
WarpCountFloor == Count(block) \div WarpSize
WarpCount == ((Count(block) + WarpSize - 1) % WordRange) \div WarpSize

\* Mutant: the index within the warp is forgotten.
LinearIndexOfWarp(w, l) == w * WarpSize
LinearIndex(w, l) == w * WarpSize + l

\* Mutant: the last warp is full.
LiveLanesFull == (0..WarpCount - 1) \X (0..WarpSize - 1)
\* The lanes that the live masks of run_block's warps hold.
LiveLanes ==
    {e \in (0..WarpCount - 1) \X (0..WarpSize - 1) : LinearIndex(e[1], e[2]) < Count(block)}

\* What a lane reads from %ctaid and %tid.
Thread(e) ==
    [ctaid |-> ctaid,
     tid   |-> [x |-> LinearIndex(e[1], e[2]) % block.x,
                y |-> LinearIndex(e[1], e[2]) \div block.x]]

\* Mutant: the number is not reduced to 32 bits.
BlockNumberWide(c) == c.y * grid.x + c.x
\* Mutant: the number of a block by columns.
BlockNumberByColumn(c) == (c.x * grid.y + c.y) % WordRange
\* Warp::make_fault, the block it names.
BlockNumber(c) == (c.y * grid.x + c.x) % WordRange

-----------------------------------------------------------------------------
(* Device::launch                                                          *)

Init ==
    /\ phase = "host"
    /\ invalid = {} /\ grid = [x |-> 1, y |-> 1] /\ block = [x |-> 1, y |-> 1]
    /\ ctaid = [x |-> 0, y |-> 0] /\ waiting = {} /\ ran = {}
    /\ stats = NoStats
    /\ result = NoResult
    /\ launches = 0

Call(p, g, b) ==
    /\ phase = "host" /\ launches < MaxLaunches
    /\ phase' = "called" /\ launches' = launches + 1
    /\ invalid' = p /\ grid' = g /\ block' = b
    /\ ran' = {} /\ stats' = NoStats /\ result' = NoResult
    /\ ctaid' = [x |-> 0, y |-> 0] /\ waiting' = {}

Return(r) ==
    /\ phase' = "host" /\ result' = r
    /\ UNCHANGED <<invalid, grid, block, ran, launches>>

\* The first word that does not decode, its index cut to a PC.
Undecodable ==
    /\ phase = "called"
    /\ \E index \in invalid :
        /\ \A other \in invalid : index <= other
        /\ Return(Faulted(0, 0, 0, index % PCRange))
    /\ UNCHANGED <<ctaid, waiting, stats>>

Empty ==
    /\ phase = "called" /\ invalid = {}
    /\ Count(block) = 0 \/ Count(grid) = 0
    /\ Return(Faulted(0, 0, 0, 0))
    /\ UNCHANGED <<ctaid, waiting, stats>>

\* The lanes of a block at its beginning.
Enter ==
    /\ phase' = "block" /\ waiting' = LiveLanes
    /\ stats' = [stats EXCEPT !.warps_launched = (@ + WarpCount) % WordRange]

FirstBlock ==
    /\ phase = "called" /\ invalid = {} /\ Count(block) # 0 /\ Count(grid) # 0
    /\ Enter
    /\ UNCHANGED <<invalid, grid, block, ctaid, ran, result, launches>>

\* A lane of the block retires.
RunThread(e) ==
    /\ phase = "block" /\ e \in waiting
    /\ waiting' = waiting \ {e}
    /\ ran' = ran \cup {Thread(e)}
    /\ UNCHANGED <<phase, invalid, grid, block, ctaid, stats, result, launches>>

\* run_block returns a fault of lane e's warp, and the launch returns it.
\* (The PC of an instruction is no concern of this module.)
BlockFaults(e) ==
    /\ phase = "block" /\ e \in waiting
    /\ Return(Faulted(BlockNumber(ctaid), e[1], e[2], 0))
    /\ UNCHANGED <<ctaid, waiting, stats>>

BlockEnds ==
    /\ phase = "block" /\ waiting = {}
    /\ phase' = "next"
    /\ stats' = [stats EXCEPT !.blocks_executed = (@ + 1) % WordRange,
                              !.lanes_launched = (@ + Count(block)) % WordRange]
    /\ UNCHANGED <<invalid, grid, block, ctaid, waiting, ran, result, launches>>

\* Mutant: the inner loop does not start again.
FollowingDiagonal(c) ==
    IF c.x + 1 < grid.x THEN [c EXCEPT !.x = @ + 1] ELSE [c EXCEPT !.y = @ + 1]
\* The two loops: bx runs faster than by.
Following(c) ==
    IF c.x + 1 < grid.x THEN [c EXCEPT !.x = @ + 1] ELSE [x |-> 0, y |-> c.y + 1]

NextBlock ==
    /\ phase = "next" /\ Following(ctaid).y < grid.y
    /\ ctaid' = Following(ctaid)
    /\ Enter
    /\ UNCHANGED <<invalid, grid, block, ran, result, launches>>

Completes ==
    /\ phase = "next" /\ ~(Following(ctaid).y < grid.y)
    /\ Return(Succeeded(stats))
    /\ UNCHANGED <<ctaid, waiting, stats>>

\* The host launches nothing more.
Idle == phase = "host" /\ UNCHANGED vars

Next ==
    \/ \E p \in Programs, g \in Grids, b \in BlockSizes : Call(p, g, b)
    \/ Undecodable \/ Empty \/ FirstBlock
    \/ \E e \in waiting : RunThread(e) \/ BlockFaults(e)
    \/ BlockEnds \/ NextBlock \/ Completes
    \/ Idle

Spec == Init /\ [][Next]_vars

-----------------------------------------------------------------------------
(* Properties                                                              *)

\* The blocks of a grid and the threads of a launch, as docs/wisa-spec.md:12-13 define
\* them.
Coordinates(d) == [x : 0..d.x - 1, y : 0..d.y - 1]
Threads == [ctaid : Coordinates(grid), tid : Coordinates(block)]

\* Row by row, ctaid.x + ctaid.y * nctaid.x.
Before(c, d) == c.y < d.y \/ (c.y = d.y /\ c.x < d.x)

\* The block and its warps can be counted in 32 bits.
BlockFits == block.x * block.y + WarpSize - 1 < WordRange
GridFits == grid.x * grid.y < WordRange

Results ==
    {NoResult}
    \cup [kind : {"fault"}, block : Words, warp : Words, lane : Words, pc : Words]
    \cup [kind : {"stats"}, stats : [DOMAIN NoStats -> Words]]

\* Every variable keeps its type.
TypeOK ==
    /\ phase \in {"host", "called", "block", "next"}
    /\ invalid \in Programs \cup {{}} /\ grid \in Dim2 /\ block \in Dim2
    /\ ctaid \in Dim2
    /\ waiting \in SUBSET (Words \X (0..WarpSize - 1))
    /\ ran \in SUBSET [ctaid : Dim2, tid : Dim2]
    /\ stats \in [DOMAIN NoStats -> Words]
    /\ result \in Results
    /\ launches \in 0..MaxLaunches

\* Lanes read coordinates inside the grid and the block that were launched, also where
\* the last warp is partial and where 32 bits count too few lanes.
ThreadsInside == ran \subseteq Threads

\* No thread runs twice: a lane that has not ended is none of those that have, and no
\* two lanes of the block are the same thread (lane_context.hpp:19-31).
NoThreadTwice ==
    phase = "block" => \A e \in waiting :
        /\ Thread(e) \notin ran
        /\ \A f \in waiting : Thread(e) = Thread(f) => e = f

\* At every moment, and after a fault, the blocks before the one that runs have ended
\* completely and those after it have not begun (docs/wisa-spec.md:13).
BlocksInOrder ==
    BlockFits =>
        /\ phase \in {"block", "next"} =>
              \A t \in Threads : Before(t.ctaid, ctaid) => t \in ran
        /\ \A t \in ran : ~Before(ctaid, t.ctaid)

\* A launch that returns statistics has run every thread of every block.
EveryThreadRuns == result.kind = "stats" /\ BlockFits => ran = Threads

\* docs/counters.md:19-21 for sizes that 32 bits can count; the counters themselves wrap.
CountersMatch ==
    result.kind = "stats" /\ BlockFits =>
        LET blocks == grid.x * grid.y
            warps == {<<t.ctaid, (t.tid.y * block.x + t.tid.x) \div WarpSize>> : t \in ran}
        IN  /\ result.stats.blocks_executed = blocks % WordRange
            /\ result.stats.warps_launched = Cardinality(warps) % WordRange
            /\ result.stats.lanes_launched = Cardinality(ran) % WordRange

\* fault.hpp:8-10: the block that a fault names is the first that has not ended, for all
\* grids whose blocks can be numbered in 32 bits.
FaultNamesBlock ==
    result.kind = "fault" /\ BlockFits /\ GridFits /\ block.x * block.y # 0 =>
        \A c \in Coordinates(grid) :
            c.x + c.y * grid.x < result.block
                <=> \A t \in Threads : t.ctaid = c => t \in ran

\* docs/counters.md:21, lanes_launched: "Block size times blocks."
LanesAreSizeTimesBlocks ==
    result.kind = "stats" =>
        result.stats.lanes_launched = (block.x * block.y) * (grid.x * grid.y)
=============================================================================
