------------------------------- MODULE Device -------------------------------
(***************************************************************************)
(* A device and its host: launches (Device::launch of src/core/device.cpp) *)
(* between reads and writes of global memory (python/bindings/module.cpp). *)
(* The blocks of a launch run one after the other as in module Block, and  *)
(* their memory instructions now access the memories (BlockMemory of       *)
(* src/core/memory.cpp), lane by lane as in module Memory.                 *)
(*                                                                         *)
(* A word of memory is known by the event that has stored it.  An epoch is *)
(* a block or an access of the host.                                       *)
(***************************************************************************)
EXTENDS Block, FiniteSetsExt

CONSTANTS
    Accesses,          \* what memory instructions do, selected by their target field
    GlobalCells, SharedCells, \* words of the two memories
    GridSizes,         \* the numbers of blocks considered
    MaxEpochs          \* model bound: epochs of the device

\* An access is to the word that cell gives for a block and a thread of it.
Threads == UNION {0..n - 1 : n \in BlockSizes}
BlockIndices == UNION {0..g - 1 : g \in GridSizes}
AccessType ==
    [space : {"global", "shared"}, store : BOOLEAN, cell : [BlockIndices \X Threads -> Nat]]

ASSUME DeviceAssumption ==
    /\ \A n \in DOMAIN Accesses : Accesses[n] \in AccessType
    /\ \A p \in Programs : \A k \in DOMAIN p :
           p[k].op = "memory" => p[k].target \in DOMAIN Accesses
    /\ GlobalCells \in Nat \ {0} /\ SharedCells \in Nat
    /\ GridSizes \subseteq Nat \ {0} /\ MaxEpochs \in Nat

VARIABLES
    running,           \* a launch is in progress
    blocks, size,      \* its grid and the lanes of its blocks
    block,             \* the number of the block that runs
    epoch,             \* how many epochs have begun
    memory,            \* of each memory, the events that stored its words
    stored,            \* the stores so far, [place, event] (history)
    loaded             \* the loads so far, [place, event, from] (history)

blockVars == <<program, warps, turn, anyRunnable, issued, arrivals, completed, fault>>
geometry == <<blocks, size, block>>
data == <<memory, stored, loaded>>
deviceVars == <<blockVars, running, geometry, epoch, data>>

-----------------------------------------------------------------------------
(* Events                                                                  *)

\* A lane's part of the n-th instruction of its warp since a barrier, the phase being
\* the barriers it has arrived at; or all of an access of the host.
Event(e, phase, warp, n, lane) ==
    [epoch |-> e, phase |-> phase, warp |-> warp, number |-> n, lane |-> lane]
Zeroed == Event(0, 0, 0, 0, 0)
HostEvent(e) == Event(e, 0, 0, 0, 0)
LaneEvent(l) == Event(epoch, arrivals[turn], turn, issued[turn], l)

\* A word of global memory, or of the shared memory of one block.
GlobalPlace(c) == [space |-> "global", epoch |-> 0, cell |-> c]
Place(space, c) ==
    IF space = "global" THEN GlobalPlace(c) ELSE [space |-> space, epoch |-> epoch, cell |-> c]

-----------------------------------------------------------------------------
(* The host                                                                *)

DeviceInit ==
    /\ program = <<>> /\ warps = <<>> /\ turn = 1 /\ anyRunnable = FALSE
    /\ issued = <<>> /\ arrivals = <<>> /\ completed = 0 /\ fault = "none"
    /\ running = FALSE /\ blocks = 0 /\ size = 0 /\ block = 0 /\ epoch = 0
    /\ memory = [global |-> [c \in 0..GlobalCells - 1 |-> Zeroed],
                 shared |-> [c \in 0..SharedCells - 1 |-> Zeroed]]
    /\ stored = {} /\ loaded = {}

NewEpoch == epoch' = epoch + 1

\* Device.write of whole words, the unit in which kernels access memory; cells past the end
\* of the memory are refused before any is written.
HostWrite(first, count) ==
    LET cells == first..first + count - 1 IN
    /\ ~running /\ epoch < MaxEpochs /\ first + count <= GlobalCells
    /\ NewEpoch
    /\ memory' = [memory EXCEPT !.global =
                      [c \in DOMAIN @ |-> IF c \in cells THEN HostEvent(epoch') ELSE @[c]]]
    /\ stored' = stored \cup {[place |-> GlobalPlace(c), event |-> HostEvent(epoch')] : c \in cells}
    /\ UNCHANGED <<blockVars, running, geometry, loaded>>

\* Device.read of the whole memory.
HostRead ==
    /\ ~running /\ epoch < MaxEpochs
    /\ NewEpoch
    /\ loaded' = loaded \cup
           {[place |-> GlobalPlace(c), event |-> HostEvent(epoch'), from |-> memory.global[c]] :
               c \in 0..GlobalCells - 1}
    /\ UNCHANGED <<blockVars, running, geometry, memory, stored>>

-----------------------------------------------------------------------------
(* Device::launch                                                          *)

\* Mutant: the blocks of a launch share one BlockMemory.
SharedOfLaunch(b) ==
    IF b = 0 THEN [c \in 0..SharedCells - 1 |-> Zeroed] ELSE memory.shared
\* BlockMemory constructs its shared memory, zeroed, for every block.
SharedOfBlock(b) == [c \in 0..SharedCells - 1 |-> Zeroed]

\* Block b of n lanes begins; run_block as in Block!Init.
BeginBlock(p, b, n) ==
    /\ NewEpoch
    /\ program' = p /\ block' = b
    /\ warps' = [w \in 1..WarpCount(n) |-> NewWarp(LiveMask(n, w))]
    /\ issued' = [w \in 1..WarpCount(n) |-> 0]
    /\ arrivals' = [w \in 1..WarpCount(n) |-> 0]
    /\ turn' = 1 /\ anyRunnable' = FALSE /\ completed' = 0 /\ fault' = "none"
    /\ memory' = [memory EXCEPT !.shared = SharedOfBlock(b)]
    /\ UNCHANGED <<stored, loaded>>

Launch(p, g, n) ==
    /\ ~running /\ epoch + g <= MaxEpochs
    /\ running' = TRUE /\ blocks' = g /\ size' = n
    /\ BeginBlock(p, 0, n)

BlockDone == PassEnds /\ Unfinished = {}

NextBlock ==
    /\ running /\ BlockDone /\ block + 1 < blocks
    /\ BeginBlock(program, block + 1, size)
    /\ UNCHANGED <<running, blocks, size>>

\* With the statistics of the launch, or with the first fault.
Return ==
    /\ running /\ (fault # "none" \/ (BlockDone /\ block + 1 = blocks))
    /\ running' = FALSE
    /\ UNCHANGED <<blockVars, geometry, epoch, data>>

-----------------------------------------------------------------------------
(* A step of run_block                                                     *)

\* The word that a lane of the current warp accesses.  A cell that the memory has not stands
\* for every address that is refused, a misaligned one included (module Memory has the
\* addresses).
Cell(i, l) == Accesses[i.target].cell[<<block, (turn - 1) * WarpSize + l>>]
RefusedLanes(i) ==
    LET cells == IF Accesses[i.target].space = "global" THEN GlobalCells ELSE SharedCells
    IN  {l \in Exec(i, Current) : Cell(i, l) >= cells}

\* Mutant: the lowest lane prevails.
PrevailingLowest(lanes) == Min(lanes)
\* Of lanes that store to the same word, the one whose value remains.
Prevailing(lanes) == Max(lanes)

\* The accesses of some lanes, in their order.
Perform(i, lanes) ==
    LET at(c) == {l \in lanes : Cell(i, l) = c}
        space == Accesses[i.target].space
    IN  IF Accesses[i.target].store
        THEN /\ memory' = [memory EXCEPT ![space] =
                    [c \in DOMAIN @ |-> IF at(c) = {} THEN @[c] ELSE LaneEvent(Prevailing(at(c)))]]
             /\ stored' = stored \cup
                    {[place |-> Place(space, Cell(i, l)), event |-> LaneEvent(l)] : l \in lanes}
             /\ UNCHANGED loaded
        ELSE /\ loaded' = loaded \cup
                    {[place |-> Place(space, Cell(i, l)), event |-> LaneEvent(l),
                      from |-> memory[space][Cell(i, l)]] : l \in lanes}
             /\ UNCHANGED <<memory, stored>>

Performs(i) ==
    /\ running /\ Other(i) /\ i.op = "memory" /\ RefusedLanes(i) = {}
    /\ Perform(i, Exec(i, Current))
    /\ UNCHANGED <<running, geometry, epoch>>

\* The lanes below the first that is refused have performed their access.
Refuses(i) ==
    /\ running /\ Fault(i) /\ i.op = "memory" /\ RefusedLanes(i) # {}
    /\ Perform(i, {l \in Exec(i, Current) : l < Min(RefusedLanes(i))})
    /\ UNCHANGED <<running, geometry, epoch>>

\* Any other step leaves the memories alone.
Control ==
    /\ running
    /\ \/ Skip \/ Resolve \/ CompleteBarrier \/ NextPass
       \/ \E k \in DOMAIN program : LET i == program[k] IN
              \/ Bra(i) \/ Exit(i) \/ BarSync(i) \/ Setp(i)
              \/ i.op # "memory" /\ (Other(i) \/ Fault(i))
    /\ UNCHANGED <<running, geometry, epoch, data>>

Run ==
    \/ Control \/ NextBlock \/ Return
    \/ \E k \in DOMAIN program : Performs(program[k]) \/ Refuses(program[k])

DeviceNext ==
    \/ Run \/ HostRead
    \/ \E first \in 0..GlobalCells - 1, count \in 1..GlobalCells : HostWrite(first, count)
    \/ \E p \in Programs, g \in GridSizes, n \in BlockSizes : Launch(p, g, n)

DeviceSpec == DeviceInit /\ [][DeviceNext]_deviceVars

-----------------------------------------------------------------------------
(* Properties                                                              *)

\* e comes before f (wisa-spec.md:122-123): in an earlier epoch, or in the same block
\* before a barrier that f comes after, or earlier in the same warp.
Before(e, f) ==
    \/ e.epoch < f.epoch
    \/ /\ e.epoch = f.epoch
       /\ \/ e.phase < f.phase
          \/ /\ e.phase = f.phase /\ e.warp = f.warp
             /\ e.number < f.number \/ (e.number = f.number /\ e.lane < f.lane)

\* A load delivers what was last stored at its place, or what an unordered store of
\* another warp has put there: nothing that is stored after the load, nothing that was
\* overwritten before it, nothing of another block's shared memory; and the host
\* reads what the launches have left, also those that faulted.
LoadsInOrder ==
    \A load \in loaded :
        LET stores == {s.event : s \in {t \in stored : t.place = load.place}} IN
        /\ load.from \in stores \cup {Zeroed}
        /\ ~Before(load.event, load.from)
        /\ \A s \in stores : Before(s, load.event) => ~Before(load.from, s)
=============================================================================
