----------------------------- MODULE PacketRing -----------------------------
(***************************************************************************)
(* class PacketsV3 and class Block of stenotype/packets.{h,cc}: the        *)
(* AF_PACKET ring that the kernel fills block by block and one thread      *)
(* reads in the same order.  A Block object owns its memory through the    *)
(* block's mutex in block_mus_; whoever ends up holding the Block (in      *)
(* stenotype, the PWrite of the block) gives it back with Done, in any     *)
(* order.  The content of a block is a capture number: 1 for the first     *)
(* block the kernel ever retired, 2 for the next, and so on.               *)
(***************************************************************************)
EXTENDS Integers, FiniteSets

CONSTANTS
    NumBlocks,    \* state_.num_blocks, the --blocks flag
    MaxCaptures   \* bound on the blocks the kernel retires

ASSUME NumBlocksAssumption == NumBlocks \in Nat \ {0}
ASSUME MaxCapturesAssumption == MaxCaptures \in Nat

Slots == 0 .. NumBlocks - 1
NoBlock == -1

VARIABLES
    ringOffset,  \* offset_
    pos,         \* the block pos_ holds, or NoBlock when pos_ is empty
    mu,          \* block_mus_: "free", or who holds the lock
    status,      \* block_status: whose block it is
    cap,         \* capture number of the content
    fill,        \* the block the kernel fills next
    captured,    \* number of blocks retired so far
    delivered,   \* capture number of the last block handed to the caller
    call         \* how far the thread is in NextBlock

ringKernelVars == <<status, cap, fill, captured>>
ringVars == <<ringOffset, pos, mu, ringKernelVars, delivered, call>>

(* The constructor's offset_, and two ways to get it wrong.                *)
FirstSlot == 0
PastLastSlot == NumBlocks
LastSlot == NumBlocks - 1

RingInit ==
    /\ ringOffset = LastSlot
    /\ pos = NoBlock
    /\ mu = [s \in Slots |-> "free"]
    /\ status = [s \in Slots |-> "kernel"]
    /\ cap = [s \in Slots |-> 0]
    /\ fill = 0
    /\ captured = 0
    /\ delivered = 0
    /\ call = "out"

(***************************************************************************)
(* The kernel: it retires a block to the user, full or after a timeout,    *)
(* and drops packets while the next block is not its own.                  *)
(***************************************************************************)
KernelFill ==
    /\ captured < MaxCaptures
    /\ status[fill] = "kernel"
    /\ captured' = captured + 1
    /\ cap' = [cap EXCEPT ![fill] = captured']
    /\ status' = [status EXCEPT ![fill] = "user"]
    /\ fill' = (fill + 1) % NumBlocks
    /\ UNCHANGED <<ringOffset, pos, mu, delivered, call>>

(***************************************************************************)
(* PacketsV3::NextBlock.  When pos_ is empty it moves on to the following  *)
(* block, whose mutex Block::ResetTo locks; then it polls if need be, and  *)
(* hands pos_ over to the caller if the block is ready by then.            *)
(***************************************************************************)
NextBlockEnter ==
    /\ call = "out"
    /\ IF pos = NoBlock
       THEN ringOffset' = (ringOffset + 1) % NumBlocks /\ call' = "lock"
       ELSE call' = "poll" /\ UNCHANGED ringOffset
    /\ UNCHANGED <<pos, mu, ringKernelVars, delivered>>

NoLock(s) == TRUE  \* mutant: ResetTo without mu_->lock()
Unlocked(s) == mu[s] = "free"

ResetTo ==
    /\ call = "lock"
    /\ Unlocked(ringOffset)
    /\ mu' = [mu EXCEPT ![ringOffset] = "pos"]
    /\ pos' = ringOffset
    /\ call' = "poll"
    /\ UNCHANGED <<ringOffset, ringKernelVars, delivered>>

PollReturned(s) == TRUE  \* mutant: no second look at the status
ReadyForUser(s) == status[s] = "user"

(* pos_.Swap(b): the caller now holds the lock.                            *)
NextBlockGet ==
    /\ call = "poll"
    /\ ReadyForUser(pos)
    /\ mu' = [mu EXCEPT ![pos] = "user"]
    /\ delivered' = cap[pos]
    /\ pos' = NoBlock
    /\ call' = "out"
    /\ UNCHANGED <<ringOffset, ringKernelVars>>

(* The poll timed out and the block is still the kernel's.                 *)
NextBlockEmpty ==
    /\ call = "poll"
    /\ status[pos] = "kernel"
    /\ call' = "out"
    /\ UNCHANGED <<ringOffset, pos, mu, ringKernelVars, delivered>>

(***************************************************************************)
(* Block::Done on a block of the caller: back to the kernel, then unlock.  *)
(* The thread that holds the block is the one that calls NextBlock, so it  *)
(* does so only outside of it.                                             *)
(***************************************************************************)
Done(s) ==
    /\ call = "out"
    /\ mu[s] = "user"
    /\ status' = [status EXCEPT ![s] = "kernel"]
    /\ mu' = [mu EXCEPT ![s] = "free"]
    /\ UNCHANGED <<ringOffset, pos, cap, fill, captured, delivered, call>>

(***************************************************************************)
(* ~PacketsV3: pos_.Done(), then every mutex is locked once.               *)
(***************************************************************************)
DestroyRing ==
    /\ call = "out"
    /\ call' = "destroy"
    /\ pos' = NoBlock
    /\ IF pos = NoBlock
       THEN UNCHANGED <<mu, status>>
       ELSE /\ status' = [status EXCEPT ![pos] = "kernel"]
            /\ mu' = [mu EXCEPT ![pos] = "free"]
    /\ UNCHANGED <<ringOffset, cap, fill, captured, delivered>>

RingDestroyed ==
    /\ call = "destroy"
    /\ \A s \in Slots : mu[s] = "free"
    /\ call' = "gone"
    /\ UNCHANGED <<ringOffset, pos, mu, ringKernelVars, delivered>>

NextBlock == NextBlockEnter \/ ResetTo \/ NextBlockGet \/ NextBlockEmpty

RingNext == KernelFill \/ NextBlock \/ (\E s \in Slots : Done(s))
            \/ DestroyRing \/ RingDestroyed

RingSpec == RingInit /\ [][RingNext]_ringVars
-----------------------------------------------------------------------------
RingTypeOK ==
    /\ ringOffset \in Slots /\ fill \in Slots
    /\ pos \in Slots \cup {NoBlock}
    /\ mu \in [Slots -> {"free", "pos", "user"}]
    /\ status \in [Slots -> {"kernel", "user"}]
    /\ cap \in [Slots -> 0 .. MaxCaptures]
    /\ captured \in 0 .. MaxCaptures /\ delivered \in 0 .. MaxCaptures
    /\ call \in {"out", "lock", "poll", "destroy", "gone"}

(* Blocks reach the caller in the order of their capture, none skipped and *)
(* none twice, however late and in whatever order they are given back: the *)
(* reader's offset_ and the kernel's position can never drift apart.       *)
InOrderDelivery ==
    [][delivered' # delivered => delivered' = delivered + 1]_ringVars

(* The kernel does not touch a block from the moment it is handed out      *)
(* until its owner is done with it.                                        *)
HeldBlockStable ==
    [][\A s \in Slots : mu[s] = "user" =>
          cap'[s] = cap[s] /\ (status'[s] = "kernel" => mu'[s] # "user")]_ringVars

(* Every captured block that was not handed out yet is still in the ring,  *)
(* ready and at the place offset_ will reach in its turn, as long as the   *)
(* ring lives (its destructor discards what pos_ holds).                   *)
NothingOverrun ==
    call \in {"out", "lock", "poll"} => \A n \in delivered + 1 .. captured :
        \E s \in Slots :
            /\ cap[s] = n /\ status[s] = "user" /\ mu[s] # "user"
            /\ s = (n - 1) % NumBlocks
=============================================================================
