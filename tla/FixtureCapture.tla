--------------------------- MODULE FixtureCapture ---------------------------
(***************************************************************************)
(* The capture tool src/cmd/fetch_blocks/main.go: it reads a range of      *)
(* blocks with their receipts from a node, one call after the other, each  *)
(* with its own retries, and saves them as a replay fixture.  The node may *)
(* change branches between two calls, a call may fail, and a signal may    *)
(* interrupt the capture at any moment.                                    *)
(***************************************************************************)
EXTENDS Integers, SequencesExt

CONSTANTS
  Branches,           \* the chains the node may serve
  Tip,                \* Tip[b]: the highest block of branch b
  Txs,                \* Txs[b][n]: the transactions of block n on branch b
  DefaultBlockCount,
  MaxRetries,
  MaxReorgs,          \* bound: changes of branch
  Faults              \* "transport", "envelope", "signal", "disk"

CaptureAssumption ==
  /\ DefaultBlockCount \in Nat \ {0} /\ MaxRetries \in Nat \ {0} /\ MaxReorgs \in Nat
  /\ \A b \in Branches : Tip[b] \in Nat /\ DOMAIN Txs[b] = 0 .. Tip[b]

VARIABLES
  canon, reorgs,  \* the branch the node serves, and how often it changed
  opts,           \* --from and --to, 0 for unset
  ctx,            \* "live" or "cancelled" by a signal
  pc,             \* the call or the step the tool is at
  attempt,        \* of the current rpcCall
  from, to, num,  \* the resolved range and the block being captured
  block,          \* the branch the block in hand was read from
  receipts,       \* receipts read for it so far, each with the branch that served it
  blocks,         \* fx.Blocks
  interrupted,
  fixtures        \* what has been saved

node == <<canon, reorgs>>
range == <<from, to, num>>
vars == <<node, opts, ctx, pc, attempt, range, block, receipts, blocks, interrupted, fixtures>>

None == "none"

\* The transactions of the block in hand, and whether the tool is in a call to the node.
TxsOf == Txs[block][num]
InCall == pc \in {"tip", "block", "batch"} \/ (pc = "receipt" /\ Len(receipts) < Len(TxsOf))

Init ==
  /\ canon \in Branches /\ reorgs = 0 /\ ctx = "live"
  /\ opts \in [from : 0 .. 2, to : 0 .. 2]
  /\ pc = "tip" /\ attempt = 0 /\ from = 0 /\ to = 0 /\ num = 0
  /\ block = None /\ receipts = <<>> /\ blocks = <<>>
  /\ interrupted = FALSE /\ fixtures = {}

Reorg ==
  /\ reorgs < MaxReorgs /\ pc # "done"
  /\ canon' \in Branches \ {canon} /\ reorgs' = reorgs + 1
  /\ UNCHANGED <<opts, ctx, pc, attempt, range, block, receipts, blocks, interrupted, fixtures>>

Signal ==
  /\ "signal" \in Faults /\ ctx = "live" /\ pc # "done" /\ ctx' = "cancelled"
  /\ UNCHANGED <<node, opts, pc, attempt, range, block, receipts, blocks, interrupted, fixtures>>

-----------------------------------------------------------------------------
\* The tool returns an error: no fixture.
Abort == pc' = "done" /\ UNCHANGED <<node, opts, ctx, attempt, range, block, receipts, blocks, interrupted, fixtures>>

\* The loop of captureRange is left with what was captured so far.
Interrupt ==
  /\ pc' = "save" /\ interrupted' = TRUE
  /\ UNCHANGED <<node, opts, ctx, attempt, range, block, receipts, blocks, fixtures>>

\* An error of captureBlock: an interrupt if the context is cancelled, else fatal.
BlockError == IF ctx = "cancelled" THEN Interrupt ELSE Abort

Call(c, blk, rs) ==
  /\ pc' = c /\ attempt' = 0 /\ block' = blk /\ receipts' = rs
  /\ UNCHANGED <<node, opts, ctx, range, blocks, interrupted, fixtures>>

CallError == CASE pc = "tip" -> Abort
               [] pc = "batch" -> Call("receipt", block, <<>>)
               [] pc \in {"block", "receipt"} -> BlockError

\* A transport error, HTTP 429 or 5xx, or a cancelled context: retried until the attempts run
\* out or the pause before the next one sees the cancelled context.
TransportError ==
  /\ InCall /\ ("transport" \in Faults \/ ctx = "cancelled")
  /\ \/ attempt + 1 < MaxRetries /\ ctx = "live" /\ attempt' = attempt + 1
        /\ UNCHANGED <<node, opts, ctx, pc, range, block, receipts, blocks, interrupted, fixtures>>
     \/ (attempt + 1 = MaxRetries \/ ctx = "cancelled") /\ CallError

\* The node answers with a JSON-RPC error, which is not retried.
EnvelopeError == InCall /\ "envelope" \in Faults /\ CallError

\* The first block of a default window that ends at last.
WindowStart(last) == last + 1 - (IF last + 1 < DefaultBlockCount THEN last + 1 ELSE DefaultBlockCount)

\* fetchTip and resolveRange.
FetchTip ==
  /\ pc = "tip"
  /\ LET tip == Tip[canon]
         last == IF opts.to = 0 THEN tip ELSE opts.to
         first == IF opts.from = 0 THEN WindowStart(last) ELSE opts.from
     IN  IF last > tip \/ first > last THEN Abort
         ELSE /\ from' = first /\ to' = last /\ num' = first /\ pc' = "block" /\ attempt' = 0
              /\ UNCHANGED <<node, opts, ctx, block, receipts, blocks, interrupted, fixtures>>

\* eth_getBlockByNumber: null for a block the branch does not have.
GetBlock ==
  /\ pc = "block"
  /\ IF num > Tip[canon] THEN BlockError ELSE Call("batch", canon, <<>>)

Served(b, txs) == [i \in DOMAIN txs |-> [tx |-> txs[i], block |-> b]]

\* Mutant: the pause also runs after the last block.
IsLastMutant == FALSE

IsLast == num = to

\* A complete block is appended; the pause follows unless it was the last one.
Captured(rs) ==
  /\ blocks' = Append(blocks, [num |-> num, block |-> block, txs |-> TxsOf, receipts |-> rs])
  /\ pc' = IF IsLast THEN "save" ELSE "pause"
  /\ attempt' = 0 /\ block' = None /\ receipts' = <<>>
  /\ UNCHANGED <<node, opts, ctx, range, interrupted, fixtures>>

\* Mutant: an answer that is short of receipts is taken.
BatchUsableMutant(rs) == TRUE

\* As many receipts as the block in hand has transactions.
BatchUsable(rs) == Len(rs) = Len(TxsOf)

\* eth_getBlockReceipts by number: null, part of the receipts or all of them.
GetBatch ==
  /\ pc = "batch"
  /\ \/ Call("receipt", block, <<>>)
     \/ /\ num <= Tip[canon]
        /\ \E n \in 0 .. Len(Txs[canon][num]) :
             LET rs == Served(canon, SubSeq(Txs[canon][num], 1, n))
             IN  IF BatchUsable(rs) THEN Captured(rs) ELSE Call("receipt", block, <<>>)

\* The branch block that holds a transaction now: the node finds it by its hash.
Holds(b, t) == \E n \in DOMAIN Txs[b] : t \in Range(Txs[b][n])

\* Mutant: a transaction without a receipt starts the block's receipts over.
NullReceiptMutant == Call("batch", block, <<>>)

\* A transaction the node does not find fails the block.
NullReceipt == BlockError

\* One eth_getTransactionReceipt per transaction, in order.
GetReceipt ==
  /\ pc = "receipt"
  /\ IF Len(receipts) = Len(TxsOf) THEN Captured(receipts)
     ELSE LET t == TxsOf[Len(receipts) + 1]
          IN  IF Holds(canon, t) THEN Call("receipt", block, Append(receipts, [tx |-> t, block |-> canon]))
              ELSE NullReceipt

\* The pause before the next block.
Pause ==
  /\ pc = "pause"
  /\ \/ ctx = "cancelled" /\ Interrupt
     \/ /\ num' = num + 1 /\ pc' = IF num < to THEN "block" ELSE "save"
        /\ UNCHANGED <<node, opts, ctx, attempt, from, to, block, receipts, blocks, interrupted, fixtures>>

\* The last block of the fixture.
SavedTo == IF interrupted THEN Last(blocks).num ELSE to

\* The tail of captureRange, and saveFixture: the file appears by a rename or not at all.
Save ==
  /\ pc = "save" /\ pc' = "done"
  /\ \/ blocks = <<>> /\ UNCHANGED fixtures
     \/ "disk" \in Faults /\ UNCHANGED fixtures
     \/ /\ blocks # <<>>
        /\ fixtures' = fixtures \cup {[from |-> from, to |-> SavedTo, partial |-> interrupted,
                                       blocks |-> blocks]}
  /\ UNCHANGED <<node, opts, ctx, attempt, range, block, receipts, blocks, interrupted>>

Done == pc = "done" /\ UNCHANGED vars

Tool == TransportError \/ EnvelopeError \/ FetchTip \/ GetBlock \/ GetBatch \/ GetReceipt \/ Pause \/ Save

Next == Tool \/ Reorg \/ Signal \/ Done

\* Every call ends: http.Client has a timeout.
Spec == Init /\ [][Next]_vars /\ WF_vars(Tool)

-----------------------------------------------------------------------------
\* Type invariant.  A default window has DefaultBlockCount blocks, or as many
\* as exist, and ends at --to (resolveRange).
TypeOK ==
  /\ canon \in Branches /\ ctx \in {"live", "cancelled"} /\ attempt \in 0 .. MaxRetries - 1
  /\ from \in Nat /\ to \in Nat /\ num \in Nat
  /\ Len(blocks) <= to - from + 1
  /\ pc \notin {"tip", "done"} /\ opts.from = 0 =>
       from >= 0 /\ (to - from + 1 = DefaultBlockCount \/ (from = 0 /\ to < DefaultBlockCount))

\* "the fixture name never promises a range the file does not contain"
\* (main.go:347-348) and no complete capture is marked as partial (main.go:327-329):
\* a saved fixture holds exactly the blocks from..to of its name, and it is
\* partial exactly when that is less than what was asked for.
FixtureMatchesName ==
  \A f \in fixtures :
    /\ [i \in DOMAIN f.blocks |-> f.blocks[i].num] = [i \in 1 .. f.to - f.from + 1 |-> f.from + i - 1]
    /\ f.partial <=> f.to < to

\* "Serving null or partial receipts to the replay would time a block without
\* its receipt work" (main.go:389-391): every block of a fixture has one receipt
\* per transaction, from either path and through every retry.
ReceiptsComplete ==
  \A f \in fixtures : \A i \in DOMAIN f.blocks : Len(f.blocks[i].receipts) = Len(f.blocks[i].txs)

\* A capture ends: every call has a bounded number of attempts, and a signal
\* ends the pauses between them.
CaptureEnds == <>(pc = "done")

\* "mirroring the production fetcher's fallback" (main.go:389): what the tool
\* accepts the production fetcher accepts, receipts of the block itself.
ReplayAccepts ==
  \A f \in fixtures : \A i \in DOMAIN f.blocks : \A r \in Range(f.blocks[i].receipts) :
    r.block = f.blocks[i].block
=============================================================================
