------------------------------- MODULE Fetcher -------------------------------
(***************************************************************************)
(* How a fetch worker gets one height from the Ethereum node and turns it  *)
(* into documents: fetchAndConvertBlock and its retries                    *)
(* (src/pkg/indexer/concurrent_processor.go), Fetcher.FetchBlock with the  *)
(* batch and the per-transaction receipt paths                             *)
(* (src/pkg/chains/evm/fetcher.go), the client's conversions               *)
(* (ethereum_client.go) and Converter.Convert (converter.go).              *)
(*                                                                         *)
(* Every call reads the node at a moment of its own: between two of them   *)
(* the chain may reorganise, so the block, the batch of receipts and each  *)
(* single receipt may come from different branches.  A branch stands for   *)
(* the block it has at this height, and for that block's hash.             *)
(***************************************************************************)
EXTENDS Integers, FiniteSets, SequencesExt

CONSTANTS
  Branches,        \* the blocks the node may serve at this height
  Transactions,    \* [Branches -> sequences of transactions]
  Outcome,         \* Outcome[b][t]: "root", "success" or "failed", see GetReceiptStatus
  Logs,            \* Logs[b][t]: the set of logs t emits in block b
  AccessList,      \* AccessList[t]: a sequence of entries, repeats included
  ReceiptWorkers,  \* indexer.receipt_workers
  MaxRPCRetries,
  MaxReorgs,       \* bound: changes of the branch the node serves
  Faults           \* calls that may fail: "block", "batch", "receipt"; and "cancel"

FetcherAssumption ==
  /\ ReceiptWorkers \in Nat \ {0} /\ MaxRPCRetries \in Nat \ {0} /\ MaxReorgs \in Nat
  /\ \A b \in Branches : IsInjective(Transactions[b])

VARIABLES
  canon,    \* the branch the node serves, None while the height is not mined
  reorgs,
  ctx,      \* "live" or "cancelled"
  pc,       \* where the worker is
  block,    \* the block this attempt holds
  slot,     \* the goroutine of each transaction, and the receipt it got: {} for nil
  errs,     \* otherErrors
  result    \* the BlockResult

nodeVars == <<canon, reorgs, ctx>>
vars == <<nodeVars, pc, block, slot, errs, result>>

None == "none"
Pending == [kind |-> "pending"]
Failure == [kind |-> "error"]

-----------------------------------------------------------------------------
\* A receipt from before Byzantium carries a state root and counts as successful.
GetReceiptStatus(outcome) == outcome \in {"root", "success"}

\* A receipt as the client converts it.
Receipt(b, t) == [tx |-> t, block |-> b, ok |-> GetReceiptStatus(Outcome[b][t]), logs |-> Logs[b][t]]
AllReceipts == UNION {{Receipt(b, t) : t \in Range(Transactions[b])} : b \in Branches}

ReceiptHashesMatch(receipts, b) == \A r \in receipts : r.block = b
BatchCoversTransactions(receipts, b) == Range(Transactions[b]) \subseteq {r.tx : r \in receipts}

\* mergeReceiptsOntoTransactions: a transaction without a receipt keeps the default, success.
MergedStatus(receipts, t) ==
  IF \E r \in receipts : r.tx = t THEN (CHOOSE r \in receipts : r.tx = t).ok ELSE TRUE

-----------------------------------------------------------------------------
\* buildALEDocs: entries in chain order with their transaction, a repeat within one dropped.
ALEDocs(b) ==
  LET Keep(docs, d) == IF Contains(docs, d) THEN docs ELSE Append(docs, d)
      OfTx(t) == [i \in DOMAIN AccessList[t] |-> <<t, AccessList[t][i]>>]
  IN  FoldLeft(Keep, <<>>, FlattenSeq([i \in DOMAIN Transactions[b] |-> OfTx(Transactions[b][i])]))

TransactionDocs(b, receipts) ==
  {[tx |-> t, ok |-> MergedStatus(receipts, t)] : t \in Range(Transactions[b])}

\* A log is emitted by way of the receipt of a transaction of the block.
LogDocs(b, receipts) == UNION {r.logs : r \in {x \in receipts : x.tx \in Range(Transactions[b])}}

\* Convert: the documents of a block held with these receipts.
Convert(b, receipts) ==
  [kind  |-> "converted",
   block |-> b,
   txs   |-> TransactionDocs(b, receipts),
   logs  |-> LogDocs(b, receipts),
   ales  |-> ALEDocs(b)]

-----------------------------------------------------------------------------
Init ==
  /\ canon \in Branches \cup {None} /\ reorgs = 0 /\ ctx = "live"
  /\ pc = "fetch" /\ block = None /\ slot = <<>> /\ errs = 0 /\ result = Pending

\* The node moves to another branch, or to one that does not reach this height yet.
Reorg ==
  /\ reorgs < MaxReorgs
  /\ canon' \in (Branches \cup {None}) \ {canon}
  /\ reorgs' = reorgs + 1
  /\ UNCHANGED <<ctx, pc, block, slot, errs, result>>

Cancel ==
  /\ "cancel" \in Faults /\ ctx = "live" /\ ctx' = "cancelled"
  /\ UNCHANGED <<canon, reorgs, pc, block, slot, errs, result>>

Return(r) ==
  /\ pc' = "done" /\ result' = r /\ block' = None /\ slot' = <<>>
  /\ UNCHANGED <<nodeVars, errs>>

Backoff ==
  /\ pc' = "backoff" /\ block' = None /\ slot' = <<>>
  /\ UNCHANGED <<nodeVars, result>>

\* Mutant: the errors are never counted.
OtherErrorMutant == Backoff /\ UNCHANGED errs

\* An error other than not-found: MaxRPCRetries of them end the fetch.
OtherError ==
  IF errs + 1 >= MaxRPCRetries THEN Return(Failure)
  ELSE Backoff /\ errs' = errs + 1

\* A call fails for a reason of its own, or because the context it was given is cancelled.
CallFails(call) == call \in Faults \/ ctx = "cancelled"

\* fetchBlockWithRetry's loop head and fetchBlock.
FetchBlock ==
  /\ pc = "fetch"
  /\ \/ ctx = "cancelled" /\ Return(Failure)
     \/ CallFails("block") /\ OtherError
     \/ canon = None /\ Backoff /\ UNCHANGED errs
     \/ /\ canon # None /\ block' = canon /\ pc' = "batch"
        /\ UNCHANGED <<nodeVars, slot, errs, result>>

\* The select after a failed attempt.
Wait ==
  /\ pc = "backoff"
  /\ \/ ctx = "cancelled" /\ Return(Failure)
     \/ ctx = "live" /\ pc' = "fetch" /\ UNCHANGED <<nodeVars, block, slot, errs, result>>

\* Mutant: an incomplete batch is used.
UsableMutant(receipts, b) == ReceiptHashesMatch(receipts, b)

Usable(receipts, b) == ReceiptHashesMatch(receipts, b) /\ BatchCoversTransactions(receipts, b)

\* One goroutine per transaction.
FetchReceiptsIndividually ==
  /\ pc' = "receipts" /\ slot' = [i \in DOMAIN Transactions[block] |-> [at |-> "wait", got |-> {}]]
  /\ UNCHANGED <<nodeVars, block, errs, result>>

\* What the node may answer: any of the receipts it has, of whichever block.
GetBlockReceipts == SUBSET AllReceipts

\* An answer, an error, or no call because the context is gone.
FetchBatch ==
  /\ pc = "batch"
  /\ \/ CallFails("batch") /\ FetchReceiptsIndividually
     \/ \E served \in GetBlockReceipts :
          IF Usable(served, block) THEN Return(Convert(block, served))
          ELSE FetchReceiptsIndividually

Calls == {i \in DOMAIN slot : slot[i].at = "call"}

SlotBecomes(i, at, got) ==
  /\ slot' = [slot EXCEPT ![i] = [at |-> at, got |-> got]]
  /\ UNCHANGED <<nodeVars, pc, block, errs, result>>

\* The goroutine gets a place in the semaphore, or sees the context cancelled.
Acquire(i) ==
  /\ slot[i].at = "wait"
  /\ \/ Cardinality(Calls) < ReceiptWorkers /\ SlotBecomes(i, "call", {})
     \/ ctx = "cancelled" /\ SlotBecomes(i, "done", {})

\* A receipt of another block leaves the slot nil.
Accepted(r) == r.block = block

\* GetTransactionReceipt resolves the transaction on the branch the node serves now.
GetTransactionReceipt(i) ==
  /\ slot[i].at = "call"
  /\ LET t == Transactions[block][i]
         known == canon # None /\ t \in Range(Transactions[canon])
     IN  \/ CallFails("receipt") /\ SlotBecomes(i, "done", {})
         \/ ~known /\ SlotBecomes(i, "done", {})
         \/ /\ known
            /\ SlotBecomes(i, "done", {r \in {Receipt(canon, t)} : Accepted(r)})

\* wg.Wait returns: a nil slot fails the attempt.
Join ==
  /\ pc = "receipts"
  /\ \A i \in DOMAIN slot : slot[i].at = "done"
  /\ IF \E i \in DOMAIN slot : slot[i].got = {} THEN OtherError
     ELSE Return(Convert(block, UNION {slot[i].got : i \in DOMAIN slot}))

\* The result is handed on; the worker takes the next height.
Done == pc = "done" /\ UNCHANGED vars

WorkerNext ==
  \/ FetchBlock \/ Wait \/ FetchBatch \/ Join
  \/ \E i \in DOMAIN slot : pc = "receipts" /\ (Acquire(i) \/ GetTransactionReceipt(i))

Next == WorkerNext \/ Reorg \/ Cancel \/ Done

Spec == Init /\ [][Next]_vars

\* Calls end, with an answer or with an error, and goroutines run.
FairSpec == Spec /\ WF_vars(WorkerNext)

-----------------------------------------------------------------------------
\* Type invariant.  A slot only ever holds a receipt of the block its attempt
\* holds, and no more than ReceiptWorkers goroutines are in a call.
TypeOK ==
  /\ canon \in Branches \cup {None} /\ reorgs \in 0 .. MaxReorgs /\ ctx \in {"live", "cancelled"}
  /\ pc \in {"fetch", "backoff", "batch", "receipts", "done"}
  /\ block \in Branches \cup {None} /\ errs \in 0 .. MaxRPCRetries - 1
  /\ pc = "receipts" => DOMAIN slot = DOMAIN Transactions[block]
  /\ \A i \in DOMAIN slot : slot[i].at \in {"wait", "call", "done"} /\ slot[i].got \subseteq {r \in AllReceipts : r.block = block}
  /\ Cardinality(Calls) <= ReceiptWorkers

\* What a block's documents must be, whichever way its receipts were read.
Documents(b) ==
  [kind  |-> "converted",
   block |-> b,
   txs   |-> {[tx |-> t, ok |-> Outcome[b][t] # "failed"] : t \in Range(Transactions[b])},
   logs  |-> UNION {Logs[b][t] : t \in Range(Transactions[b])},
   ales  |-> UNION {{t} \X Range(AccessList[t]) : t \in Range(Transactions[b])}]

\* "The receipts are pinned to the fetched block's own hash, so a reorg between
\* the block fetch and the receipt fetch cannot serve receipts from the new
\* chain's block" (fetcher.go:124-126): a converted block is exactly the
\* documents of one block of one branch, each execution outcome, log and
\* access-list entry included once, whatever the node did between the calls.
ConvertedIsOneBlock ==
  result.kind = "converted" =>
    /\ IsInjective(result.ales)
    /\ [result EXCEPT !.ales = Range(@)] = Documents(result.block)

\* A fetch ends: once the node serves some branch for good, or the context is
\* cancelled, the worker returns (fetchBlockWithRetry bounds every error but
\* not-found, and every goroutine leaves its semaphore).
FetchReturns == (<>[](canon # None) \/ <>(ctx = "cancelled")) => <>(pc = "done")

\* "receipts are fetched by block number and therefore always land on the
\* canonical branch" (concurrent_processor.go:1559-1560): a block is only
\* accepted from the batch or from single receipts while its branch is the one
\* the node serves.
ReceiptsAreCanonical == [][result'.kind = "converted" /\ result # result' => result'.block = canon]_vars
=============================================================================
