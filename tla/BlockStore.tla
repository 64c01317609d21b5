----------------------------- MODULE BlockStore -----------------------------
(***************************************************************************)
(* Storing one block: storeWithRetry of the processor, Store and           *)
(* SignExisting of src/pkg/defra/block_handler.go, and the link stamper of *)
(* src/pkg/chains/evm/link_stamper.go, against a database that peers write *)
(* the same documents to.                                                  *)
(*                                                                         *)
(* A document is its group, its position in the group and the transaction  *)
(* its link field points to.  Groups are numbered in the order Convert     *)
(* emits them: 1 block, 2 transactions, 3 logs, 4 access list entries.     *)
(* docIDs are derived from content, so a document is its own docID, and    *)
(* a document's CID stands for the document.                               *)
(***************************************************************************)
EXTENDS Integers, Sequences, FiniteSets, Functions

CONSTANTS
  TxRefs,        \* per group, the transaction each document belongs to
  BatchSize,     \* per group, the BatchSize of the group
  Malformed,     \* sets of <<g, i>>: which documents may carry no tx hash
  PeerDocs,      \* documents of this height that peers hold and may send
  MaxStoreTries, \* MaxRPCRetries
  MaxBatchTries, \* maxBatchRetries
  MaxCIDTries,   \* maxCIDRetries
  MaxCalls,      \* bound: how often the height is stored
  Faults         \* failures that may happen: "conflict", "error", "sign", "crash"

\* There is one block document, before the transactions; a document of a later
\* group belongs to one of them.
ASSUME StoreAssumption ==
  /\ TxRefs \in Seq(Seq(Nat)) /\ Len(TxRefs) >= 2 /\ Len(TxRefs[1]) = 1
  /\ \A g \in 3 .. Len(TxRefs) : \A i \in 1 .. Len(TxRefs[g]) :
       TxRefs[g][i] \in 1 .. Len(TxRefs[2])
  /\ BatchSize \in [1 .. Len(TxRefs) -> Nat \ {0}]

VARIABLES
  db,       \* the visible documents of the height
  sigs,     \* the signatures this node stored, each as the CIDs it covers
  queue,    \* docID lists handed to TrackBlock
  written,  \* history: documents this process committed through Store
  calls,    \* calls of storeWithRetry so far
  bad,      \* documents without a transaction hash
  txHashToID, \* the stamper's map; 0 where the hash is not registered
  blockID,  \* the stamper has recorded the block's docID
  pc,       \* where the call is
  try,      \* attempts of storeWithRetry
  group, from, btry, \* the batch being written: group, first document, attempt
  cids,     \* the batch signing collector
  mark,     \* its length before the batch attempt that was discarded
  ids,      \* allDocIDs
  gids,     \* the docIDs of the current group
  err,      \* the first batch error
  res,      \* what the last call reported
  signer,   \* the SignExisting goroutine
  cancelled

storeVars == <<try, group, from, btry, cids, mark, ids,
              gids, err>>
linkVars  == <<txHashToID, blockID>>
histVars  == <<calls, bad>>
vars == <<db, sigs, queue, written, histVars, linkVars, pc, storeVars, res,
          signer, cancelled>>

Groups  == 1 .. Len(TxRefs)
Size(g) == Len(TxRefs[g])
Doc(g, i, tx) == [g |-> g, i |-> i, tx |-> tx]

\* The block's documents as the chain has them.
Expected(g) == {Doc(g, i, IF g <= 2 THEN 0 ELSE TxRefs[g][i]) : i \in 1 .. Size(g)}
AllDocs     == UNION {Expected(g) : g \in Groups}
Docs        == AllDocs \cup PeerDocs
               \cup {Doc(g, i, t) : g \in 3 .. Len(TxRefs), i \in 1 .. 3, t \in 0 .. 3}

\* The elements of a finite set, in some order.
Listing(S) == CHOOSE s \in [1 .. Cardinality(S) -> S] : IsInjective(s)

NoSigner == [pc |-> "none", g |-> 0, docs |-> {}, try |-> 0]

Init ==
  /\ db = {} /\ sigs = {} /\ queue = <<>> /\ written = {} /\ calls = 0
  /\ bad \in Malformed
  /\ txHashToID = [t \in 1 .. Size(2) |-> 0] /\ blockID = FALSE
  /\ pc = "idle" /\ try = 0 /\ group = 0 /\ from = 0 /\ btry = 0
  /\ cids = <<>> /\ mark = 0 /\ ids = <<>> /\ gids = <<>> /\ err = "none" /\ res = "none"
  /\ signer = NoSigner /\ cancelled = FALSE

-----------------------------------------------------------------------------
(* storeWithRetry                                                          *)

\* A store worker takes the block up; Convert has made a new stamper.
Call ==
  /\ pc = "idle" /\ calls < MaxCalls /\ signer = NoSigner
  /\ calls' = calls + 1 /\ pc' = "try" /\ try' = 0
  /\ txHashToID' = [t \in 1 .. Size(2) |-> 0] /\ blockID' = FALSE
  /\ UNCHANGED <<db, sigs, queue, written, bad, group, from, btry, cids, mark,
                 ids, gids, err, res, signer, cancelled>>

Return(r) == pc' = "idle" /\ res' = r

\* The loop of storeWithRetry: an attempt of Store with a new collector, unless
\* the run is cancelled.
Attempt ==
  /\ pc = "try"
  /\ IF cancelled
     THEN Return("failed") /\ UNCHANGED storeVars
     ELSE /\ pc' = "block" /\ UNCHANGED res
          /\ cids' = <<>> /\ ids' = <<>> /\ gids' = <<>> /\ err' = "none"
          /\ group' = 1 /\ mark' = 0 /\ UNCHANGED <<try, from, btry>>
  /\ UNCHANGED <<db, sigs, queue, written, histVars, linkVars, signer, cancelled>>

\* Mutant: a conflict is retried for ever.
FailedMutant(e) ==
  IF e = "conflict"
  THEN pc' = "try" /\ UNCHANGED <<try, res>>
  ELSE Return("failed") /\ UNCHANGED try

\* What storeWithRetry does with an error of Store.
Failed(e) ==
  IF e = "conflict" /\ try + 1 < MaxStoreTries
  THEN pc' = "try" /\ try' = try + 1 /\ UNCHANGED res
  ELSE Return("failed") /\ UNCHANGED try

-----------------------------------------------------------------------------
(* Store                                                                   *)

BlockDoc == Doc(1, 1, 0)

\* storeBlockDoc commits the block document, and recordDocIDs registers it.
StoreBlockDoc ==
  /\ pc = "block" /\ BlockDoc \notin db
  /\ db' = db \cup {BlockDoc} /\ written' = written \cup {BlockDoc}
  /\ cids' = <<BlockDoc>> /\ ids' = <<BlockDoc>> /\ blockID' = TRUE
  /\ pc' = "stamp" /\ group' = 2
  /\ UNCHANGED <<sigs, queue, histVars, txHashToID, try, from, btry, mark, gids,
                 err, res, signer, cancelled>>

\* "block already exists": success, and a goroutine signs what is stored.
BlockExists ==
  /\ pc = "block" /\ BlockDoc \in db
  /\ Return("exists")
  /\ signer' = [NoSigner EXCEPT !.pc = "query", !.g = 1]
  /\ UNCHANGED <<db, sigs, queue, written, histVars, linkVars, storeVars, cancelled>>

BlockFails ==
  /\ pc = "block"
  /\ \E e \in Faults \cap {"conflict", "error"} : Failed(e)
  /\ UNCHANGED <<db, sigs, queue, written, histVars, linkVars, group, from, btry,
                 cids, mark, ids, gids, err, signer, cancelled>>

\* StampBeforeWrite of the next group.  A bad hash stops the remaining groups.
StampFails == group \in {2, 3} /\ (~blockID \/ \E b \in bad : b[1] = group)

StampGroup ==
  /\ pc = "stamp"
  /\ IF group > Len(TxRefs)
     THEN pc' = "sign" /\ UNCHANGED <<from, btry, gids, err>>
     ELSE IF StampFails
     THEN pc' = "sign" /\ err' = "stamp" /\ UNCHANGED <<from, btry, gids>>
     ELSE pc' = "batch" /\ from' = 1 /\ btry' = 0 /\ gids' = <<>> /\ UNCHANGED err
  /\ UNCHANGED <<db, sigs, queue, written, histVars, linkVars, try, group, cids,
                 mark, ids, res, signer, cancelled>>

Upto == IF from + BatchSize[group] - 1 < Size(group)
        THEN from + BatchSize[group] - 1 ELSE Size(group)

\* The documents of the current batch, links stamped.
Batch ==
  [k \in 1 .. Upto - from + 1 |->
     LET i == from + k - 1
     IN  Doc(group, i, IF group = 2 THEN 0 ELSE txHashToID[TxRefs[group][i]])]

\* RecordDocIDs: positions of the written docIDs are positions of the documents.
RecordDocIDs(all) ==
  IF group = 2
  THEN txHashToID' = [t \in DOMAIN txHashToID |->
                        IF t <= Len(all) THEN all[t].i ELSE txHashToID[t]]
  ELSE UNCHANGED txHashToID

\* A batch is done: the next batch, or the next group.
Advance(new) ==
  /\ ids' = ids \o new /\ gids' = gids \o new /\ btry' = 0
  /\ IF Upto < Size(group)
     THEN from' = Upto + 1 /\ pc' = "batch" /\ UNCHANGED <<group, txHashToID>>
     ELSE pc' = "stamp" /\ group' = group + 1 /\ RecordDocIDs(gids \o new)
          /\ UNCHANGED from
  /\ UNCHANGED <<err, blockID>>

\* Mutant: a failed group does not stop the groups after it.
GiveUpMutant(new, e) ==
  /\ err' = e /\ ids' = ids \o new /\ gids' = gids \o new
  /\ pc' = "stamp" /\ group' = group + 1 /\ RecordDocIDs(gids \o new)
  /\ UNCHANGED <<blockID, from, btry>>

\* A batch fails for good: its docIDs still count, the remaining groups do not
\* run (fail-fast).
GiveUp(new, e) ==
  /\ err' = e /\ ids' = ids \o new /\ gids' = gids \o new /\ pc' = "sign"
  /\ UNCHANGED <<linkVars, group, from, btry>>

\* createDocsInTxn commits the whole batch in one transaction.
WriteBatch ==
  /\ pc = "batch" /\ Range(Batch) \cap db = {}
  /\ db' = db \cup Range(Batch) /\ written' = written \cup Range(Batch)
  /\ cids' = cids \o Batch
  /\ Advance(Batch)
  /\ UNCHANGED <<sigs, queue, histVars, try, mark, res, signer, cancelled>>

\* A document of the batch is stored already: the attempt is discarded, but
\* the CIDs it collected before it failed are in the collector.
BatchExists ==
  /\ pc = "batch" /\ Range(Batch) \cap db # {}
  /\ \E n \in 0 .. Len(Batch) : cids' = cids \o SubSeq(Batch, 1, n)
  /\ mark' = Len(cids) /\ pc' = "skip"
  /\ UNCHANGED <<db, sigs, queue, written, histVars, linkVars, try, group, from,
                 btry, ids, gids, err, res, signer, cancelled>>

\* Mutant: the CIDs of a discarded attempt stay in the collector.
TruncatedMutant == cids

\* writeBatchWithRetry truncates the collector to its mark.
Truncated == IF pc = "skip" THEN SubSeq(cids, 1, mark) ELSE cids

\* addDocsSkipExisting commits the missing documents one by one in a new
\* transaction; a skip is a "previously stored" error with the written docIDs,
\* whose order nothing depends on.
\* Nothing removes a document while a store runs, so at least one is skipped.
SkipExisting ==
  /\ pc = "skip"
  /\ LET new == Listing(Range(Batch) \ db)
     IN  /\ db' = db \cup Range(new) /\ written' = written \cup Range(new)
         /\ cids' = Truncated
         /\ GiveUp(new, "previous")
  /\ UNCHANGED <<sigs, queue, histVars, try, mark, res, signer, cancelled>>

BatchRetries == btry + 1 < MaxBatchTries

\* A conflict is retried with backoff, which a cancellation ends; any other
\* failure, or the last conflict, is a batch error without docIDs.
BatchFails ==
  /\ pc \in {"batch", "skip"}
  /\ cids' = Truncated
  /\ \/ /\ "conflict" \in Faults /\ BatchRetries /\ ~cancelled
        /\ pc' = "batch" /\ btry' = btry + 1
        /\ UNCHANGED <<linkVars, group, from, ids, gids, err>>
     \/ "conflict" \in Faults /\ ~BatchRetries /\ GiveUp(<<>>, "conflict")
     \/ (cancelled \/ "error" \in Faults) /\ GiveUp(<<>>, "error")
  /\ UNCHANGED <<db, sigs, queue, written, histVars, try, mark, res, signer,
                 cancelled>>

\* Mutant: batch errors do not suppress the signature.
MaySignMutant == Len(cids) = Len(ids)

MaySign == err = "none" /\ Len(cids) = Len(ids)

\* signStoredBlock: a partial block, or CIDs that do not match the documents,
\* are not signed; a failure to sign is only logged.
SignStored ==
  /\ pc = "sign"
  /\ pc' = "track"
  /\ \/ MaySign /\ sigs' = sigs \cup {cids}
     \/ (~MaySign \/ "sign" \in Faults) /\ UNCHANGED sigs
  /\ UNCHANGED <<db, queue, written, histVars, linkVars, storeVars, res, signer,
                 cancelled>>

\* Mutant: only blocks without batch errors are tracked.
TrackedMutant == IF err = "none" THEN Append(queue, ids) ELSE queue

Tracked == Append(queue, ids)

\* TrackBlock gets every docID of the call, of a partial block too.
Track ==
  /\ pc = "track"
  /\ queue' = Tracked
  /\ IF err = "none" THEN Return("indexed") /\ UNCHANGED try ELSE Failed(err)
  /\ UNCHANGED <<db, sigs, written, histVars, linkVars, group, from, btry, cids,
                 mark, ids, gids, err, signer, cancelled>>

-----------------------------------------------------------------------------
(* SignExisting, in a goroutine of its own                                 *)

SignerMoves(s) ==
  /\ signer' = s
  /\ UNCHANGED <<db, queue, written, histVars, linkVars, pc, storeVars, res, cancelled>>

StoredOf(g) == {d \in db : d.g = g}

\* queryCollectionDocIDs of one group, and the completeness guard.
SignerQuery ==
  /\ signer.pc = "query"
  /\ \/ /\ Cardinality(StoredOf(signer.g)) >= Size(signer.g)
        /\ SignerMoves([signer EXCEPT
             !.docs = @ \cup StoredOf(signer.g), !.g = @ + 1,
             !.pc = IF signer.g = Len(TxRefs) THEN "wait" ELSE "query"])
     \/ /\ Cardinality(StoredOf(signer.g)) < Size(signer.g) \/ "error" \in Faults
        /\ SignerMoves(NoSigner)
  /\ UNCHANGED sigs

\* waitForCIDs: all CIDs, a retry, the last attempt, or a cancellation.  Then
\* signBlockOverCIDs signs, verifies and stores the signature.
SignerWait ==
  /\ signer.pc = "wait"
  /\ \/ ~cancelled /\ SignerMoves([signer EXCEPT !.pc = "sign"])
     \/ /\ ~cancelled /\ signer.try + 1 < MaxCIDTries
        /\ SignerMoves([signer EXCEPT !.try = @ + 1])
     \/ (cancelled \/ signer.try + 1 = MaxCIDTries) /\ SignerMoves(NoSigner)
  /\ UNCHANGED sigs

SignerSign ==
  /\ signer.pc = "sign"
  /\ \/ sigs' = sigs \cup {Listing(signer.docs)}
     \/ "sign" \in Faults /\ UNCHANGED sigs
  /\ SignerMoves(NoSigner)

-----------------------------------------------------------------------------
(* The environment                                                         *)

\* A peer's copy of a document arrives over P2P.
PeerDoc ==
  /\ \E d \in PeerDocs \ db : db' = db \cup {d}
  /\ UNCHANGED <<sigs, queue, written, histVars, linkVars, pc, storeVars, res,
                 signer, cancelled>>

\* The run of the processor is cancelled.
Cancel ==
  /\ ~cancelled /\ (pc # "idle" \/ signer # NoSigner)
  /\ cancelled' = TRUE
  /\ UNCHANGED <<db, sigs, queue, written, histVars, linkVars, pc, storeVars, res,
                 signer>>

\* A crash, or a new run after a cancelled one has ended.
Restart ==
  /\ \/ "crash" \in Faults /\ pc # "idle"
     \/ cancelled /\ pc = "idle" /\ signer = NoSigner
  /\ pc' = "idle" /\ res' = "none" /\ signer' = NoSigner /\ cancelled' = FALSE
  /\ queue' = <<>> /\ written' = {}
  /\ UNCHANGED <<db, sigs, histVars, linkVars, storeVars>>

StoreNext ==
  \/ Attempt \/ StoreBlockDoc \/ BlockExists \/ BlockFails \/ StampGroup
  \/ WriteBatch \/ BatchExists \/ SkipExisting \/ BatchFails \/ SignStored \/ Track

SignerNext == SignerQuery \/ SignerWait \/ SignerSign

Next == Call \/ StoreNext \/ SignerNext \/ PeerDoc \/ Cancel \/ Restart

Spec == Init /\ [][Next]_vars
-----------------------------------------------------------------------------
(* Properties                                                              *)

\* The variables have their types.
TypeOK ==
  /\ db \subseteq Docs /\ written \subseteq db
  /\ \A s \in sigs : Range(s) \subseteq Docs
  /\ \A k \in DOMAIN queue : Range(queue[k]) \subseteq Docs
  /\ calls \in 0 .. MaxCalls /\ bad \in Malformed
  /\ txHashToID \in [1 .. Size(2) -> 0 .. Size(2)] /\ blockID \in BOOLEAN
  /\ pc \in {"idle", "try", "block", "stamp", "batch", "skip", "sign", "track"}
  /\ try \in 0 .. MaxStoreTries - 1 /\ group \in 0 .. Len(TxRefs) + 1
  /\ from \in 0 .. 3 /\ btry \in 0 .. MaxBatchTries - 1 /\ mark \in 0 .. Len(cids)
  /\ Range(cids) \subseteq Docs /\ Range(ids) \subseteq Docs /\ Range(gids) \subseteq Docs
  /\ err \in {"none", "stamp", "conflict", "error", "previous"}
  /\ res \in {"none", "indexed", "exists", "failed"}
  /\ signer.pc \in {"none", "query", "wait", "sign"} /\ cancelled \in BOOLEAN

\* "signing fails so an incomplete block never carries a signature"
\* (SignExisting), and signStoredBlock signs no partial block: a signature
\* covers each document of the block, and each once, whichever batches
\* conflicted, were skipped or came from peers.
SignedIsComplete ==
  \A s \in sigs : AllDocs \subseteq Range(s) /\ Len(s) = Cardinality(Range(s))

\* The collector "reflects only committed writes" (writeBatchWithRetry): between
\* two batches it holds the CIDs of committed documents, one per docID.
CollectorIsExact ==
  pc \in {"stamp", "sign"} /\ err # "previous" => cids = ids /\ Range(cids) \subseteq written

\* RecordDocIDs registers by position, which is only right for a group written
\* as a whole: no stored log or access list entry links to the transaction of
\* another one, or to none.
LinksAreRight == \A d \in written : d \in AllDocs

\* Every document a call committed is handed to TrackBlock, once, when the call
\* returns, however it went: the pruner never finds out otherwise.
WrittenIsTracked ==
  pc = "idle" =>
    /\ written = UNION {Range(queue[k]) : k \in DOMAIN queue}
    /\ \A j, k \in DOMAIN queue :
         j # k => Range(queue[j]) \cap Range(queue[k]) = {}

\* "ErrAlreadyExists is the routine idempotent path": a height reported as
\* indexed has all its documents.
IndexedIsComplete == pc = "idle" /\ res \in {"indexed", "exists"} => AllDocs \subseteq db
=============================================================================
