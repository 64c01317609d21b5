------------------------------ MODULE DataParts ------------------------------
(***************************************************************************)
(* The parts that move block data in and out of the node, for TLC: the     *)
(* connection to the Ethereum node, the fetch of a block, the store of its *)
(* documents, the capture of fixtures, and the signature of a snapshot.  A *)
(* behaviour is one of one part, which the variable part names.  The store *)
(* is BlockStore itself, at rest in the behaviours of the other parts; the *)
(* others are instances, whose variables are Unused in the behaviours that *)
(* are not theirs.                                                         *)
(***************************************************************************)
EXTENDS BlockStore, TLC

VARIABLES
  part,
  \* of Fetcher
  slot, errs, result,
  \* of RPCDial
  cfg, expired, died, httpClient, wsClient, ret,
  \* of FixtureCapture
  opts, attempt, to, num, receipts, blocks, interrupted, fixtures,
  \* of SnapshotVerify
  roots, key, hashes, sig, sidecar, lines, verdict,
  \* of several of the instances: their pc, err and from, and the node they ask
  at, failure, first, ctx, canon, reorgs, block

fetchVars   == <<slot, errs, result>>
dialVars    == <<cfg, expired, died, httpClient, wsClient, ret>>
captureVars == <<opts, attempt, to, num, receipts, blocks, interrupted, fixtures>>
verifyVars  == <<roots, key, hashes, sig, sidecar, lines, verdict>>
chainVars   == <<canon, reorgs, block>>
partsVars   == <<part, vars, fetchVars, dialVars, captureVars, verifyVars, at,
                 failure, first, ctx, chainVars>>

-----------------------------------------------------------------------------
(* The instances, and the constants of BlockStore                          *)

\* A height on two branches that share a transaction, whose outcome and logs
\* differ between them, and on one where its block is empty.  "s" repeats an
\* access-list entry, and "t" brings an entry that "s" brings too.
Fetch == INSTANCE Fetcher WITH
  Branches     <- {"a", "b", "e"},
  Transactions <- [a |-> <<"s", "t", "v">>, b |-> <<"s", "u">>, e |-> <<>>],
  Outcome      <- [a |-> [s |-> "failed", t |-> "root", v |-> "success"],
                   b |-> [s |-> "success", u |-> "failed"], e |-> <<>>],
  Logs         <- [a |-> [s |-> {}, t |-> {"t1", "t2"}, v |-> {}],
                   b |-> [s |-> {"s1"}, u |-> {"u1"}], e |-> <<>>],
  AccessList   <- [s |-> <<"x", "y", "x">>, t |-> <<"y">>, u |-> <<>>, v |-> <<"z">>],
  ReceiptWorkers <- 2, MaxRPCRetries <- 3, MaxReorgs <- 3,
  Faults <- {"block", "batch", "receipt", "cancel"}, pc <- at

Dial == INSTANCE RPCDial WITH pc <- at, err <- failure

\* A block with two transactions, each with a log, and an access list entry of
\* the second one, stored twice; logs are written one by one, the first may
\* carry no transaction hash, and peers may send any of the documents.
StoreTxs == << <<0>>, <<1, 2>>, <<1, 2>>, <<2>> >>
StoreBatches == <<1, 2, 1, 2>>
NoHash == {{}, {<<3, 1>>}}
AnyDoc == AllDocs

\* Two branches of different length that share one transaction, at different
\* heights, and have empty blocks.
Capture == INSTANCE FixtureCapture WITH
  Branches <- {"a", "b"},
  Tip <- [a |-> 3, b |-> 2],
  Txs <- [a |-> (0 :> <<>> @@ 1 :> <<"p", "q">> @@ 2 :> <<"r">> @@ 3 :> <<>>),
          b |-> (0 :> <<>> @@ 1 :> <<"p", "r">> @@ 2 :> <<"s">>)],
  DefaultBlockCount <- 3, MaxRetries <- 2, MaxReorgs <- 2,
  Faults <- {"transport", "envelope", "signal", "disk"}, pc <- at, from <- first

Verify == INSTANCE SnapshotVerify WITH
  Roots <- {"r1", "r2"}, MaxBlocks <- 5, MaxLines <- 4, pc <- at

ASSUME DataPartsAssumption ==
  Fetch!FetcherAssumption /\ Capture!CaptureAssumption /\ Verify!VerifyAssumption

-----------------------------------------------------------------------------
Unused == "unused"

NoFetch == slot = Unused /\ errs = Unused /\ result = Unused
NoDial ==
  /\ cfg = Unused /\ expired = Unused /\ died = Unused
  /\ httpClient = Unused /\ wsClient = Unused /\ ret = Unused
NoStore == Init /\ bad = {}
NoCapture ==
  /\ opts = Unused /\ attempt = Unused /\ to = Unused
  /\ num = Unused /\ receipts = Unused /\ blocks = Unused
  /\ interrupted = Unused /\ fixtures = Unused
NoVerify ==
  /\ roots = Unused /\ key = Unused /\ hashes = Unused /\ sig = Unused
  /\ sidecar = Unused /\ lines = Unused /\ verdict = Unused
NoChain == canon = Unused /\ reorgs = Unused /\ block = Unused
NoCtx   == ctx = Unused

FetchInit ==
  /\ part = "fetch" /\ Fetch!Init
  /\ NoDial /\ NoStore /\ NoCapture /\ NoVerify /\ failure = Unused /\ first = Unused
DialInit ==
  /\ part = "dial" /\ Dial!Init
  /\ NoFetch /\ NoStore /\ NoCapture /\ NoVerify /\ NoChain /\ first = Unused
StoreInit ==
  /\ part = "store" /\ Init
  /\ NoFetch /\ NoDial /\ NoCapture /\ NoVerify /\ NoChain /\ NoCtx
  /\ at = Unused /\ failure = Unused /\ first = Unused
CaptureInit ==
  /\ part = "capture" /\ Capture!Init
  /\ NoFetch /\ NoDial /\ NoStore /\ NoVerify /\ failure = Unused
VerifyInit ==
  /\ part = "verify" /\ Verify!Init
  /\ NoFetch /\ NoDial /\ NoStore /\ NoCapture /\ NoChain /\ NoCtx
  /\ failure = Unused /\ first = Unused

PartsInit == FetchInit \/ DialInit \/ StoreInit \/ CaptureInit \/ VerifyInit

FetchPart ==
  /\ part = "fetch" /\ Fetch!Next
  /\ UNCHANGED <<part, vars, dialVars, captureVars, verifyVars, failure, first>>

DialPart ==
  /\ part = "dial" /\ Dial!Next
  /\ UNCHANGED <<part, vars, fetchVars, captureVars, verifyVars, chainVars, first>>

\* The store rests when the height has been stored as often as the bound allows.
StorePart ==
  /\ part = "store"
  /\ \/ Next
     \/ pc = "idle" /\ calls = MaxCalls /\ signer = NoSigner /\ UNCHANGED vars
  /\ UNCHANGED <<part, fetchVars, dialVars, captureVars, verifyVars, chainVars, ctx,
                 at, failure, first>>

CapturePart ==
  /\ part = "capture" /\ Capture!Next
  /\ UNCHANGED <<part, vars, fetchVars, dialVars, verifyVars, failure>>

VerifyPart ==
  /\ part = "verify" /\ Verify!Next
  /\ UNCHANGED <<part, vars, fetchVars, dialVars, captureVars, chainVars, ctx,
                 failure, first>>

PartsNext == FetchPart \/ DialPart \/ StorePart \/ CapturePart \/ VerifyPart

\* The fairness of Fetcher, RPCDial, BlockStore and FixtureCapture, in their parts.
fetching  == <<fetchVars, chainVars, at, ctx>>
dialing   == <<dialVars, at, failure, ctx>>
capturing == <<captureVars, chainVars, at, first, ctx>>
Fairness ==
  /\ WF_fetching(part = "fetch" /\ Fetch!WorkerNext)
  /\ WF_dialing(part = "dial" /\ Dial!Constructor)
  /\ WF_dialing(part = "dial" /\ Dial!DialTimesOut)
  /\ WF_dialing(part = "dial" /\ Dial!Expire)
  /\ WF_vars(part = "store" /\ StoreNext)
  /\ WF_vars(part = "store" /\ SignerNext)
  /\ WF_capturing(part = "capture" /\ Capture!Tool)

PartsSpec == PartsInit /\ [][PartsNext]_partsVars /\ Fairness

-----------------------------------------------------------------------------
(* Properties, besides those of BlockStore                                 *)

\* "The receipts are pinned to the fetched block's own hash" (fetcher.go:124): a
\* converted block is exactly the documents of one block of one branch.
ConvertedIsOneBlock == part = "fetch" => Fetch!ConvertedIsOneBlock

\* A WebSocket dial ended by the caller's context makes the constructor return
\* the abort error (ethereum_client.go:197-198).
AbortIsReported == part = "dial" => Dial!AbortIsReported

\* "the fixture name never promises a range the file does not contain"
\* (main.go:347-348), and a fixture is partial exactly when blocks are missing;
\* "Serving null or partial receipts to the replay would time a block without
\* its receipt work" (main.go:389-391): one receipt per transaction.
FixtureIsWhole ==
  part = "capture" => Capture!FixtureMatchesName /\ Capture!ReceiptsComplete


\* The state predicates of the liveness properties, of one part each.
Of(x, P) == IF part = x THEN P ELSE FALSE

\* A fetch ends once the node serves some branch for good or the context is
\* cancelled: every error but not-found is bounded, and every goroutine leaves
\* its semaphore.  "When dialTimeout is positive, it bounds the WebSocket dial
\* phase" (ethereum_client.go:60-61): the constructor returns even if the endpoint
\* accepts connections and never answers.  A capture ends: every call has a bounded
\* number of attempts, and a signal ends the pauses between them.  A store call and
\* a signing goroutine end, whatever conflicts and missing CIDs they meet.
OperationsEnd ==
  /\ (<>[]Of("fetch", canon # Fetch!None) \/ <>Of("fetch", ctx = "cancelled"))
       => <>Of("fetch", at = "done")
  /\ Of("dial", cfg.timeout) ~> Of("dial", at = "returned")
  /\ Of("store", pc # "idle") ~> Of("store", pc = "idle")
  /\ Of("store", signer.pc # "none") ~> Of("store", signer.pc = "none")
  /\ Of("capture", TRUE) ~> Of("capture", at = "done")
=============================================================================
