----------------------------- MODULE Snapshotter -----------------------------
(***************************************************************************)
(* The snapshotter, src/pkg/snapshot: its loop exports aligned ranges of   *)
(* blocks to files, signs them and keeps the newest MaxSnapshots, while    *)
(* the indexer stores, signs and rolls back blocks, the pruner removes     *)
(* them, and the process stops, crashes and starts again.                  *)
(*                                                                         *)
(* A block is its height and its version (a height is stored again after a *)
(* rollback).  A block signature stands for its Merkle root.  A file is    *)
(* named by its range.                                                     *)
(***************************************************************************)
EXTENDS Integers, FiniteSets, FiniteSetsExt

CONSTANTS
  MinHeight, MaxHeight, \* bounds: the heights indexed
  BlocksPerFile,  \* values of cfg.BlocksPerFile a process may be started with
  MaxSnapshots,   \* cfg.MaxSnapshots, positive
  MaxRolls,       \* bound: rolled back blocks
  MaxProcs,       \* bound: processes
  MaxFails,       \* bound: failures
  Faults,         \* of which kinds: "query", "roots", "write", "sign", "remove",
                  \* "unsign", "hole", "late", "crash"
  Prunes          \* the pruner runs

ASSUME SnapshotterAssumption ==
  /\ MinHeight \in Nat /\ MaxHeight \in Nat /\ MaxSnapshots \in Nat \ {0}
  /\ BlocksPerFile \subseteq Nat \ {0} /\ BlocksPerFile # {}
  /\ MaxRolls \in Nat /\ MaxProcs \in Nat /\ MaxFails \in Nat /\ Prunes \in BOOLEAN

VARIABLES
  blocks,  \* visible blocks
  sigs,    \* visible block signatures
  next, rolls,
  files,   \* snapshot files on disk
  sigDocs, \* SnapshotSignature documents
  pc,      \* where the snapshotter's goroutine is
  bpf,     \* cfg.BlocksPerFile of this process
  last,    \* lastSnapshotBlock
  lo, hi,  \* lowest and highest stored block, as read in this cycle
  cur,     \* the file being written
  todo,    \* expired files still to be removed, and the one being removed
  procs, fails

chainVars == <<blocks, sigs, next, rolls>>
diskVars  == <<files, sigDocs>>
cycleVars == <<pc, bpf, last, lo, hi, cur, todo>>
vars == <<chainVars, diskVars, cycleVars, procs, fails>>

Heights == MinHeight .. MaxHeight
Block   == [h : Heights, v : 0 .. MaxRolls]
Span    == [start : Int, end : Int]
File    == [range : Span, blocks : SUBSET Block, sigs : SUBSET Block, roots : SUBSET Block]
SigDoc  == [range : Span, roots : SUBSET Block]

NoFile == [range |-> [start |-> 0, end |-> 0], blocks |-> {}, sigs |-> {}, roots |-> {}]

Within(S, r) == {b \in S : b.h \in r.start .. r.end}
Stored == {b.h : b \in blocks}

Init ==
  /\ blocks = {} /\ sigs = {} /\ next = MinHeight /\ rolls = 0
  /\ files = {} /\ sigDocs = {}
  /\ pc = "down" /\ bpf \in BlocksPerFile /\ last = 0 /\ lo = 0 /\ hi = 0
  /\ cur = NoFile /\ todo = {} /\ procs = 0 /\ fails = 0

MayFail(kind) == kind \in Faults /\ fails < MaxFails /\ fails' = fails + 1

-----------------------------------------------------------------------------
(* The indexer and the pruner, as far as the snapshotter sees them         *)

\* A block is stored and signed; a failed store leaves a hole, and a block may
\* be signed later, by SignExisting.
Index ==
  /\ next <= MaxHeight /\ next' = next + 1
  /\ LET b == [h |-> next, v |-> rolls]
     IN  \/ blocks' = blocks \cup {b} /\ sigs' = sigs \cup {b} /\ UNCHANGED fails
         \/ blocks' = blocks \cup {b} /\ UNCHANGED sigs /\ MayFail("late")
         \/ UNCHANGED <<blocks, sigs>> /\ MayFail("hole")
  /\ UNCHANGED <<rolls, diskVars, cycleVars, procs>>

LateSign ==
  /\ "late" \in Faults
  /\ \E b \in blocks \ sigs : sigs' = sigs \cup {b}
  /\ UNCHANGED <<blocks, next, rolls, diskVars, cycleVars, procs, fails>>

Rollback ==
  /\ rolls < MaxRolls /\ Stored # {}
  /\ LET top == Max(Stored)
     IN  /\ blocks' = {b \in blocks : b.h # top} /\ sigs' = {b \in sigs : b.h # top}
         /\ next' = top
  /\ rolls' = rolls + 1
  /\ UNCHANGED <<diskVars, cycleVars, procs, fails>>

\* A purge takes the block documents first, then the signatures.
Prune ==
  /\ Prunes
  /\ \/ /\ Cardinality(Stored) > 1
        /\ blocks' = {b \in blocks : b.h # Min(Stored)} /\ UNCHANGED sigs
     \/ /\ \E s \in sigs : s \notin blocks /\ sigs' = sigs \ {s}
        /\ UNCHANGED blocks
  /\ UNCHANGED <<next, rolls, diskVars, cycleVars, procs, fails>>

-----------------------------------------------------------------------------
(* Process start and stop                                                  *)

\* scanExisting: the highest block of the file names.
ScanExisting == Max({f.range.end : f \in files} \cup {0})

\* Start scans the directory and enforces the limit, then runs the loop.
Start ==
  /\ pc = "down" /\ procs < MaxProcs
  /\ procs' = procs + 1 /\ bpf' \in BlocksPerFile
  /\ last' = ScanExisting /\ pc' = "limit"
  /\ UNCHANGED <<chainVars, diskVars, lo, hi, cur, todo, fails>>

\* Stop waits for the cycle to end; a crash does not.
Stop ==
  /\ procs < MaxProcs
  /\ \/ pc = "idle" /\ UNCHANGED fails
     \/ pc # "down" /\ MayFail("crash")
  /\ pc' = "down" /\ last' = 0 /\ lo' = 0 /\ hi' = 0 /\ cur' = NoFile /\ todo' = {}
  /\ UNCHANGED <<chainVars, diskVars, bpf, procs>>

-----------------------------------------------------------------------------
(* checkAndSnapshot                                                        *)

Tick ==
  /\ pc = "idle" /\ pc' = "low"
  /\ UNCHANGED <<chainVars, diskVars, bpf, last, lo, hi, cur, todo, procs, fails>>

\* The cycle ends with an error: a query, the export or the file fails.
CycleFails ==
  /\ \/ pc \in {"low", "high"} /\ MayFail("query")
     \/ pc \in {"list", "export", "rename"} /\ MayFail("write")
  /\ pc' = "idle" /\ lo' = 0 /\ hi' = 0 /\ cur' = NoFile
  /\ UNCHANGED <<chainVars, diskVars, bpf, last, todo, procs>>

\* The lowest stored block; none, or block 0, ends the cycle.
GetLowest ==
  /\ pc = "low"
  /\ IF Stored = {} \/ Min(Stored) = 0
     THEN pc' = "idle" /\ UNCHANGED lo
     ELSE pc' = "high" /\ lo' = Min(Stored)
  /\ UNCHANGED <<chainVars, diskVars, bpf, last, hi, cur, todo, procs, fails>>

AlignUp(h) == ((h + bpf - 1) \div bpf) * bpf

\* Mutant: the next range starts with the last file's last block.
NextStartMutant == IF last = 0 THEN AlignUp(lo) ELSE IF last < lo THEN AlignUp(lo) ELSE last

\* The start of the next range: behind the last file, or the next boundary if
\* there is none or the pruner has passed it.
NextStart ==
  IF last = 0 THEN AlignUp(lo) ELSE IF last + 1 < lo THEN AlignUp(lo) ELSE last + 1

\* Mutant: a range whose last block is the highest one is left for later.
RangeIsThereMutant(end) == end < hi

RangeIsThere(end) == end <= hi

\* The highest stored block.
GetHighest ==
  /\ pc = "high"
  /\ IF Stored = {} \/ Max(Stored) = 0
     THEN pc' = "idle" /\ lo' = 0 /\ UNCHANGED hi
     ELSE pc' = "range" /\ hi' = Max(Stored) /\ UNCHANGED lo
  /\ UNCHANGED <<chainVars, diskVars, bpf, last, cur, todo, procs, fails>>

\* nextSnapshotRange.
NextSnapshotRange ==
  /\ pc = "range"
  /\ LET end == NextStart + bpf - 1
     IN  IF RangeIsThere(end)
         THEN /\ cur' = [NoFile EXCEPT !.range = [start |-> NextStart, end |-> end]]
              /\ pc' = "roots"
         ELSE pc' = "idle" /\ UNCHANGED cur
  /\ lo' = 0 /\ hi' = 0
  /\ UNCHANGED <<chainVars, diskVars, bpf, last, todo, procs, fails>>

\* getBlockSigMerkleRoots for the header; a failure is logged.
GetRoots ==
  /\ pc = "roots" /\ pc' = "list"
  /\ \/ cur' = [cur EXCEPT !.roots = Within(sigs, cur.range)] /\ UNCHANGED fails
     \/ UNCHANGED cur /\ MayFail("roots")
  /\ UNCHANGED <<chainVars, diskVars, bpf, last, lo, hi, todo, procs>>

\* exportCollectionKVs: GetDocIDsByBlockRange lists the documents ...
ListDocs ==
  /\ pc = "list" /\ pc' = "export"
  /\ cur' = [cur EXCEPT !.blocks = Within(blocks, cur.range), !.sigs = Within(sigs, cur.range)]
  /\ UNCHANGED <<chainVars, diskVars, bpf, last, lo, hi, todo, procs, fails>>

\* ... and ExportDocKVs writes those that are still there.
Export ==
  /\ pc = "export" /\ pc' = "rename"
  /\ cur' = [cur EXCEPT !.blocks = @ \cap blocks, !.sigs = @ \cap sigs]
  /\ UNCHANGED <<chainVars, diskVars, bpf, last, lo, hi, todo, procs, fails>>

\* The temporary file is renamed.
Rename ==
  /\ pc = "rename" /\ pc' = "sign"
  /\ files' = {f \in files : f.range # cur.range} \cup {cur}
  /\ UNCHANGED <<chainVars, sigDocs, bpf, last, lo, hi, cur, todo, procs, fails>>

\* Mutant: the roots are queried again for the signature.
SignedRootsMutant == Within(sigs, cur.range)

SignedRoots == cur.roots

\* signSnapshotWithRoots: no roots, no identity or a failed write leave the file
\* unsigned, and none of these is an error.
Sign ==
  /\ pc = "sign" /\ pc' = "limit"
  /\ \/ /\ cur.roots # {} /\ UNCHANGED fails
        /\ sigDocs' = sigDocs \cup {[range |-> cur.range, roots |-> SignedRoots]}
     \/ cur.roots = {} /\ UNCHANGED <<sigDocs, fails>>
     \/ cur.roots # {} /\ UNCHANGED sigDocs /\ MayFail("sign")
  /\ last' = cur.range.end
  /\ UNCHANGED <<chainVars, files, bpf, lo, hi, cur, todo, procs>>

-----------------------------------------------------------------------------
(* enforceSnapshotLimit                                                    *)

\* Mutant: the newest files are taken for the oldest.
OlderMutant(f, g) == f.range.start > g.range.start

Older(f, g) == f.range.start < g.range.start

\* ListSnapshots sorts by start block; all but the newest MaxSnapshots expire.
Expired ==
  {f \in files : Cardinality({g \in files : Older(f, g)}) >= MaxSnapshots}

EnforceLimit ==
  /\ pc = "limit"
  /\ todo' = Expired /\ cur' = NoFile
  /\ pc' = IF Expired = {} THEN "idle" ELSE "remove"
  /\ UNCHANGED <<chainVars, diskVars, bpf, last, lo, hi, procs, fails>>

\* An expired file is removed; a failure skips it.
RemoveFile ==
  /\ pc = "remove"
  /\ IF todo = {}
     THEN pc' = "idle" /\ cur' = NoFile /\ UNCHANGED <<files, todo, fails>>
     ELSE \E f \in todo :
            /\ \A g \in todo : ~Older(g, f)
            /\ todo' = todo \ {f} /\ cur' = f
            /\ \/ files' = files \ {f} /\ pc' = "unsign" /\ UNCHANGED fails
               \/ MayFail("remove") /\ UNCHANGED <<files, pc>>
  /\ UNCHANGED <<chainVars, sigDocs, bpf, last, lo, hi, procs>>

\* deleteSnapshotSignatureDoc purges the documents of the file, or logs why not.
DeleteSigDoc ==
  /\ pc = "unsign" /\ pc' = "remove"
  /\ \/ sigDocs' = {d \in sigDocs : d.range # cur.range} /\ UNCHANGED fails
     \/ MayFail("unsign") /\ UNCHANGED sigDocs
  /\ UNCHANGED <<chainVars, files, bpf, last, lo, hi, cur, todo, procs>>

ChainNext == Index \/ LateSign \/ Rollback \/ Prune
CycleNext ==
  \/ Tick \/ CycleFails \/ GetLowest \/ GetHighest \/ NextSnapshotRange \/ GetRoots
  \/ ListDocs \/ Export \/ Rename \/ Sign \/ EnforceLimit \/ RemoveFile \/ DeleteSigDoc

Next == ChainNext \/ Start \/ Stop \/ CycleNext

Spec == Init /\ [][Next]_vars

\* The loop's ticker keeps firing, DefraDB calls return, and a stopped process
\* is started again.
FairSpec == Spec /\ WF_vars(CycleNext) /\ WF_vars(Start)

-----------------------------------------------------------------------------
(* Properties                                                              *)

\* The variables have their types.
TypeOK ==
  /\ blocks \subseteq Block /\ sigs \subseteq Block
  /\ next \in MinHeight .. MaxHeight + 1 /\ rolls \in 0 .. MaxRolls
  /\ files \subseteq File /\ sigDocs \subseteq SigDoc
  /\ pc \in {"down", "idle", "low", "high", "range", "roots", "list", "export",
             "rename", "sign", "limit", "remove", "unsign"}
  /\ bpf \in BlocksPerFile /\ last \in 0 .. MaxHeight
  /\ lo \in {0} \cup Heights /\ hi \in {0} \cup Heights
  /\ cur \in File /\ todo \subseteq File
  /\ procs \in 0 .. MaxProcs /\ fails \in 0 .. MaxFails

\* No height is in two files, whatever crashes between a rename and the update
\* of lastSnapshotBlock, and however the pruner makes a range skip ahead.
FilesDisjoint ==
  \A f, g \in files : f # g => f.range.end < g.range.start \/ g.range.end < f.range.start

\* "Ranges are aligned to multiples of blocks_per_file" (snapshot.go:345).
FilesAligned ==
  \A f \in files : f.range.start % (f.range.end - f.range.start + 1) = 0

\* A signature document says what the header of its file says: it names the
\* roots the file was written with, or its file is gone.
SignsItsFile ==
  \A d \in sigDocs : \A f \in files : f.range = d.range => d.roots = f.roots

\* A file leaves the disk only while MaxSnapshots newer ones are there, so
\* neither failed removals nor restarts ever cost a snapshot that should stay.
KeepsNewest ==
  [][\A f \in files \ files' :
       Cardinality({g \in files' : g.range.start > f.range.start}) >= MaxSnapshots]_vars

\* A full aligned range that stays stored is snapshotted: the loop never stalls,
\* not after errors, restarts and skipped ranges.
Due(s) == s % bpf = 0 /\ s > last /\ \A h \in s .. s + bpf - 1 : h \in Stored
Taken(s) == last >= s \/ \E h \in s .. s + bpf - 1 : h \notin Stored
RangeIsSnapshotted == \A s \in Heights : Due(s) ~> Taken(s)

\* "The entire aligned range must be present in the DB." (snapshot.go:369)
FilesComplete ==
  \A f \in files : \A h \in f.range.start .. f.range.end : \E b \in f.blocks : b.h = h

\* "This avoids re-querying roots (which could race with concurrent block
\* commits)" (signing.go:318): the signed roots are those of the block
\* signatures in the file.
RootsMatchContent == \A f \in files : f.roots = f.sigs

\* "so no orphaned metadata accumulates in DefraDB" (purge.go:75): once the loop
\* is idle, every signature document has its file.
NoOrphanedSignature == pc = "idle" => \A d \in sigDocs : \E f \in files : f.range = d.range
=============================================================================
