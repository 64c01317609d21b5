-------------------------- MODULE SnapshotterProofs --------------------------
(* Theorems about Snapshotter, for every chain, every file size a process may *)
(* be started with, every limit and every fault.                              *)
EXTENDS Snapshotter, FiniteSetTheorems, WellFoundedInduction, TLAPS

\* A set of naturals that is not empty has a least element.
LEMMA LeastNatural ==
  ASSUME NEW S \in SUBSET Nat, S # {}
  PROVE  \E x \in S : \A y \in S : x <= y
<1>1. PICK x \in S : \A y \in S : ~(<<y, x>> \in OpToRel(<, Nat))
  BY NatLessThanWellFounded, WFMin
<1>2. \A y \in S : ~(y < x)
  BY <1>1 DEF OpToRel
<1>3. QED
  BY <1>2

\* Max and Min are what their names say on the bounded sets of the snapshotter.
LEMMA MaxOfBounded ==
  ASSUME NEW n \in Nat, NEW S \in SUBSET (0 .. n), S # {}
  PROVE  Max(S) \in S /\ \A y \in S : y <= Max(S)
<1> DEFINE D == {d \in 0 .. n : n - d \in S}
<1>1. D \in SUBSET Nat
  OBVIOUS
<1>2. \A y \in S : n - y \in D
  <2> TAKE y \in S
  <2>1. y \in 0 .. n
    OBVIOUS
  <2>2. n - y \in 0 .. n /\ n - (n - y) = y
    BY <2>1
  <2>3. QED
    BY <2>2
<1>3. PICK d \in D : \A e \in D : d <= e
  BY <1>1, <1>2, LeastNatural
<1>4. n - d \in S /\ \A y \in S : n - d >= y
  BY <1>2, <1>3
<1>5. \E x \in S : \A y \in S : x >= y
  BY <1>4
<1>6. Max(S) \in S /\ \A y \in S : Max(S) >= y
  BY <1>5 DEF Max
<1>7. QED
  BY <1>6

\* getLowestBlock: the least height of a nonempty set of heights exists.
LEMMA MinOfBounded ==
  ASSUME NEW S \in SUBSET Nat, S # {}
  PROVE  Min(S) \in S /\ \A y \in S : Min(S) <= y
<1>1. \E x \in S : \A y \in S : x =< y
  BY LeastNatural
<1>2. QED
  BY <1>1 DEF Min

\* AlignUp never goes below its argument.
LEMMA AlignUpAbove ==
  ASSUME NEW x \in Nat, bpf \in Nat \ {0}
  PROVE  AlignUp(x) \in Nat /\ AlignUp(x) >= x
BY DEF AlignUp

-----------------------------------------------------------------------------
(* The inductive invariant.                                                *)

\* A range of the chain.
RangeOK(r) == r.start \in Nat /\ r.end \in 0 .. MaxHeight /\ r.start <= r.end

\* A file under construction has the fields of a file.
Shaped(f) ==
  f = [range |-> f.range, blocks |-> f.blocks, sigs |-> f.sigs, roots |-> f.roots]

\* What the indexer has stored.
ChainInv ==
  /\ next \in Nat /\ next >= MinHeight
  /\ \A b \in blocks : b.h \in Heights

\* What the loop has read.
CycleInv ==
  /\ bpf \in BlocksPerFile /\ last \in 0 .. MaxHeight
  /\ pc \in {"high", "range"} => lo \in Nat \ {0}
  /\ pc = "range" => hi \in 0 .. MaxHeight
  /\ pc \notin {"remove", "unsign"} => todo = {}

\* lastSnapshotBlock is the end of the newest file except between the rename and
\* its update, where the file just written is the newest one; the range under
\* way lies above it.
FileInv ==
  /\ \A f \in files : RangeOK(f.range)
  /\ FilesDisjoint
  /\ pc \notin {"down", "sign"} => \A f \in files : f.range.end <= last
  /\ pc \in {"roots", "list", "export", "rename"} =>
       Shaped(cur) /\ RangeOK(cur.range) /\ cur.range.start > last
  /\ pc = "sign" => cur \in files /\ \A f \in files : f.range.end <= cur.range.end

\* A file that stays covers every signature, so no range is ever used again,
\* and a file is expired for as long as it waits for its removal.
SigInv ==
  /\ SignsItsFile
  /\ \A d \in sigDocs :
       d.range.end \in Nat /\ \E f \in files \ todo : d.range.end <= f.range.end
  /\ \A f \in todo : Cardinality({g \in files : Older(f, g)}) >= MaxSnapshots

SnapInv == ChainInv /\ CycleInv /\ FileInv /\ SigInv

\* Nothing is stored, written or signed when the first process starts.
LEMMA SnapInit == Init => SnapInv
BY SnapshotterAssumption
DEF Init, SnapInv, ChainInv, CycleInv, FileInv, SigInv, FilesDisjoint, SignsItsFile

\* The stored heights are a bounded set of naturals.
LEMMA StoredBounded ==
  ASSUME ChainInv
  PROVE  Stored \in SUBSET (0 .. MaxHeight)
BY SnapshotterAssumption DEF ChainInv, Stored, Heights

\* Stores, late signatures, rollbacks and purges keep the chain's heights.
LEMMA ChainKept ==
  ASSUME ChainInv, ChainNext
  PROVE  ChainInv'
<1>1. CASE Index
  <2>1. next \in Heights
    BY <1>1, SnapshotterAssumption DEF Index, Heights, ChainInv
  <2>2. next' = next + 1
    BY <1>1 DEF Index
  <2>3. \A b \in blocks' : b \in blocks \/ b.h = next
    BY <1>1 DEF Index
  <2>4. \A b \in blocks' : b.h \in Heights
    BY <2>1, <2>3 DEF ChainInv
  <2>5. next' \in Nat /\ next' >= MinHeight
    BY <2>2, SnapshotterAssumption DEF ChainInv
  <2>6. QED
    BY <2>4, <2>5 DEF ChainInv, Heights
<1>2. CASE LateSign
  BY <1>2 DEF LateSign, ChainInv, Heights
<1>3. CASE Rollback
  <2>1. blocks' \subseteq blocks /\ next' = Max(Stored) /\ Stored # {}
    BY <1>3 DEF Rollback
  <2>2. Max(Stored) \in Stored
    BY <2>1, StoredBounded, MaxOfBounded, SnapshotterAssumption
  <2>3. Max(Stored) \in Heights
    BY <2>2 DEF Stored, ChainInv
  <2>4. QED
    BY <2>1, <2>3, SnapshotterAssumption DEF ChainInv, Heights
<1>4. CASE Prune
  BY <1>4 DEF Prune, ChainInv, Heights
<1>5. QED
  BY <1>1, <1>2, <1>3, <1>4 DEF ChainNext

\* The next range starts above lastSnapshotBlock, whatever BlocksPerFile the
\* file before was written with.
LEMMA NextStartAbove ==
  ASSUME CycleInv, lo \in Nat \ {0}
  PROVE  NextStart \in Nat /\ NextStart > last
<1>1. bpf \in Nat \ {0} /\ last \in Nat
  BY SnapshotterAssumption DEF CycleInv
<1>2. AlignUp(lo) \in Nat /\ AlignUp(lo) >= lo
  BY <1>1, AlignUpAbove
<1>3. QED
  BY <1>1, <1>2 DEF NextStart

\* The steps that leave the files and their signatures alone.
Quiet == Tick \/ CycleFails \/ GetLowest \/ GetHighest \/ NextSnapshotRange
         \/ GetRoots \/ ListDocs \/ Export

\* The loop's reads and the preparation of a file.
LEMMA QuietStep ==
  ASSUME SnapInv, Quiet
  PROVE  SnapInv'
<1> USE DEF chainVars, diskVars
<1>1. UNCHANGED <<blocks, next, files, sigDocs, bpf, last, todo>>
  BY Zenon DEF Quiet, Tick, CycleFails, GetLowest, GetHighest, NextSnapshotRange,
       GetRoots, ListDocs, Export
<1>2. /\ pc \notin {"down", "sign", "remove", "unsign"}
      /\ pc' \notin {"down", "sign", "remove", "unsign"}
  BY DEF Quiet, Tick, CycleFails, GetLowest, GetHighest, NextSnapshotRange,
       GetRoots, ListDocs, Export
<1>3. ChainInv' /\ SigInv'
  BY <1>1 DEF SnapInv, ChainInv, SigInv, SignsItsFile, Heights, Older
<1>4. /\ \A f \in files' : RangeOK(f.range)
      /\ FilesDisjoint'
      /\ \A f \in files' : f.range.end <= last'
  BY <1>1, <1>2 DEF SnapInv, FileInv, FilesDisjoint, RangeOK
<1>5. /\ bpf' \in BlocksPerFile /\ last' \in 0 .. MaxHeight /\ todo' = {}
  BY <1>1, <1>2 DEF SnapInv, CycleInv
<1>6. SUFFICES
        /\ pc' \in {"high", "range"} => lo' \in Nat \ {0}
        /\ pc' = "range" => hi' \in 0 .. MaxHeight
        /\ pc' \in {"roots", "list", "export", "rename"} =>
             Shaped(cur') /\ RangeOK(cur'.range) /\ cur'.range.start > last'
  BY <1>2, <1>3, <1>4, <1>5 DEF SnapInv, CycleInv, FileInv, Shaped, RangeOK
<1>7. CASE Tick \/ CycleFails
  BY <1>7 DEF Tick, CycleFails
<1>8. CASE GetLowest
  <2>1. CASE pc' = "idle"
    BY <2>1
  <2>2. CASE pc' = "high" /\ lo' = Min(Stored) /\ Stored # {} /\ Min(Stored) # 0
    <3>1. Stored \in SUBSET (0 .. MaxHeight)
      BY StoredBounded DEF SnapInv
    <3>2. Min(Stored) \in Stored
      BY <2>2, <3>1, MinOfBounded, SnapshotterAssumption
    <3>3. lo' \in 0 .. MaxHeight /\ lo' # 0
      BY <2>2, <3>1, <3>2, Zenon
    <3>4. QED
      BY <2>2, <3>3
  <2>3. QED
    BY <1>8, <2>1, <2>2 DEF GetLowest
<1>9. CASE GetHighest
  <2>1. CASE pc' = "idle"
    BY <2>1
  <2>2. CASE pc' = "range" /\ hi' = Max(Stored) /\ Stored # {} /\ lo' = lo
    <3>1. Stored \in SUBSET (0 .. MaxHeight)
      BY StoredBounded DEF SnapInv
    <3>2. Max(Stored) \in Stored
      BY <2>2, <3>1, MaxOfBounded, SnapshotterAssumption
    <3>3. pc = "high"
      BY <1>9 DEF GetHighest
    <3>4. QED
      BY <2>2, <3>1, <3>2, <3>3 DEF SnapInv, CycleInv
  <2>3. QED
    BY <1>9, <2>1, <2>2 DEF GetHighest
<1>10. CASE NextSnapshotRange
  <2>1. CASE pc' = "idle"
    BY <2>1
  <2>2. CASE pc' = "roots"
    <3> DEFINE end == NextStart + bpf - 1
    <3>1. /\ pc = "range" /\ end <= hi
          /\ cur' = [NoFile EXCEPT !.range = [start |-> NextStart, end |-> end]]
      BY <1>10, <2>2 DEF NextSnapshotRange, RangeIsThere
    <3>2. NextStart \in Nat /\ NextStart > last
      BY <3>1, NextStartAbove DEF SnapInv, CycleInv
    <3>3. bpf \in Nat \ {0} /\ hi \in 0 .. MaxHeight
      BY <3>1, SnapshotterAssumption DEF SnapInv, CycleInv
    <3>4. cur' = [range |-> [start |-> NextStart, end |-> end], blocks |-> {},
                  sigs |-> {}, roots |-> {}]
      BY <3>1 DEF NoFile
    <3>5. Shaped(cur') /\ cur'.range = [start |-> NextStart, end |-> end]
      BY <3>4 DEF Shaped
    <3>6. end \in 0 .. MaxHeight /\ NextStart <= end
      BY <3>1, <3>2, <3>3, SnapshotterAssumption
    <3>7. RangeOK(cur'.range) /\ cur'.range.start > last'
      BY <1>1, <3>2, <3>5, <3>6 DEF RangeOK
    <3>8. QED
      BY <2>2, <3>5, <3>7
  <2>3. QED
    BY <1>10, <2>1, <2>2 DEF NextSnapshotRange
<1>11. CASE GetRoots \/ ListDocs \/ Export
  <2>1. /\ pc \in {"roots", "list", "export"} /\ pc' \in {"list", "export", "rename"}
        /\ Shaped(cur) /\ RangeOK(cur.range) /\ cur.range.start > last
    BY <1>11 DEF GetRoots, ListDocs, Export, SnapInv, FileInv
  <2>2. Shaped(cur') /\ cur'.range = cur.range
    <3>1. CASE cur' = cur
      BY <2>1, <3>1
    <3>2. ASSUME NEW x, cur' = [cur EXCEPT !.roots = x]
          PROVE  Shaped(cur') /\ cur'.range = cur.range
      BY <2>1, <3>2 DEF Shaped
    <3>3. ASSUME NEW x, NEW y, cur' = [cur EXCEPT !.blocks = x, !.sigs = y]
          PROVE  Shaped(cur') /\ cur'.range = cur.range
      BY <2>1, <3>3 DEF Shaped
    <3>4. QED
      BY <1>11, <3>1, <3>2, <3>3 DEF GetRoots, ListDocs, Export
  <2>3. QED
    BY <1>1, <2>1, <2>2
<1>12. QED
  BY <1>7, <1>8, <1>9, <1>10, <1>11 DEF Quiet

\* A process starts behind the newest file and stops or crashes anywhere.
LEMMA ProcessStep ==
  ASSUME SnapInv, Start \/ Stop
  PROVE  SnapInv'
<1> USE DEF chainVars, diskVars
<1>1. CASE Start
  <2>1. /\ UNCHANGED <<blocks, next, files, sigDocs, todo>>
        /\ pc = "down" /\ pc' = "limit" /\ bpf' \in BlocksPerFile
        /\ last' = ScanExisting
    BY <1>1 DEF Start
  <2> DEFINE Ends == {f.range.end : f \in files} \cup {0}
  <2>2. Ends \in SUBSET (0 .. MaxHeight) /\ Ends # {}
    BY SnapshotterAssumption DEF SnapInv, FileInv, RangeOK
  <2>3. Max(Ends) \in Ends /\ \A y \in Ends : y <= Max(Ends)
    BY <2>2, MaxOfBounded, SnapshotterAssumption
  <2>4. last' \in 0 .. MaxHeight /\ \A f \in files : f.range.end <= last'
    BY <2>1, <2>2, <2>3 DEF ScanExisting
  <2>5. ChainInv' /\ SigInv'
    BY <2>1 DEF SnapInv, ChainInv, SigInv, SignsItsFile, Heights, Older
  <2>6. CycleInv'
    BY <2>1, <2>4 DEF SnapInv, CycleInv
  <2>7. FileInv'
    BY <2>1, <2>4 DEF SnapInv, FileInv, FilesDisjoint, RangeOK
  <2>8. QED
    BY <2>5, <2>6, <2>7 DEF SnapInv
<1>2. CASE Stop
  <2>1. /\ UNCHANGED <<blocks, next, files, sigDocs, bpf>>
        /\ pc' = "down" /\ last' = 0 /\ todo' = {}
    BY <1>2 DEF Stop
  <2>2. ChainInv' /\ SigInv'
    BY <2>1 DEF SnapInv, ChainInv, SigInv, SignsItsFile, Heights, Older
  <2>3. CycleInv'
    BY <2>1, SnapshotterAssumption DEF SnapInv, CycleInv
  <2>4. FileInv'
    BY <2>1 DEF SnapInv, FileInv, FilesDisjoint, RangeOK
  <2>5. QED
    BY <2>2, <2>3, <2>4 DEF SnapInv
<1>3. QED
  BY <1>1, <1>2

\* The new file lies above all others, so the rename replaces none.
LEMMA RenameAdds ==
  ASSUME SnapInv, Rename
  PROVE  files' = files \cup {cur} /\ todo = {}
<1>1. /\ RangeOK(cur.range) /\ cur.range.start > last /\ last \in Nat /\ todo = {}
      /\ \A f \in files : RangeOK(f.range) /\ f.range.end <= last
  BY SnapshotterAssumption DEF Rename, SnapInv, FileInv, CycleInv
<1>2. \A f \in files : f.range.end < cur.range.end
  BY <1>1 DEF RangeOK
<1>3. \A f \in files : f.range # cur.range
  BY <1>1, <1>2 DEF RangeOK
<1>4. QED
  BY <1>1, <1>3 DEF Rename

\* The rename of a finished file keeps the invariant: the new range lies above
\* every range on disk (createKVSnapshot).
LEMMA RenameStep ==
  ASSUME SnapInv, Rename
  PROVE  SnapInv'
<1> USE DEF chainVars
<1>1. /\ UNCHANGED <<blocks, next, sigDocs, bpf, last, lo, hi, cur, todo>>
      /\ pc = "rename" /\ pc' = "sign" /\ files' = files \cup {cur} /\ todo = {}
  BY RenameAdds DEF Rename
<1>2. /\ RangeOK(cur.range) /\ cur.range.start > last /\ last \in Nat
      /\ \A f \in files : RangeOK(f.range) /\ f.range.end <= last
  BY <1>1, SnapshotterAssumption DEF SnapInv, FileInv, CycleInv
<1>3. \A f \in files : f.range.end < cur.range.start /\ f.range.end < cur.range.end
  BY <1>2 DEF RangeOK
<1>4. FileInv'
  <2>1. FilesDisjoint'
    BY <1>1, <1>3 DEF SnapInv, FileInv, FilesDisjoint
  <2>2. \A f \in files' : RangeOK(f.range) /\ f.range.end <= cur.range.end
    BY <1>1, <1>2, <1>3 DEF RangeOK
  <2>3. QED
    BY <1>1, <2>1, <2>2 DEF FileInv, RangeOK
<1>5. \A d \in sigDocs : d.range # cur.range
  <2> SUFFICES ASSUME NEW d \in sigDocs, d.range = cur.range PROVE FALSE
    OBVIOUS
  <2>1. PICK f \in files : d.range.end <= f.range.end
    BY DEF SnapInv, SigInv
  <2>2. QED
    BY <1>2, <1>3, <2>1 DEF RangeOK
<1>6. SignsItsFile'
  BY <1>1, <1>5 DEF SnapInv, SigInv, SignsItsFile
<1>7. \A d \in sigDocs' :
        d.range.end \in Nat /\ \E f \in files' \ todo' : d.range.end <= f.range.end
  BY <1>1 DEF SnapInv, SigInv
<1>8. SigInv'
  BY <1>1, <1>6, <1>7 DEF SigInv
<1>9. ChainInv' /\ CycleInv'
  BY <1>1 DEF SnapInv, ChainInv, CycleInv, Heights
<1>10. QED
  BY <1>4, <1>8, <1>9 DEF SnapInv

\* The signature names the roots of the file just renamed, and no other file
\* has its range.
LEMMA SignStep ==
  ASSUME SnapInv, Sign
  PROVE  SnapInv'
<1> USE DEF chainVars
<1>1. /\ UNCHANGED <<blocks, next, files, bpf, lo, hi, cur, todo>>
      /\ pc = "sign" /\ pc' = "limit" /\ last' = cur.range.end
      /\ \A d \in sigDocs' : d \in sigDocs \/ d = [range |-> cur.range, roots |-> cur.roots]
  BY DEF Sign, SignedRoots
<1>2. /\ cur \in files /\ todo = {} /\ RangeOK(cur.range)
      /\ \A f \in files : RangeOK(f.range) /\ f.range.end <= cur.range.end
  BY <1>1 DEF SnapInv, FileInv, CycleInv
<1>3. ChainInv'
  BY <1>1 DEF SnapInv, ChainInv, Heights
<1>4. CycleInv'
  BY <1>1, <1>2 DEF SnapInv, CycleInv, RangeOK
<1>5. FileInv'
  BY <1>1, <1>2 DEF SnapInv, FileInv, FilesDisjoint, RangeOK
<1>6. \A f \in files : f.range = cur.range => f = cur
  BY <1>2 DEF SnapInv, FileInv, FilesDisjoint, RangeOK
<1>7. SignsItsFile'
  <2> SUFFICES ASSUME NEW d \in sigDocs', NEW f \in files, f.range = d.range
               PROVE  d.roots = f.roots
    BY <1>1 DEF SignsItsFile
  <2>1. CASE d \in sigDocs
    BY <2>1 DEF SnapInv, SigInv, SignsItsFile
  <2>2. CASE d = [range |-> cur.range, roots |-> cur.roots]
    BY <1>6, <2>2
  <2>3. QED
    BY <1>1, <2>1, <2>2
<1>8. \A d \in sigDocs' :
        d.range.end \in Nat /\ \E f \in files' \ todo' : d.range.end <= f.range.end
  <2> SUFFICES ASSUME NEW d \in sigDocs'
               PROVE  d.range.end \in Nat /\ \E f \in files \ todo : d.range.end <= f.range.end
    BY <1>1
  <2>1. CASE d \in sigDocs
    BY <2>1 DEF SnapInv, SigInv
  <2>2. CASE d = [range |-> cur.range, roots |-> cur.roots]
    BY <1>2, <2>2 DEF RangeOK
  <2>3. QED
    BY <1>1, <2>1, <2>2
<1>9. SigInv'
  BY <1>1, <1>2, <1>7, <1>8 DEF SigInv
<1>10. QED
  BY <1>3, <1>4, <1>5, <1>9 DEF SnapInv

\* The newest file never expires.
LEMMA NewestStays ==
  ASSUME SnapInv, NEW f \in files
  PROVE  \E g \in files \ Expired : f.range.end <= g.range.end
<1> DEFINE Ends == {g.range.end : g \in files}
<1>1. Ends \in SUBSET (0 .. MaxHeight) /\ Ends # {}
  BY DEF SnapInv, FileInv, RangeOK
<1>2. Max(Ends) \in Ends /\ \A y \in Ends : y <= Max(Ends)
  BY <1>1, MaxOfBounded, SnapshotterAssumption
<1>3. PICK g \in files : Max(Ends) = g.range.end
  BY <1>2
<1>4. \A k \in files : k.range.end <= g.range.end
  BY <1>2, <1>3
<1>5. \A k \in files : ~Older(g, k)
  BY <1>4 DEF SnapInv, FileInv, FilesDisjoint, RangeOK, Older
<1>6. {k \in files : Older(g, k)} = {}
  BY <1>5
<1>7. Cardinality({k \in files : Older(g, k)}) = 0
  BY <1>6, FS_EmptySet
<1>8. g \notin Expired
  BY <1>7, SnapshotterAssumption DEF Expired
<1>9. QED
  BY <1>4, <1>8

\* The limit is enforced: what expires is fixed, and what stays covers the
\* signatures.
LEMMA LimitStep ==
  ASSUME SnapInv, EnforceLimit
  PROVE  SnapInv'
<1> USE DEF chainVars, diskVars
<1>1. /\ UNCHANGED <<blocks, next, files, sigDocs, bpf, last, lo, hi>>
      /\ pc = "limit" /\ todo' = Expired
      /\ pc' = IF Expired = {} THEN "idle" ELSE "remove"
  BY DEF EnforceLimit
<1>2. ChainInv'
  BY <1>1 DEF SnapInv, ChainInv, Heights
<1>3. CycleInv'
  BY <1>1 DEF SnapInv, CycleInv
<1>4. FileInv'
  BY <1>1 DEF SnapInv, FileInv, FilesDisjoint, RangeOK
<1>5. \A d \in sigDocs :
        d.range.end \in Nat /\ \E g \in files \ Expired : d.range.end <= g.range.end
  <2> TAKE d \in sigDocs
  <2>1. PICK f \in files : d.range.end <= f.range.end
    BY DEF SnapInv, SigInv
  <2>2. PICK g \in files \ Expired : f.range.end <= g.range.end
    BY NewestStays
  <2>3. QED
    BY <2>1, <2>2 DEF SnapInv, SigInv, FileInv, RangeOK
<1>6. \A f \in todo' : Cardinality({g \in files' : Older(f, g)}) >= MaxSnapshots
  BY <1>1 DEF Expired, Older
<1>7. SigInv'
  BY <1>1, <1>5, <1>6 DEF SnapInv, SigInv, SignsItsFile, Older
<1>8. QED
  BY <1>2, <1>3, <1>4, <1>7 DEF SnapInv

\* The oldest expired file goes first, so its removal takes no newer file from
\* the others that wait.
LEMMA RemoveStep ==
  ASSUME SnapInv, RemoveFile
  PROVE  /\ SnapInv'
         /\ \A f \in files \ files' :
              Cardinality({g \in files' : g.range.start > f.range.start}) >= MaxSnapshots
<1> USE DEF chainVars
<1>1. UNCHANGED <<blocks, next, sigDocs, bpf, last, lo, hi>> /\ pc = "remove"
  BY DEF RemoveFile
<1>2. ChainInv'
  BY <1>1 DEF SnapInv, ChainInv, Heights
<1>3. CASE todo = {}
  <2>1. pc' = "idle" /\ UNCHANGED <<files, todo>>
    BY <1>3 DEF RemoveFile
  <2>2. CycleInv' /\ FileInv' /\ SigInv'
    BY <1>1, <1>3, <2>1
    DEF SnapInv, CycleInv, FileInv, SigInv, FilesDisjoint, SignsItsFile, RangeOK, Older
  <2>3. QED
    BY <1>2, <2>1, <2>2 DEF SnapInv
<1>4. CASE todo # {}
  <2>1. PICK f \in todo :
          /\ \A g \in todo : ~Older(g, f)
          /\ todo' = todo \ {f} /\ pc' \in {"remove", "unsign"}
          /\ files' = files \ {f} \/ files' = files
    BY <1>1, <1>4 DEF RemoveFile
  <2>2. CycleInv'
    BY <1>1, <2>1 DEF SnapInv, CycleInv
  <2>3. FileInv'
    BY <1>1, <2>1 DEF SnapInv, FileInv, FilesDisjoint, RangeOK
  <2>4. \A k \in todo : {g \in files' : Older(k, g)} = {g \in files : Older(k, g)}
    BY <2>1
  <2>5. \A k \in todo : Cardinality({g \in files' : Older(k, g)}) >= MaxSnapshots
    BY <2>4 DEF SnapInv, SigInv
  <2>6. files \ todo \subseteq files' \ todo'
    BY <2>1
  <2>7. SigInv'
    <3>1. SignsItsFile'
      BY <1>1, <2>1 DEF SnapInv, SigInv, SignsItsFile
    <3>2. \A d \in sigDocs' :
            d.range.end \in Nat /\ \E g \in files' \ todo' : d.range.end <= g.range.end
      BY <1>1, <2>6 DEF SnapInv, SigInv
    <3>3. QED
      BY <2>1, <2>5, <3>1, <3>2 DEF SigInv, Older
  <2>8. f \in files /\ files' = files \ {f} =>
          {g \in files' : g.range.start > f.range.start} = {g \in files' : Older(f, g)}
    BY DEF SnapInv, FileInv, RangeOK, Older
  <2>9. QED
    BY <1>2, <2>1, <2>2, <2>3, <2>5, <2>7, <2>8 DEF SnapInv
<1>5. QED
  BY <1>3, <1>4

\* deleteSnapshotSignatureDoc only takes signatures away.
LEMMA UnsignStep ==
  ASSUME SnapInv, DeleteSigDoc
  PROVE  SnapInv'
<1> USE DEF chainVars
<1>1. /\ UNCHANGED <<blocks, next, files, bpf, last, lo, hi, cur, todo>>
      /\ pc = "unsign" /\ pc' = "remove" /\ sigDocs' \subseteq sigDocs
  BY DEF DeleteSigDoc
<1>2. ChainInv' /\ CycleInv'
  BY <1>1 DEF SnapInv, ChainInv, CycleInv, Heights
<1>3. FileInv' /\ SigInv'
  BY <1>1 DEF SnapInv, FileInv, SigInv, FilesDisjoint, SignsItsFile, RangeOK, Older
<1>4. QED
  BY <1>2, <1>3 DEF SnapInv

\* The indexer and the pruner touch no file.
LEMMA ChainStep ==
  ASSUME SnapInv, ChainNext
  PROVE  SnapInv' /\ files' = files
<1>1. UNCHANGED <<files, sigDocs, pc, bpf, last, lo, hi, cur, todo>>
  BY Zenon DEF ChainNext, Index, LateSign, Rollback, Prune, diskVars, cycleVars
<1>2. ChainInv'
  BY ChainKept DEF SnapInv
<1>3. CycleInv' /\ FileInv'
  BY <1>1 DEF SnapInv, CycleInv, FileInv, FilesDisjoint, RangeOK, Shaped
<1>4. SigInv'
  BY <1>1 DEF SnapInv, SigInv, SignsItsFile, Older
<1>5. QED
  BY <1>1, <1>2, <1>3, <1>4 DEF SnapInv

\* Every step keeps the invariant, and only an expired file leaves the disk.
LEMMA SnapStep ==
  ASSUME SnapInv, [Next]_vars
  PROVE  /\ SnapInv'
         /\ \A f \in files \ files' :
              Cardinality({g \in files' : g.range.start > f.range.start}) >= MaxSnapshots
<1>1. CASE RemoveFile
  BY <1>1, RemoveStep
<1>2. CASE Quiet
  <2>1. files' = files
    BY <1>2, Zenon DEF Quiet, Tick, CycleFails, GetLowest, GetHighest,
         NextSnapshotRange, GetRoots, ListDocs, Export, diskVars
  <2>2. QED
    BY <1>2, <2>1, QuietStep
<1>3. CASE Start \/ Stop
  <2>1. files' = files
    BY <1>3, Zenon DEF Start, Stop, diskVars
  <2>2. QED
    BY <1>3, <2>1, ProcessStep
<1>4. CASE Rename
  BY <1>4, RenameStep, RenameAdds
<1>5. CASE Sign
  BY <1>5, SignStep DEF Sign
<1>6. CASE EnforceLimit
  BY <1>6, LimitStep DEF EnforceLimit, diskVars
<1>7. CASE DeleteSigDoc
  BY <1>7, UnsignStep DEF DeleteSigDoc
<1>8. CASE ChainNext
  BY <1>8, ChainStep
<1>9. CASE UNCHANGED vars
  <2>1. UNCHANGED <<blocks, next, files, sigDocs, pc, bpf, last, lo, hi, cur, todo>>
    BY <1>9 DEF vars, chainVars, diskVars, cycleVars
  <2>2. ChainInv' /\ CycleInv' /\ FileInv'
    BY <2>1 DEF SnapInv, ChainInv, CycleInv, FileInv, FilesDisjoint, RangeOK,
                Shaped, Heights
  <2>3. SigInv'
    BY <2>1 DEF SnapInv, SigInv, SignsItsFile, Older
  <2>4. QED
    BY <2>1, <2>2, <2>3 DEF SnapInv
<1>10. QED
  BY <1>1, <1>2, <1>3, <1>4, <1>5, <1>6, <1>7, <1>8, <1>9 DEF Next, CycleNext, Quiet

\* The invariant holds of every run.
LEMMA SnapInvariance == Spec => []SnapInv
<1>1. SnapInv /\ [Next]_vars => SnapInv'
  BY SnapStep
<1>2. QED
  BY <1>1, SnapInit, PTL DEF Spec

\* No height is ever in two snapshot files, although each process may run with
\* another blocks_per_file and may crash between rename and bookkeeping.
THEOREM FilesAreDisjoint == Spec => []FilesDisjoint
<1>1. SnapInv => FilesDisjoint
  BY DEF SnapInv, FileInv
<1>2. QED
  BY <1>1, SnapInvariance, PTL

\* A signature document agrees with the header of its file, also when the
\* documents of removed files were left behind.
THEOREM SignaturesMatchFiles == Spec => []SignsItsFile
<1>1. SnapInv => SignsItsFile
  BY DEF SnapInv, SigInv
<1>2. QED
  BY <1>1, SnapInvariance, PTL

\* enforceSnapshotLimit never costs one of the MaxSnapshots newest files.
THEOREM NewestAreKept == Spec => KeepsNewest
<1>1. SnapInv /\ [Next]_vars =>
        [\A f \in files \ files' :
           Cardinality({g \in files' : g.range.start > f.range.start}) >= MaxSnapshots]_vars
  BY SnapStep
<1>2. QED
  BY <1>1, SnapInvariance, PTL DEF Spec, KeepsNewest

=============================================================================
