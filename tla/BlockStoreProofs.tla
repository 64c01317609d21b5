-------------------------- MODULE BlockStoreProofs --------------------------
(***************************************************************************)
(* Theorems about BlockStore, for every block, every batch size and every  *)
(* bound: what is signed, what the collector holds, what the links point   *)
(* to and what the pruner's queue is told.                                 *)
(***************************************************************************)
EXTENDS BlockStore, FiniteSetTheorems, SequenceTheorems, TLAPS

(* Sequences and the sets of their members.                                *)

\* What a sequence holds.
LEMMA SetOfSeq ==
  ASSUME NEW S, NEW s \in Seq(S)
  PROVE  /\ Range(s) \subseteq S
         /\ \A i \in 1 .. Len(s) : s[i] \in Range(s)
         /\ \A x \in Range(s) : \E i \in 1 .. Len(s) : s[i] = x
BY DEF Range

\* A sequence without repetition has as many elements as its set.
LEMMA InjectiveLength ==
  ASSUME NEW S, NEW s \in Seq(S), IsInjective(s)
  PROVE  IsFiniteSet(Range(s)) /\ Len(s) = Cardinality(Range(s))
<1>1. Len(s) \in Nat /\ DOMAIN s = 1 .. Len(s) /\ s \in [1 .. Len(s) -> Range(s)]
  BY DEF Range
<1>2. s \in Bijection(1 .. Len(s), Range(s))
  BY <1>1, SetOfSeq, Zenon DEF Bijection, Injection, Surjection
<1>3. QED
  BY <1>1, <1>2, FS_CountingElements, FS_NatBijection, Zenon DEF ExistsBijection

\* Listing lists a finite set, each element once.
LEMMA SeqOfSet ==
  ASSUME NEW S, IsFiniteSet(S)
  PROVE  /\ Listing(S) \in Seq(S) /\ Range(Listing(S)) = S
         /\ Len(Listing(S)) = Cardinality(S)
<1> DEFINE n == Cardinality(S)
           f == Listing(S)
<1>1. n \in Nat /\ ExistsBijection(1 .. n, S)
  BY FS_CardinalityType, Zenon
<1>2. \E g \in [1 .. n -> S] : IsInjective(g)
  BY <1>1, Zenon DEF ExistsBijection, Bijection, Injection
<1>3. f \in [1 .. n -> S] /\ IsInjective(f)
  BY <1>2, Zenon DEF Listing
<1> HIDE DEF f
<1>4. IsFiniteSet(1 .. n) /\ Cardinality(1 .. n) = n
  BY <1>1, FS_Interval
<1>5. f \in Surjection(1 .. n, S)
  BY <1>3, <1>4, FS_Injection, Zenon DEF Injection
<1>6. f \in Seq(S) /\ Len(f) = n /\ DOMAIN f = 1 .. n
  BY <1>1, <1>3
<1>7. Range(f) = S
  BY <1>5, <1>6, Zenon DEF Range, Surjection
<1>8. QED
  BY <1>6, <1>7, Zenon DEF f

(* The documents of the block.                                             *)

\* The document at a position of a group.
DocAt(g, i) == Doc(g, i, IF g <= 2 THEN 0 ELSE TxRefs[g][i])

\* The documents before a position, in the order they are written.
Before(g, i) == {d \in AllDocs : d.g < g \/ (d.g = g /\ d.i < i)}

\* Groups and their sizes are naturals.
LEMMA GroupSizes ==
  /\ Len(TxRefs) \in Nat /\ Len(TxRefs) >= 2 /\ Size(1) = 1
  /\ \A g \in Groups : g \in Nat /\ Size(g) \in Nat
  /\ 1 \in Groups /\ 2 \in Groups
  /\ \A g \in Groups : BatchSize[g] \in Nat /\ BatchSize[g] > 0
<1>1. TxRefs \in Seq(Seq(Nat)) /\ Len(TxRefs) >= 2 /\ Len(TxRefs[1]) = 1
      /\ BatchSize \in [1 .. Len(TxRefs) -> Nat \ {0}]
  BY StoreAssumption, Zenon
<1>2. \A g \in 1 .. Len(TxRefs) : TxRefs[g] \in Seq(Nat)
  BY <1>1
<1>3. \A g \in 1 .. Len(TxRefs) : Len(TxRefs[g]) \in Nat
  BY <1>2, LenProperties, Zenon
<1>4. \A g \in Groups : BatchSize[g] \in Nat /\ BatchSize[g] > 0
  <2>1. \A g \in Groups : BatchSize[g] \in Nat \ {0}
    BY <1>1, Zenon DEF Groups
  <2>2. QED
    BY <2>1
<1>5. QED
  BY <1>1, <1>3, <1>4 DEF Groups, Size

\* A document knows its group and its position.
LEMMA DocFields ==
  \A g, i : DocAt(g, i).g = g /\ DocAt(g, i).i = i
BY Zenon DEF DocAt, Doc

\* The block has one document at each position of each group.
LEMMA DocOfBlock ==
  \A d : d \in AllDocs <=> \E g \in Groups : \E i \in 1 .. Size(g) : d = DocAt(g, i)
BY DEF AllDocs, Expected, DocAt

\* The group and the position of a document.
LEMMA DocPlace ==
  ASSUME NEW d \in AllDocs
  PROVE  d.g \in Groups /\ d.i \in 1 .. Size(d.g) /\ d = DocAt(d.g, d.i)
<1>1. PICK g \in Groups : \E i \in 1 .. Size(g) : d = DocAt(g, i)
  BY DocOfBlock, Zenon
<1>2. PICK i \in 1 .. Size(g) : d = DocAt(g, i)
  BY <1>1, Zenon
<1>3. d.g = g /\ d.i = i
  BY <1>2, DocFields, Zenon
<1>4. QED
  BY <1>2, <1>3, Zenon

\* Before the transactions there is the block document only.
LEMMA BeforeTransactions == Before(2, 1) = {BlockDoc} /\ BlockDoc \in AllDocs
<1>1. BlockDoc = DocAt(1, 1)
  BY DEF BlockDoc, DocAt
<1>2. BlockDoc \in AllDocs
  BY <1>1, GroupSizes, DocOfBlock
<1>3. ASSUME NEW d \in Before(2, 1) PROVE d = BlockDoc
  <2>1. /\ d.g \in Groups /\ d.i \in 1 .. Size(d.g) /\ d = DocAt(d.g, d.i)
        /\ d.g < 2 \/ (d.g = 2 /\ d.i < 1)
    BY DocPlace, Zenon DEF Before
  <2>2. d.g = 1
    BY <2>1, GroupSizes DEF Groups
  <2>3. d.i = 1
    BY <2>1, <2>2, GroupSizes
  <2>4. QED
    BY <1>1, <2>1, <2>2, <2>3, Zenon
<1>4. BlockDoc.g < 2
  BY <1>1, DocFields
<1>5. QED
  BY <1>2, <1>3, <1>4, Zenon DEF Before

\* The end of a group is the start of the next one.
LEMMA BeforeNextGroup ==
  ASSUME NEW g \in Groups
  PROVE  Before(g, Size(g) + 1) = Before(g + 1, 1)
<1>1. ASSUME NEW d \in AllDocs
      PROVE  d.g < g \/ (d.g = g /\ d.i < Size(g) + 1) <=>
               d.g < g + 1 \/ (d.g = g + 1 /\ d.i < 1)
  <2>1. d.g \in Groups /\ d.i \in 1 .. Size(d.g)
    BY DocPlace, Zenon
  <2>2. d.g \in Nat /\ g \in Nat /\ d.i \in Nat /\ 1 <= d.i /\ Size(g) \in Nat
        /\ (d.g = g => d.i <= Size(g))
    BY <2>1, GroupSizes
  <2>3. QED
    BY ONLY <2>2
<1>2. QED
  BY <1>1, Zenon DEF Before

\* Before the end there are all documents.
LEMMA BeforeEnd == Before(Len(TxRefs) + 1, 1) = AllDocs
<1>1. ASSUME NEW d \in AllDocs PROVE d.g < Len(TxRefs) + 1
  BY DocPlace, GroupSizes DEF Groups
<1>2. QED
  BY <1>1, Zenon DEF Before

\* Documents of a group from one position up to another.
LEMMA BeforeBatch ==
  ASSUME NEW g \in Groups, NEW f \in Nat, NEW u \in Nat, f >= 1, u <= Size(g), f <= u + 1
  PROVE  /\ Before(g, u + 1) = Before(g, f) \cup {DocAt(g, i) : i \in f .. u}
         /\ Before(g, f) \cap {DocAt(g, i) : i \in f .. u} = {}
<1>1. ASSUME NEW i \in f .. u
      PROVE  /\ DocAt(g, i) \in AllDocs /\ DocAt(g, i) \in Before(g, u + 1)
             /\ DocAt(g, i) \notin Before(g, f)
  <2>1. i \in 1 .. Size(g) /\ i < u + 1 /\ ~(i < f) /\ ~(g < g)
    BY GroupSizes
  <2>2. DocAt(g, i) \in AllDocs
    BY <2>1, DocOfBlock, Zenon
  <2>3. QED
    BY <2>1, <2>2, DocFields, Zenon DEF Before
<1>2. ASSUME NEW d \in Before(g, f) PROVE d \in Before(g, u + 1)
  <2>1. d \in AllDocs /\ d.i \in Nat /\ (d.g < g \/ (d.g = g /\ d.i < f))
    BY DocPlace, GroupSizes DEF Before
  <2>2. d.i < f => d.i < u + 1
    BY <2>1
  <2>3. QED
    BY <2>1, <2>2, Zenon DEF Before
<1>3. ASSUME NEW d \in Before(g, u + 1), d \notin Before(g, f)
      PROVE  d \in {DocAt(g, i) : i \in f .. u}
  <2>1. /\ d \in AllDocs /\ d.i \in Nat /\ d = DocAt(d.g, d.i)
        /\ d.g = g /\ d.i < u + 1 /\ ~(d.i < f)
    BY <1>3, DocPlace, GroupSizes DEF Before
  <2>2. d.i \in f .. u
    BY <2>1
  <2>3. QED
    BY <2>1, <2>2, Zenon
<1>4. QED
  BY <1>1, <1>2, <1>3, Zenon

(* The inductive invariant.                                                *)

\* The documents TrackBlock has been told of.
TrackedDocs == UNION {Range(queue[k]) : k \in DOMAIN queue}

\* The call has written something it has not handed to TrackBlock yet.
Storing == pc \in {"stamp", "batch", "skip", "sign", "track"}

\* What was written is tracked, or is in allDocIDs of the call that runs.
TrackInv ==
  /\ written \subseteq db /\ written \subseteq AllDocs
  /\ queue \in Seq(Seq(AllDocs))
  /\ ids \in Seq(AllDocs) /\ cids \in Seq(AllDocs) /\ gids \in Seq(AllDocs)
  /\ Storing => written = TrackedDocs \cup Range(ids) /\ Range(ids) \cap TrackedDocs = {}
  /\ ~Storing => written = TrackedDocs
  /\ \A j, k \in DOMAIN queue : j # k => Range(queue[j]) \cap Range(queue[k]) = {}

\* The groups are written in order and as a whole: allDocIDs holds what comes
\* before the batch, and the collector holds the same once it is truncated; the
\* stamper knows each transaction by its own position.
BatchInv ==
  /\ DOMAIN txHashToID = 1 .. Size(2)
  /\ pc = "block" => err = "none"
  /\ pc \in {"stamp", "batch", "skip"} =>
       /\ err = "none" /\ group \in Nat /\ 2 <= group /\ IsInjective(ids)
       /\ group >= 3 => txHashToID = [t \in 1 .. Size(2) |-> t]
  /\ pc = "stamp" =>
       group <= Len(TxRefs) + 1 /\ Range(ids) = Before(group, 1) /\ cids = ids
  /\ pc \in {"batch", "skip"} =>
       /\ group \in Groups /\ from \in Nat /\ 1 <= from /\ from <= Size(group) + 1
       /\ Range(ids) = Before(group, from)
       /\ Len(gids) = from - 1 /\ \A k \in 1 .. from - 1 : gids[k].i = k
  /\ pc = "batch" => cids = ids
  /\ pc = "skip" => SubSeq(cids, 1, mark) = ids
  /\ pc = "sign" =>
       /\ err # "previous" => cids = ids
       /\ err = "none" => Range(ids) = AllDocs /\ IsInjective(ids)

StoreInv == TrackInv /\ BatchInv

\* SignExisting has collected whole groups, and what is signed is complete.
SignInv ==
  /\ db \subseteq AllDocs
  /\ signer \in [pc : {"none", "query", "wait", "sign"}, g : Nat, docs : SUBSET AllDocs,
                 try : Nat]
  /\ IsFiniteSet(signer.docs)
  /\ signer.pc = "query" => signer.g \in Groups /\ signer.docs = Before(signer.g, 1)
  /\ signer.pc \in {"wait", "sign"} => signer.docs = AllDocs
  /\ SignedIsComplete

(* What a batch is.                                                        *)

\* Concatenating sequences that share no element repeats none.
LEMMA InjectiveConcat ==
  ASSUME NEW S, NEW s \in Seq(S), NEW t \in Seq(S), IsInjective(s), IsInjective(t),
         Range(s) \cap Range(t) = {}
  PROVE  IsInjective(s \o t)
<1> DEFINE m == Len(s)
           n == Len(t)
           u == s \o t
<1>1. /\ m \in Nat /\ n \in Nat /\ DOMAIN s = 1 .. m /\ DOMAIN t = 1 .. n
      /\ u \in Seq(S) /\ Len(u) = m + n
      /\ \A i \in 1 .. m + n : u[i] = IF i <= m THEN s[i] ELSE t[i - m]
  BY ConcatProperties, LenProperties
<1>2. DOMAIN u = 1 .. m + n
  BY <1>1, LenProperties, Zenon
<1> HIDE DEF m, n, u
<1>3. ASSUME NEW i \in DOMAIN u, NEW j \in DOMAIN u, u[i] = u[j] PROVE i = j
  <2>1. i \in 1 .. m + n /\ j \in 1 .. m + n
    BY <1>2, Zenon
  <2>2. CASE i <= m /\ j <= m
    <3>1. i \in DOMAIN s /\ j \in DOMAIN s /\ s[i] = s[j]
      BY <1>1, <1>3, <2>1, <2>2
    <3>2. QED
      BY <3>1, Zenon DEF IsInjective
  <2>3. CASE ~(i <= m) /\ ~(j <= m)
    <3>1. i - m \in DOMAIN t /\ j - m \in DOMAIN t /\ t[i - m] = t[j - m]
      BY <1>1, <1>3, <2>1, <2>3
    <3>2. i - m = j - m
      BY <3>1, Zenon DEF IsInjective
    <3>3. QED
      BY <1>1, <2>1, <3>2
  <2>4. ASSUME NEW a \in 1 .. m + n, NEW b \in 1 .. m + n, a <= m, ~(b <= m)
        PROVE  u[a] # u[b]
    <3>1. a \in DOMAIN s /\ u[a] = s[a] /\ b - m \in DOMAIN t /\ u[b] = t[b - m]
      BY <1>1, <2>4
    <3>2. s[a] \in Range(s) /\ t[b - m] \in Range(t)
      BY <3>1, Zenon DEF Range
    <3>3. QED
      BY <3>1, <3>2, Zenon
  <2>5. QED
    BY <1>3, <2>1, <2>2, <2>3, <2>4, Zenon
<1>4. QED
  BY <1>3, Zenon DEF IsInjective, u

\* The batch ends within its group.
LEMMA BatchBounds ==
  ASSUME BatchInv, pc \in {"batch", "skip"}
  PROVE  /\ group \in Groups /\ group \in Nat /\ 2 <= group /\ Size(group) \in Nat
         /\ from \in Nat /\ 1 <= from
         /\ Upto \in Nat /\ from <= Upto + 1 /\ Upto <= Size(group)
<1>1. /\ group \in Groups /\ group \in Nat /\ 2 <= group
      /\ from \in Nat /\ 1 <= from /\ from <= Size(group) + 1
  BY Zenon DEF BatchInv
<1>2. Size(group) \in Nat /\ BatchSize[group] \in Nat /\ BatchSize[group] > 0
  BY <1>1, GroupSizes, Zenon
<1>3. QED
  BY <1>1, <1>2 DEF Upto

\* It holds the documents from its first position to its last one, each with
\* the link the chain gives it.
LEMMA BatchDocs ==
  ASSUME BatchInv, pc \in {"batch", "skip"}
  PROVE  /\ Batch \in Seq(AllDocs) /\ Len(Batch) = Upto - from + 1
         /\ \A k \in 1 .. Upto - from + 1 : Batch[k].i = from + k - 1
         /\ IsInjective(Batch)
         /\ Range(Batch) = {DocAt(group, i) : i \in from .. Upto}
<1> DEFINE n == Upto - from + 1
<1>1. /\ group \in Groups /\ group \in Nat /\ 2 <= group /\ Size(group) \in Nat
      /\ from \in Nat /\ 1 <= from
      /\ Upto \in Nat /\ from <= Upto + 1 /\ Upto <= Size(group)
  BY BatchBounds, Zenon
<1>2. n \in Nat /\ \A k \in 1 .. n : from + k - 1 \in from .. Upto
                     /\ from + k - 1 \in 1 .. Size(group)
  BY <1>1
<1>3. ASSUME NEW i \in 1 .. Size(group)
      PROVE  Doc(group, i, IF group = 2 THEN 0 ELSE txHashToID[TxRefs[group][i]])
               = DocAt(group, i)
  <2>1. CASE group = 2
    BY <2>1 DEF DocAt
  <2>2. CASE group # 2
    <3>1. group \in 3 .. Len(TxRefs) /\ ~(group <= 2) /\ group >= 3
      BY <1>1, <2>2, GroupSizes DEF Groups
    <3>2. TxRefs[group][i] \in 1 .. Size(2)
      BY <3>1, StoreAssumption, Zenon DEF Size
    <3>3. txHashToID = [t \in 1 .. Size(2) |-> t]
      BY <3>1, Zenon DEF BatchInv
    <3>4. txHashToID[TxRefs[group][i]] = TxRefs[group][i]
      BY <3>2, <3>3, Zenon
    <3>5. QED
      BY <2>2, <3>1, <3>4, Zenon DEF DocAt
  <2>3. QED
    BY <2>1, <2>2, Zenon
<1>4. Batch = [k \in 1 .. n |-> DocAt(group, from + k - 1)]
  BY <1>2, <1>3, Zenon DEF Batch
<1>5. \A k \in 1 .. n : Batch[k] = DocAt(group, from + k - 1)
  BY <1>4, Zenon
<1>6. \A k \in 1 .. n : Batch[k] \in AllDocs
  BY <1>1, <1>2, <1>5, DocOfBlock, Zenon
<1>7. Batch \in Seq(AllDocs) /\ Len(Batch) = n /\ DOMAIN Batch = 1 .. n
  BY <1>2, <1>4, <1>6
<1>8. \A k \in 1 .. n : Batch[k].i = from + k - 1
  <2>1. \A i : DocAt(group, i).i = i
    BY DocFields, Zenon
  <2>2. QED
    BY <1>5, <2>1, Zenon
<1>9. IsInjective(Batch)
  <2>1. ASSUME NEW j \in 1 .. n, NEW k \in 1 .. n, Batch[j] = Batch[k] PROVE j = k
    <3>1. from + j - 1 = from + k - 1
      BY <1>8, <2>1, Zenon
    <3>2. QED
      BY <1>1, <3>1
  <2>2. QED
    BY <1>7, <2>1, Zenon DEF IsInjective
<1>10. Range(Batch) = {DocAt(group, i) : i \in from .. Upto}
  <2>1. \A x \in Range(Batch) : \E i \in from .. Upto : x = DocAt(group, i)
    BY <1>2, <1>5, <1>7, Zenon DEF Range
  <2>2. ASSUME NEW i \in from .. Upto PROVE DocAt(group, i) \in Range(Batch)
    <3>1. i - from + 1 \in 1 .. n /\ from + (i - from + 1) - 1 = i
      BY <1>1
    <3>2. Batch[i - from + 1] = DocAt(group, i)
      BY <1>5, <3>1, Zenon
    <3>3. QED
      BY <1>7, <3>1, <3>2, Zenon DEF Range
  <2>3. QED
    BY <2>1, <2>2, Zenon
<1>11. QED
  BY <1>7, <1>8, <1>9, <1>10, Zenon

\* What comes before the batch, and the batch, come before its end.
LEMMA BatchBefore ==
  ASSUME BatchInv, pc \in {"batch", "skip"}
  PROVE  /\ Before(group, Upto + 1) = Range(ids) \cup Range(Batch)
         /\ Range(ids) \cap Range(Batch) = {}
<1>1. Range(ids) = Before(group, from)
  BY Zenon DEF BatchInv
<1>2. QED
  BY <1>1, BatchBounds, BatchDocs, BeforeBatch, Zenon

(* The steps of the store.                                                 *)

\* A step that writes nothing and hands nothing over.
LEMMA TrackKept ==
  ASSUME TrackInv, UNCHANGED <<written, queue, ids>>, db \subseteq db',
         gids' \in Seq(AllDocs), cids' \in Seq(AllDocs), Storing' <=> Storing
  PROVE  TrackInv'
<1>1. TrackedDocs' = TrackedDocs
  BY Zenon DEF TrackedDocs
<1>2. QED
  BY <1>1, Zenon DEF TrackInv

\* A step that writes new documents adds them to allDocIDs.
LEMMA TrackNew ==
  ASSUME TrackInv, Storing, Storing', NEW new \in Seq(AllDocs), Range(new) \cap db = {},
         db' = db \cup Range(new), written' = written \cup Range(new), queue' = queue,
         ids' = ids \o new, gids' = gids \o new, cids' \in Seq(AllDocs)
  PROVE  TrackInv'
<1>1. TrackedDocs' = TrackedDocs
  BY Zenon DEF TrackedDocs
<1>2. ids' \in Seq(AllDocs) /\ gids' \in Seq(AllDocs)
  BY ConcatProperties, Zenon DEF TrackInv
<1>3. Range(ids') = Range(ids) \cup Range(new) /\ Range(new) \subseteq AllDocs
  BY RangeConcatenation, SetOfSeq DEF TrackInv
<1>4. written = TrackedDocs \cup Range(ids) /\ written \subseteq db
  BY Zenon DEF TrackInv
<1>5. written' = TrackedDocs \cup Range(ids') /\ Range(ids') \cap TrackedDocs = {}
  BY <1>3, <1>4, Zenon DEF TrackInv
<1>6. QED
  BY <1>1, <1>2, <1>3, <1>5, Zenon DEF TrackInv

\* createDocsInTxn writes the batch as a whole.
LEMMA WriteBatchStep ==
  ASSUME StoreInv, WriteBatch
  PROVE  StoreInv'
<1> DEFINE new == Batch
           u == Upto
<1> USE DEF StoreInv
<1>1. /\ pc = "batch" /\ Range(new) \cap db = {} /\ queue' = queue
      /\ db' = db \cup Range(new) /\ written' = written \cup Range(new)
      /\ cids' = cids \o new /\ ids' = ids \o new /\ gids' = gids \o new /\ err' = err
  BY Zenon DEF WriteBatch, Advance
<1>2. /\ new \in Seq(AllDocs) /\ Len(new) = u - from + 1 /\ IsInjective(new)
      /\ \A k \in 1 .. u - from + 1 : new[k].i = from + k - 1
  BY <1>1, BatchDocs, Zenon
<1>3. /\ group \in Groups /\ group \in Nat /\ 2 <= group /\ Size(group) \in Nat
      /\ from \in Nat /\ 1 <= from /\ u \in Nat /\ from <= u + 1 /\ u <= Size(group)
  BY <1>1, BatchBounds, Zenon
<1>4. Before(group, u + 1) = Range(ids) \cup Range(new) /\ Range(ids) \cap Range(new) = {}
  BY <1>1, BatchBefore, Zenon
<1>5. \/ u < Size(group) /\ from' = u + 1 /\ pc' = "batch"
         /\ UNCHANGED <<group, txHashToID>>
      \/ ~(u < Size(group)) /\ pc' = "stamp" /\ group' = group + 1
         /\ RecordDocIDs(gids \o new)
  BY Zenon DEF WriteBatch, Advance
<1> HIDE DEF new, u
<1>6. /\ ids \in Seq(AllDocs) /\ gids \in Seq(AllDocs) /\ cids = ids /\ IsInjective(ids)
      /\ Len(gids) = from - 1 /\ \A k \in 1 .. from - 1 : gids[k].i = k
      /\ err = "none" /\ DOMAIN txHashToID = 1 .. Size(2)
      /\ group >= 3 => txHashToID = [t \in 1 .. Size(2) |-> t]
  BY <1>1, Zenon DEF TrackInv, BatchInv
<1>7. TrackInv'
  <2>1. cids' \in Seq(AllDocs)
    BY <1>1, <1>2, <1>6, ConcatProperties, Zenon
  <2>2. Storing /\ Storing'
    BY <1>1, <1>5, Zenon DEF Storing
  <2>3. QED
    BY <1>1, <1>2, <2>1, <2>2, TrackNew, Zenon
<1>8. cids' = ids' /\ IsInjective(ids') /\ Range(ids') = Before(group, u + 1)
  <2>1. IsInjective(ids \o new) /\ Range(ids \o new) = Range(ids) \cup Range(new)
    BY <1>2, <1>4, <1>6, InjectiveConcat, RangeConcatenation
  <2>2. QED
    BY <1>1, <1>4, <1>6, <2>1, Zenon
<1>9. Len(gids') = u /\ \A k \in 1 .. u : gids'[k].i = k
  <2>1. /\ Len(gids \o new) = Len(gids) + Len(new)
        /\ \A k \in 1 .. Len(gids) + Len(new) :
             (gids \o new)[k] = IF k <= Len(gids) THEN gids[k] ELSE new[k - Len(gids)]
    <3>1. gids \in Seq(AllDocs) /\ new \in Seq(AllDocs)
      BY <1>2, <1>6, Zenon
    <3>2. QED
      BY ONLY <3>1, ConcatProperties, Zenon
  <2>2. Len(gids') = u
    BY <1>1, <1>2, <1>3, <1>6, <2>1
  <2>3. ASSUME NEW k \in 1 .. u PROVE gids'[k].i = k
    <3>0. k \in 1 .. Len(gids) + Len(new)
      BY <1>2, <1>3, <1>6
    <3>1. gids'[k] = IF k <= from - 1 THEN gids[k] ELSE new[k - (from - 1)]
      BY ONLY <1>1, <1>6, <2>1, <3>0, Zenon
    <3>2. CASE k <= from - 1
      BY <1>3, <1>6, <3>1, <3>2
    <3>3. CASE ~(k <= from - 1)
      <4>1. k - (from - 1) \in 1 .. u - from + 1 /\ from + (k - (from - 1)) - 1 = k
        BY <1>3, <3>3
      <4>2. QED
        BY <1>2, <3>1, <3>3, <4>1, Zenon
    <3>4. QED
      BY <3>2, <3>3, Zenon
  <2>4. QED
    BY <2>2, <2>3, Zenon
<1>10. CASE u < Size(group)
  <2>1. from' = u + 1 /\ pc' = "batch" /\ group' = group /\ txHashToID' = txHashToID
    BY <1>5, <1>10, Zenon
  <2>2. from' \in Nat /\ 1 <= from' /\ from' <= Size(group) + 1 /\ from' - 1 = u
    BY <1>3, <1>10, <2>1
  <2>3. BatchInv'
    BY <1>1, <1>3, <1>6, <1>8, <1>9, <2>1, <2>2, Zenon DEF BatchInv
  <2>4. QED
    BY <1>7, <2>3, Zenon
<1>11. CASE ~(u < Size(group))
  <2>1. pc' = "stamp" /\ group' = group + 1 /\ RecordDocIDs(gids \o new)
    BY <1>5, <1>11, Zenon
  <2>2. u = Size(group)
    BY <1>3, <1>11
  <2>3. /\ group' \in Nat /\ 2 <= group' /\ group' >= 3 /\ group' <= Len(TxRefs) + 1
        /\ (group # 2 => group >= 3)
    BY <1>3, <2>1, GroupSizes DEF Groups
  <2>4. Range(ids') = Before(group', 1)
    BY <1>3, <1>8, <2>1, <2>2, BeforeNextGroup, Zenon
  <2>5. txHashToID' = [t \in 1 .. Size(2) |-> t]
    <3>1. CASE group = 2
      <4>1. txHashToID' = [t \in 1 .. Size(2) |->
                             IF t <= Len(gids') THEN gids'[t].i ELSE txHashToID[t]]
        BY <1>1, <1>6, <2>1, <3>1, Zenon DEF RecordDocIDs
      <4>2. \A t \in 1 .. Size(2) : t <= Len(gids') /\ gids'[t].i = t
        BY <1>3, <1>9, <2>2, <3>1
      <4>3. QED
        BY <4>1, <4>2, Zenon
    <3>2. CASE group # 2
      BY <1>6, <2>1, <2>3, <3>2, Zenon DEF RecordDocIDs
    <3>3. QED
      BY <3>1, <3>2, Zenon
  <2>6. BatchInv'
    BY <1>1, <1>6, <1>8, <2>1, <2>3, <2>4, <2>5, Zenon DEF BatchInv
  <2>7. QED
    BY <1>7, <2>6, Zenon
<1>12. QED
  BY <1>10, <1>11, Zenon

\* Truncating a concatenation to the length of its first part.
LEMMA TruncateConcat ==
  ASSUME NEW S, NEW s \in Seq(S), NEW t \in Seq(S)
  PROVE  SubSeq(s \o t, 1, Len(s)) = s
<1> DEFINE u == s \o t
           v == SubSeq(u, 1, Len(s))
<1>1. /\ u \in Seq(S) /\ Len(u) = Len(s) + Len(t) /\ Len(s) \in Nat /\ Len(t) \in Nat
      /\ \A i \in 1 .. Len(s) + Len(t) : u[i] = IF i <= Len(s) THEN s[i] ELSE t[i - Len(s)]
  BY ConcatProperties, LenProperties, Zenon
<1> HIDE DEF u
<1>2. \A i \in 1 .. Len(s) : u[i] = s[i] /\ s[i] \in S
  BY <1>1
<1>3. v \in Seq(S) /\ Len(v) = Len(s) /\ \A i \in 1 .. Len(s) : v[i] = s[i]
  BY <1>1, <1>2
<1> HIDE DEF v
<1>4. v = s
  BY <1>3, SeqEqual, Zenon
<1>5. QED
  BY <1>4, Zenon DEF v, u

\* writeBatchWithRetry always leaves the collector as it was before the batch.
LEMMA TruncatedIsExact ==
  ASSUME BatchInv, pc \in {"batch", "skip"}
  PROVE  Truncated = ids
BY Zenon DEF BatchInv, Truncated

\* Where no batch is under way there is little to show.
LEMMA BatchRests ==
  ASSUME DOMAIN txHashToID' = 1 .. Size(2),
         pc' \notin {"stamp", "batch", "skip", "sign"}, pc' = "block" => err' = "none"
  PROVE  BatchInv'
BY Zenon DEF BatchInv

\* The attempt that met a stored document is discarded.
LEMMA BatchExistsStep ==
  ASSUME StoreInv, BatchExists
  PROVE  StoreInv'
<1> USE DEF StoreInv
<1>1. PICK n \in 0 .. Len(Batch) : cids' = cids \o SubSeq(Batch, 1, n)
  BY Zenon DEF BatchExists
<1>2. /\ pc = "batch" /\ pc' = "skip" /\ mark' = Len(cids)
      /\ UNCHANGED <<db, written, queue, txHashToID, group, from, ids, gids, err>>
  BY Zenon DEF BatchExists, linkVars
<1>3. Batch \in Seq(AllDocs)
  BY <1>2, BatchDocs, Zenon
<1> DEFINE t == SubSeq(Batch, 1, n)
<1>4. t \in Seq(AllDocs)
  BY <1>3
<1> HIDE DEF t
<1>5. ids \in Seq(AllDocs) /\ gids \in Seq(AllDocs) /\ cids = ids
  BY <1>2, Zenon DEF TrackInv, BatchInv
<1>6. cids' = ids \o t /\ mark' = Len(ids)
  BY <1>1, <1>2, <1>5, Zenon DEF t
<1>7. cids' \in Seq(AllDocs) /\ SubSeq(cids', 1, mark') = ids'
  BY <1>2, <1>4, <1>5, <1>6, ConcatProperties, TruncateConcat, Zenon
<1>8. TrackInv'
  <2>1. Storing /\ Storing'
    BY <1>2, Zenon DEF Storing
  <2>2. QED
    BY <1>2, <1>5, <1>7, <2>1, TrackKept, Zenon
<1>9. BatchInv'
  <2>1. /\ DOMAIN txHashToID = 1 .. Size(2)
        /\ err = "none" /\ group \in Nat /\ 2 <= group /\ IsInjective(ids)
        /\ group >= 3 => txHashToID = [x \in 1 .. Size(2) |-> x]
        /\ group \in Groups /\ from \in Nat /\ 1 <= from /\ from <= Size(group) + 1
        /\ Range(ids) = Before(group, from)
        /\ Len(gids) = from - 1 /\ \A k \in 1 .. from - 1 : gids[k].i = k
    BY <1>2, Zenon DEF BatchInv
  <2>2. QED
    BY <1>2, <1>7, <2>1, Zenon DEF BatchInv
<1>10. QED
  BY <1>8, <1>9, Zenon

\* A skip commits the missing documents, and ends the call's writes.
LEMMA SkipExistingStep ==
  ASSUME StoreInv, SkipExisting
  PROVE  StoreInv'
<1> DEFINE new == Listing(Range(Batch) \ db)
<1> USE DEF StoreInv
<1>1. /\ pc = "skip" /\ pc' = "sign" /\ err' = "previous" /\ cids' = Truncated
      /\ db' = db \cup Range(new) /\ written' = written \cup Range(new) /\ queue' = queue
      /\ ids' = ids \o new /\ gids' = gids \o new /\ txHashToID' = txHashToID
  BY Zenon DEF SkipExisting, GiveUp, linkVars
<1>2. /\ Batch \in Seq(AllDocs) /\ IsInjective(Batch)
  BY <1>1, BatchDocs, Zenon
<1>3. IsFiniteSet(Range(Batch)) /\ Range(Batch) \subseteq AllDocs
  BY <1>2, InjectiveLength, SetOfSeq, Zenon
<1>4. IsFiniteSet(Range(Batch) \ db) /\ Range(Batch) \ db \subseteq AllDocs
  BY <1>3, FS_Subset, Zenon
<1>5. new \in Seq(Range(Batch) \ db) /\ Range(new) = Range(Batch) \ db
  BY <1>4, SeqOfSet, Zenon
<1> HIDE DEF new
<1>6. new \in Seq(AllDocs) /\ Range(new) \cap db = {}
  BY <1>4, <1>5, SeqMonotonic, Zenon
<1>7. cids' \in Seq(AllDocs)
  BY <1>1, TruncatedIsExact, Zenon DEF TrackInv
<1>8. TrackInv'
  <2>1. Storing /\ Storing'
    BY <1>1, Zenon DEF Storing
  <2>2. QED
    BY <1>1, <1>6, <1>7, <2>1, TrackNew, Zenon
<1>9. BatchInv'
  <2>1. DOMAIN txHashToID = 1 .. Size(2)
    BY Zenon DEF BatchInv
  <2>2. QED
    BY <1>1, <2>1, Zenon DEF BatchInv
<1>10. QED
  BY <1>8, <1>9, Zenon

\* A batch that fails writes nothing; it is tried again or ends the writes.
LEMMA BatchFailsStep ==
  ASSUME StoreInv, BatchFails
  PROVE  StoreInv'
<1> USE DEF StoreInv
<1>1. /\ pc \in {"batch", "skip"} /\ cids' = Truncated
      /\ UNCHANGED <<db, written, queue>>
      /\ \/ pc' = "batch" /\ UNCHANGED <<txHashToID, group, from, ids, gids, err>>
         \/ \E e \in {"conflict", "error"} : GiveUp(<<>>, e)
  BY Zenon DEF BatchFails, linkVars
<1>2. /\ ids \in Seq(AllDocs) /\ gids \in Seq(AllDocs) /\ cids' = ids
      /\ DOMAIN txHashToID = 1 .. Size(2)
  BY <1>1, TruncatedIsExact, Zenon DEF TrackInv, BatchInv
<1>3. ids \o <<>> = ids /\ gids \o <<>> = gids
  BY <1>2, ConcatEmptySeq, Zenon
<1>4. CASE pc' = "batch" /\ UNCHANGED <<txHashToID, group, from, ids, gids, err>>
  <2>1. /\ err = "none" /\ group \in Nat /\ 2 <= group /\ IsInjective(ids)
        /\ group >= 3 => txHashToID = [x \in 1 .. Size(2) |-> x]
        /\ group \in Groups /\ from \in Nat /\ 1 <= from /\ from <= Size(group) + 1
        /\ Range(ids) = Before(group, from)
        /\ Len(gids) = from - 1 /\ \A k \in 1 .. from - 1 : gids[k].i = k
    BY <1>1, Zenon DEF BatchInv
  <2>2. BatchInv'
    BY <1>2, <1>4, <2>1, Zenon DEF BatchInv
  <2>3. Storing /\ Storing'
    BY <1>1, <1>4, Zenon DEF Storing
  <2>4. TrackInv'
    BY <1>1, <1>2, <1>4, <2>3, TrackKept, Zenon
  <2>5. QED
    BY <2>2, <2>4, Zenon
<1>5. CASE \E e \in {"conflict", "error"} : GiveUp(<<>>, e)
  <2>1. /\ pc' = "sign" /\ err' \in {"conflict", "error"} /\ txHashToID' = txHashToID
        /\ ids' = ids /\ gids' = gids
    BY <1>3, <1>5, Zenon DEF GiveUp, linkVars
  <2>2. BatchInv'
    BY <1>2, <2>1, Zenon DEF BatchInv
  <2>3. Storing /\ Storing'
    BY <1>1, <2>1, Zenon DEF Storing
  <2>4. TrackInv'
    BY <1>1, <1>2, <2>1, <2>3, TrackKept, Zenon
  <2>5. QED
    BY <2>2, <2>4, Zenon
<1>6. QED
  BY <1>1, <1>4, <1>5, Zenon

\* storeBlockDoc writes the first document of the block.
LEMMA StoreBlockDocStep ==
  ASSUME StoreInv, StoreBlockDoc
  PROVE  StoreInv'
<1> USE DEF StoreInv
<1>1. /\ pc = "block" /\ BlockDoc \notin db /\ pc' = "stamp" /\ group' = 2 /\ err' = err
      /\ db' = db \cup {BlockDoc} /\ written' = written \cup {BlockDoc} /\ queue' = queue
      /\ cids' = <<BlockDoc>> /\ ids' = <<BlockDoc>> /\ gids' = gids
      /\ txHashToID' = txHashToID
  BY Zenon DEF StoreBlockDoc
<1>2. BlockDoc \in AllDocs /\ Before(2, 1) = {BlockDoc}
  BY BeforeTransactions, Zenon
<1>3. <<BlockDoc>> \in Seq(AllDocs) /\ Range(<<BlockDoc>>) = {BlockDoc}
      /\ IsInjective(<<BlockDoc>>)
  BY <1>2 DEF Range, IsInjective
<1>4. TrackInv'
  <2>1. ~Storing /\ Storing' /\ TrackedDocs' = TrackedDocs
    BY <1>1, Zenon DEF Storing, TrackedDocs
  <2>2. written = TrackedDocs /\ written \subseteq db /\ gids \in Seq(AllDocs)
    BY <2>1, Zenon DEF TrackInv
  <2>3. written' = TrackedDocs \cup {BlockDoc} /\ {BlockDoc} \cap TrackedDocs = {}
    BY <1>1, <2>2, Zenon
  <2>4. QED
    BY <1>1, <1>2, <1>3, <2>1, <2>2, <2>3, Zenon DEF TrackInv
<1>5. BatchInv'
  <2>1. DOMAIN txHashToID = 1 .. Size(2) /\ err = "none"
    BY <1>1, Zenon DEF BatchInv
  <2>2. 2 \in Nat /\ 2 <= 2 /\ 2 <= Len(TxRefs) + 1 /\ ~(2 >= 3)
    BY GroupSizes
  <2>3. Range(ids') = Before(2, 1) /\ IsInjective(ids') /\ cids' = ids'
    BY <1>1, <1>2, <1>3, Zenon
  <2>4. QED
    BY <1>1, <2>1, <2>2, <2>3, Zenon DEF BatchInv
<1>6. QED
  BY <1>4, <1>5, Zenon

\* StampBeforeWrite opens the next group, or ends the writes.
LEMMA StampGroupStep ==
  ASSUME StoreInv, StampGroup
  PROVE  StoreInv'
<1> USE DEF StoreInv
<1>1. /\ pc = "stamp" /\ UNCHANGED <<db, written, queue, txHashToID, group, cids, ids>>
      /\ \/ group > Len(TxRefs) /\ pc' = "sign" /\ err' = err /\ gids' = gids
         \/ pc' = "sign" /\ err' = "stamp" /\ gids' = gids
         \/ ~(group > Len(TxRefs)) /\ pc' = "batch" /\ from' = 1 /\ gids' = <<>>
            /\ err' = err
  BY Zenon DEF StampGroup, linkVars
<1>2. /\ DOMAIN txHashToID = 1 .. Size(2)
      /\ err = "none" /\ group \in Nat /\ 2 <= group /\ IsInjective(ids)
      /\ group >= 3 => txHashToID = [x \in 1 .. Size(2) |-> x]
      /\ group <= Len(TxRefs) + 1 /\ Range(ids) = Before(group, 1) /\ cids = ids
  BY <1>1, Zenon DEF BatchInv
<1>3. /\ ids \in Seq(AllDocs) /\ gids' \in Seq(AllDocs) /\ cids' \in Seq(AllDocs)
  <2>1. ids \in Seq(AllDocs) /\ gids \in Seq(AllDocs) /\ cids \in Seq(AllDocs)
    BY Zenon DEF TrackInv
  <2>2. gids' = gids \/ gids' = <<>>
    BY <1>1, Zenon
  <2>3. <<>> \in Seq(AllDocs)
    OBVIOUS
  <2>4. QED
    BY <1>1, <2>1, <2>2, <2>3, Zenon
<1>4. TrackInv'
  <2>1. Storing /\ Storing'
    BY <1>1, Zenon DEF Storing
  <2>2. QED
    BY <1>1, <1>3, <2>1, TrackKept, Zenon
<1>5. BatchInv'
  <2>1. CASE group > Len(TxRefs) /\ pc' = "sign" /\ err' = err
    <3>1. group = Len(TxRefs) + 1
      BY <1>2, <2>1, GroupSizes
    <3>2. Range(ids) = AllDocs
      BY <1>2, <3>1, BeforeEnd, Zenon
    <3>3. QED
      BY <1>1, <1>2, <2>1, <3>2, Zenon DEF BatchInv
  <2>2. CASE pc' = "sign" /\ err' = "stamp"
    BY <1>1, <1>2, <2>2, Zenon DEF BatchInv
  <2>3. CASE /\ ~(group > Len(TxRefs)) /\ pc' = "batch" /\ from' = 1
             /\ gids' = <<>> /\ err' = err
    <3>1. group \in Groups /\ Size(group) \in Nat
      BY <1>2, <2>3, GroupSizes DEF Groups
    <3>2. 1 \in Nat /\ 1 <= Size(group) + 1 /\ Len(<<>>) = 1 - 1 /\ 1 .. 1 - 1 = {}
      BY <3>1
    <3>3. QED
      BY <1>1, <1>2, <2>3, <3>1, <3>2 DEF BatchInv
  <2>4. QED
    BY <1>1, <2>1, <2>2, <2>3, Zenon
<1>6. QED
  BY <1>4, <1>5, Zenon

\* TrackBlock is told of all docIDs of the call.
LEMMA TrackStep ==
  ASSUME StoreInv, Track
  PROVE  StoreInv'
<1> USE DEF StoreInv
<1>1. /\ pc = "track" /\ queue' = Append(queue, ids) /\ pc' \in {"try", "idle"}
      /\ UNCHANGED <<db, written, txHashToID, cids, ids, gids>>
  BY Zenon DEF Track, Tracked, Return, Failed, linkVars
<1>2. BatchInv'
  <2>1. DOMAIN txHashToID' = 1 .. Size(2)
    BY <1>1, Zenon DEF BatchInv
  <2>2. QED
    BY <1>1, <2>1, BatchRests, Zenon
<1>3. queue \in Seq(Seq(AllDocs)) /\ ids \in Seq(AllDocs)
  BY Zenon DEF TrackInv
<1> DEFINE n == Len(queue)
<1>4. /\ n \in Nat /\ DOMAIN queue = 1 .. n
      /\ queue' \in Seq(Seq(AllDocs)) /\ Len(queue') = n + 1 /\ DOMAIN queue' = 1 .. n + 1
      /\ \A k \in 1 .. n : queue'[k] = queue[k]
      /\ queue'[n + 1] = ids
  BY <1>1, <1>3, AppendProperties, LenProperties
<1> HIDE DEF n
<1>5. \A k \in DOMAIN queue' : k \in DOMAIN queue \/ k = n + 1
  BY <1>4
<1>6. \A k \in DOMAIN queue : k \in DOMAIN queue' /\ k # n + 1 /\ queue'[k] = queue[k]
  BY <1>4
<1>7. /\ Storing /\ ~Storing'
      /\ written = TrackedDocs \cup Range(ids) /\ Range(ids) \cap TrackedDocs = {}
  BY <1>1, Zenon DEF Storing, TrackInv
<1>8. TrackedDocs' = TrackedDocs \cup Range(ids)
  <2>1. n + 1 \in DOMAIN queue'
    BY <1>4
  <2>2. ASSUME NEW d \in TrackedDocs' PROVE d \in TrackedDocs \cup Range(ids)
    <3>1. PICK k \in DOMAIN queue' : d \in Range(queue'[k])
      BY Zenon DEF TrackedDocs
    <3>2. QED
      BY <1>4, <1>5, <1>6, <3>1, Zenon DEF TrackedDocs
  <2>3. ASSUME NEW d \in TrackedDocs PROVE d \in TrackedDocs'
    <3>1. PICK k \in DOMAIN queue : d \in Range(queue[k])
      BY Zenon DEF TrackedDocs
    <3>2. QED
      BY <1>6, <3>1, Zenon DEF TrackedDocs
  <2>4. ASSUME NEW d \in Range(ids) PROVE d \in TrackedDocs'
    BY <1>4, <2>1, Zenon DEF TrackedDocs
  <2>5. QED
    BY <2>2, <2>3, <2>4, Zenon
<1>9. \A k \in DOMAIN queue : Range(queue[k]) \cap Range(ids) = {}
  BY <1>7, Zenon DEF TrackedDocs
<1>10. ASSUME NEW j \in DOMAIN queue', NEW k \in DOMAIN queue', j # k
       PROVE  Range(queue'[j]) \cap Range(queue'[k]) = {}
  <2>1. CASE j \in DOMAIN queue /\ k \in DOMAIN queue
    BY <1>6, <1>10, <2>1, Zenon DEF TrackInv
  <2>2. CASE j = n + 1 /\ k \in DOMAIN queue
    BY <1>4, <1>6, <1>9, <2>2, Zenon
  <2>3. CASE k = n + 1 /\ j \in DOMAIN queue
    BY <1>4, <1>6, <1>9, <2>3, Zenon
  <2>4. QED
    BY <1>5, <1>10, <2>1, <2>2, <2>3, Zenon
<1>11. TrackInv'
  BY <1>1, <1>4, <1>7, <1>8, <1>10, Zenon DEF TrackInv
<1>12. QED
  BY <1>2, <1>11, Zenon

\* The steps of the call that write nothing and hand nothing over.
LEMMA CallStep ==
  ASSUME StoreInv, Call \/ Attempt \/ BlockExists \/ BlockFails \/ SignStored
  PROVE  StoreInv'
<1> USE DEF StoreInv
<1>1. CASE Call \/ Attempt \/ BlockExists \/ BlockFails
  <2>1. /\ pc \in {"idle", "try", "block"} /\ pc' \in {"idle", "try", "block"}
        /\ UNCHANGED <<db, written, queue>>
        /\ \/ UNCHANGED <<ids, gids, cids>>
           \/ ids' = <<>> /\ gids' = <<>> /\ cids' = <<>>
    <3>1. CASE Call
      BY <3>1, Zenon DEF Call
    <3>2. CASE Attempt
      BY <3>2, Zenon DEF Attempt, Return, storeVars
    <3>3. CASE BlockExists
      BY <3>3, Zenon DEF BlockExists, Return, storeVars
    <3>4. CASE BlockFails
      BY <3>4, Zenon DEF BlockFails, Failed, Return
    <3>5. QED
      BY <1>1, <3>1, <3>2, <3>3, <3>4, Zenon
  <2>2. ids' \in Seq(AllDocs) /\ gids' \in Seq(AllDocs) /\ cids' \in Seq(AllDocs)
    <3>1. <<>> \in Seq(AllDocs)
      OBVIOUS
    <3>2. QED
      BY <2>1, <3>1, Zenon DEF TrackInv
  <2>3. ~Storing /\ ~Storing' /\ TrackedDocs' = TrackedDocs
    BY <2>1, Zenon DEF Storing, TrackedDocs
  <2>4. TrackInv'
    BY <2>1, <2>2, <2>3, Zenon DEF TrackInv
  <2>5. DOMAIN txHashToID' = 1 .. Size(2)
    BY <1>1, Zenon DEF Call, Attempt, BlockExists, BlockFails, BatchInv, linkVars
  <2>6. BatchInv'
    <3>1. pc' = "block" => err' = "none"
      BY <1>1, <2>1, Zenon DEF Call, Attempt, BlockExists, BlockFails, Return, Failed
    <3>2. QED
      BY <2>1, <2>5, <3>1, BatchRests, Zenon
  <2>7. QED
    BY <2>4, <2>6, Zenon
<1>2. CASE SignStored
  <2>1. /\ pc = "sign" /\ pc' = "track"
        /\ UNCHANGED <<db, written, queue, ids, gids, cids, txHashToID>>
    BY <1>2, Zenon DEF SignStored, storeVars, linkVars
  <2>2. Storing /\ Storing' /\ DOMAIN txHashToID' = 1 .. Size(2)
    BY <2>1, Zenon DEF Storing, BatchInv
  <2>3. gids' \in Seq(AllDocs) /\ cids' \in Seq(AllDocs)
    BY <2>1, Zenon DEF TrackInv
  <2>4. TrackInv' /\ BatchInv'
    BY <2>1, <2>2, <2>3, TrackKept, BatchRests, Zenon
  <2>5. QED
    BY <2>4, Zenon
<1>3. QED
  BY <1>1, <1>2, Zenon

\* The signing goroutine, peers and cancellations leave the call alone; a new
\* process starts with nothing written and nothing tracked.
LEMMA OutsideStep ==
  ASSUME StoreInv, SignerNext \/ PeerDoc \/ Cancel \/ Restart \/ UNCHANGED vars
  PROVE  StoreInv'
<1> USE DEF StoreInv
<1>1. CASE Restart
  <2>1. /\ pc' = "idle" /\ queue' = <<>> /\ written' = {}
        /\ UNCHANGED <<ids, gids, cids, txHashToID>>
    BY <1>1, Zenon DEF Restart, storeVars, linkVars
  <2>2. queue' \in Seq(Seq(AllDocs)) /\ DOMAIN queue' = {}
    BY <2>1
  <2>3. TrackedDocs' = {} /\ ~Storing'
    BY <2>1, <2>2, Zenon DEF TrackedDocs, Storing
  <2>4. TrackInv'
    BY <2>1, <2>2, <2>3, Zenon DEF TrackInv
  <2>5. BatchInv'
    <3>1. DOMAIN txHashToID' = 1 .. Size(2)
      BY <2>1, Zenon DEF BatchInv
    <3>2. QED
      BY <2>1, <3>1, BatchRests, Zenon
  <2>6. QED
    BY <2>4, <2>5, Zenon
<1>2. CASE SignerNext \/ PeerDoc \/ Cancel \/ UNCHANGED vars
  <2>1. /\ UNCHANGED <<written, queue, pc, group, from, ids, gids, cids, mark, err,
                       txHashToID>>
        /\ db \subseteq db'
    <3>1. CASE SignerNext
      BY <3>1, Zenon DEF SignerNext, SignerQuery, SignerWait, SignerSign, SignerMoves,
           storeVars, linkVars
    <3>2. CASE PeerDoc
      BY <3>2, Zenon DEF PeerDoc, storeVars, linkVars
    <3>3. CASE Cancel \/ UNCHANGED vars
      BY <3>3, Zenon DEF Cancel, vars, storeVars, linkVars
    <3>4. QED
      BY <1>2, <3>1, <3>2, <3>3, Zenon
  <2>2. (Storing' <=> Storing) /\ gids' \in Seq(AllDocs) /\ cids' \in Seq(AllDocs)
    BY <2>1, Zenon DEF Storing, TrackInv
  <2>3. TrackInv'
    BY <2>1, <2>2, TrackKept, Zenon
  <2>4. BatchInv'
    BY <2>1, Zenon DEF BatchInv
  <2>5. QED
    BY <2>3, <2>4, Zenon
<1>3. QED
  BY <1>1, <1>2, Zenon

\* Every step keeps the invariant of the store.
LEMMA StoreStep ==
  ASSUME StoreInv, [Next]_vars
  PROVE  StoreInv'
BY CallStep, StoreBlockDocStep, StampGroupStep, WriteBatchStep, BatchExistsStep,
   SkipExistingStep, BatchFailsStep, TrackStep, OutsideStep, Zenon DEF Next, StoreNext

\* It holds at the start.
LEMMA StoreInit ==
  ASSUME Init
  PROVE  StoreInv
<1>1. /\ queue = <<>> /\ written = {} /\ pc = "idle" /\ ids = <<>> /\ gids = <<>>
      /\ cids = <<>> /\ txHashToID = [t \in 1 .. Size(2) |-> 0]
  BY Zenon DEF Init
<1>2. queue \in Seq(Seq(AllDocs)) /\ DOMAIN queue = {} /\ <<>> \in Seq(AllDocs)
  BY <1>1
<1>3. TrackedDocs = {} /\ ~Storing
  BY <1>1, <1>2, Zenon DEF TrackedDocs, Storing
<1>4. TrackInv
  BY <1>1, <1>2, <1>3, Zenon DEF TrackInv
<1>5. BatchInv
  BY <1>1, Zenon DEF BatchInv
<1>6. QED
  BY <1>4, <1>5, Zenon DEF StoreInv

\* The invariant of the store always holds.
LEMMA StoreInvariance == Spec => []StoreInv
BY StoreInit, StoreStep, PTL DEF Spec

(* SignExisting.                                                           *)

\* A group has as many documents as positions.
LEMMA GroupSize ==
  ASSUME NEW g \in Groups
  PROVE  /\ IsFiniteSet(Expected(g)) /\ Cardinality(Expected(g)) = Size(g)
         /\ \A d \in AllDocs : d.g = g => d \in Expected(g)
         /\ Before(g + 1, 1) = Before(g, 1) \cup Expected(g)
<1> DEFINE s == [i \in 1 .. Size(g) |-> DocAt(g, i)]
<1>1. Size(g) \in Nat
  BY GroupSizes, Zenon
<1>2. Expected(g) = {DocAt(g, i) : i \in 1 .. Size(g)}
  BY Zenon DEF Expected, DocAt
<1>3. s \in Seq(Expected(g)) /\ Len(s) = Size(g) /\ DOMAIN s = 1 .. Size(g)
  BY <1>1, <1>2
<1>4. \A i \in 1 .. Size(g) : s[i] = DocAt(g, i)
  BY Zenon
<1> HIDE DEF s
<1>5. Range(s) = Expected(g)
  BY <1>2, <1>3, <1>4, Zenon DEF Range
<1>6. IsInjective(s)
  <2>1. \A i : DocAt(g, i).i = i
    BY DocFields, Zenon
  <2>2. ASSUME NEW i \in 1 .. Size(g), NEW j \in 1 .. Size(g), s[i] = s[j] PROVE i = j
    <3>1. DocAt(g, i) = DocAt(g, j)
      BY <1>4, <2>2, Zenon
    <3>2. DocAt(g, i).i = i /\ DocAt(g, j).i = j
      BY <2>1, Zenon
    <3>3. QED
      BY <3>1, <3>2, Zenon
  <2>3. QED
    BY <1>3, <2>2, Zenon DEF IsInjective
<1>7. IsFiniteSet(Expected(g)) /\ Cardinality(Expected(g)) = Size(g)
  BY <1>3, <1>5, <1>6, InjectiveLength, Zenon
<1>8. \A d \in AllDocs : d.g = g => d \in Expected(g)
  BY <1>2, DocPlace, Zenon
<1>9. Before(g + 1, 1) = Before(g, 1) \cup Expected(g)
  <2>1. Before(g, Size(g) + 1) = Before(g, 1) \cup {DocAt(g, i) : i \in 1 .. Size(g)}
    BY <1>1, BeforeBatch
  <2>2. QED
    BY <1>2, <2>1, BeforeNextGroup, Zenon
<1>10. QED
  BY <1>7, <1>8, <1>9, Zenon

\* A group that passes the completeness guard is complete.
LEMMA GuardIsExact ==
  ASSUME db \subseteq AllDocs, NEW g \in Groups,
         Cardinality(StoredOf(g)) >= Size(g)
  PROVE  StoredOf(g) = Expected(g)
<1>1. StoredOf(g) \in SUBSET Expected(g)
  BY GroupSize, Zenon DEF StoredOf
<1>2. /\ IsFiniteSet(Expected(g)) /\ Cardinality(Expected(g)) = Size(g) /\ Size(g) \in Nat
  BY GroupSize, GroupSizes, Zenon
<1>3. /\ IsFiniteSet(StoredOf(g)) /\ Cardinality(StoredOf(g)) <= Cardinality(Expected(g))
      /\ (Cardinality(Expected(g)) = Cardinality(StoredOf(g)) => Expected(g) = StoredOf(g))
  BY <1>1, <1>2, FS_Subset, Zenon
<1>4. Cardinality(StoredOf(g)) \in Nat
  BY <1>3, FS_CardinalityType, Zenon
<1>5. QED
  BY <1>2, <1>3, <1>4


\* The store has the block's documents only, if peers have.
LEMMA StoredDocs ==
  ASSUME PeerDocs \subseteq AllDocs, db \subseteq AllDocs, StoreInv', [Next]_vars
  PROVE  db' \subseteq AllDocs
<1>1. written' \subseteq AllDocs
  BY Zenon DEF StoreInv, TrackInv
<1>2. db' \subseteq db \cup written' \cup PeerDocs
  <2>1. CASE StoreBlockDoc \/ WriteBatch \/ SkipExisting \/ PeerDoc
    BY <2>1, Zenon DEF StoreBlockDoc, WriteBatch, SkipExisting, PeerDoc
  <2>2. CASE Call \/ Attempt \/ BlockExists \/ BlockFails \/ StampGroup \/ BatchExists
    BY <2>2, Zenon DEF Call, Attempt, BlockExists, BlockFails, StampGroup, BatchExists
  <2>3. CASE BatchFails \/ SignStored \/ Track \/ Cancel \/ Restart \/ UNCHANGED vars
    BY <2>3, Zenon DEF BatchFails, SignStored, Track, Cancel, Restart, vars
  <2>4. CASE SignerNext
    BY <2>4, Zenon DEF SignerNext, SignerQuery, SignerWait, SignerSign, SignerMoves
  <2>5. QED
    BY <2>1, <2>2, <2>3, <2>4, Zenon DEF Next, StoreNext
<1>3. QED
  BY <1>1, <1>2, Zenon

\* A signer at rest has collected nothing.
LEMMA NoSignerIsFine ==
  ASSUME signer' = NoSigner
  PROVE  /\ signer' \in [pc : {"none", "query", "wait", "sign"}, g : Nat,
                         docs : SUBSET AllDocs, try : Nat]
         /\ IsFiniteSet(signer'.docs) /\ signer'.pc = "none"
<1>1. NoSigner.docs = {} /\ NoSigner.pc = "none"
  BY Zenon DEF NoSigner
<1>2. NoSigner \in [pc : {"none", "query", "wait", "sign"}, g : Nat,
                    docs : SUBSET AllDocs, try : Nat]
  BY Zenon DEF NoSigner
<1>3. QED
  BY <1>1, <1>2, FS_EmptySet, Zenon

\* What the goroutine does keeps it on whole groups.
LEMMA SignerStep ==
  ASSUME SignInv, db' \subseteq AllDocs, SignerNext
  PROVE  SignInv'
<1> DEFINE Signers == [pc : {"none", "query", "wait", "sign"}, g : Nat,
                       docs : SUBSET AllDocs, try : Nat]
<1>1. /\ db \subseteq AllDocs /\ signer \in Signers /\ IsFiniteSet(signer.docs)
      /\ signer.pc = "query" => signer.g \in Groups /\ signer.docs = Before(signer.g, 1)
      /\ signer.pc \in {"wait", "sign"} => signer.docs = AllDocs
      /\ SignedIsComplete
  BY Zenon DEF SignInv
<1>2. CASE signer' = NoSigner /\ sigs' = sigs
  BY <1>1, <1>2, NoSignerIsFine, Zenon DEF SignInv, SignedIsComplete
<1>3. CASE SignerQuery /\ signer' # NoSigner
  <2> DEFINE g == signer.g
             D == signer.docs \cup StoredOf(g)
             p == IF g = Len(TxRefs) THEN "wait" ELSE "query"
  <2>1. /\ signer.pc = "query" /\ sigs' = sigs /\ Cardinality(StoredOf(g)) >= Size(g)
        /\ signer' = [signer EXCEPT !.docs = D, !.g = g + 1, !.pc = p]
    BY <1>3, Zenon DEF SignerQuery, SignerMoves
  <2>2. g \in Groups /\ g \in Nat /\ StoredOf(g) = Expected(g)
        /\ signer.docs = Before(g, 1)
    BY <1>1, <2>1, GuardIsExact, GroupSizes, Zenon
  <2>3. D = Before(g + 1, 1) /\ IsFiniteSet(D) /\ D \subseteq AllDocs
    <3>1. D = Before(g + 1, 1)
      BY <2>2, GroupSize, Zenon
    <3>2. IsFiniteSet(D)
      BY <1>1, <2>2, GroupSize, FS_Union, Zenon
    <3>3. QED
      BY <3>1, <3>2, Zenon DEF Before
  <2>4. p \in {"wait", "query"}
    OBVIOUS
  <2>5. p = "query" => g + 1 \in Groups
    BY <2>2, GroupSizes DEF Groups
  <2>6. p = "wait" => D = AllDocs
    BY <2>3, BeforeEnd, Zenon
  <2> HIDE DEF D, p
  <2>7. /\ signer' \in Signers /\ signer'.docs = D /\ signer'.g = g + 1 /\ signer'.pc = p
    <3>1. g + 1 \in Nat /\ p \in {"none", "query", "wait", "sign"} /\ D \in SUBSET AllDocs
      BY <2>2, <2>3, <2>4
    <3> HIDE DEF g
    <3>2. QED
      BY ONLY <1>1, <2>1, <3>1, Zenon
  <2>8. SignedIsComplete'
    BY <1>1, <2>1, Zenon DEF SignedIsComplete
  <2>9. QED
    BY <2>3, <2>4, <2>5, <2>6, <2>7, <2>8, Zenon DEF SignInv
<1>4. CASE SignerWait /\ signer' # NoSigner
  <2>1. /\ signer.pc = "wait" /\ sigs' = sigs
        /\ \/ signer' = [signer EXCEPT !.pc = "sign"]
           \/ signer' = [signer EXCEPT !.try = signer.try + 1]
    BY <1>4, Zenon DEF SignerWait, SignerMoves
  <2>2. /\ signer' \in Signers /\ signer'.docs = signer.docs
        /\ signer'.pc \in {"wait", "sign"}
    BY <1>1, <2>1
  <2>3. SignedIsComplete'
    BY <1>1, <2>1, Zenon DEF SignedIsComplete
  <2>4. QED
    BY <1>1, <2>1, <2>2, <2>3, Zenon DEF SignInv
<1>5. CASE SignerSign
  <2>1. /\ signer.pc = "sign" /\ signer' = NoSigner
        /\ sigs' = sigs \/ sigs' = sigs \cup {Listing(signer.docs)}
    BY <1>5, Zenon DEF SignerSign, SignerMoves
  <2>2. /\ Range(Listing(signer.docs)) = AllDocs
        /\ Len(Listing(signer.docs)) = Cardinality(Range(Listing(signer.docs)))
    BY <1>1, <2>1, SeqOfSet, Zenon
  <2>3. SignedIsComplete'
    BY <1>1, <2>1, <2>2, Zenon DEF SignedIsComplete
  <2>4. QED
    BY <2>1, <2>3, NoSignerIsFine, Zenon DEF SignInv
<1>6. QED
  BY <1>2, <1>3, <1>4, <1>5, Zenon DEF SignerNext, SignerQuery, SignerWait

\* Every step keeps the signatures complete.
LEMMA SignStep ==
  ASSUME PeerDocs \subseteq AllDocs, StoreInv, StoreInv', SignInv, [Next]_vars
  PROVE  SignInv'
<1>1. db' \subseteq AllDocs
  BY StoredDocs, Zenon DEF SignInv
<1>2. CASE SignerNext
  BY <1>1, <1>2, SignerStep, Zenon
<1>3. CASE SignStored
  <2>1. /\ pc = "sign" /\ signer' = signer
        /\ sigs' = sigs \/ (MaySign /\ sigs' = sigs \cup {cids})
    BY <1>3, Zenon DEF SignStored
  <2>2. ASSUME MaySign
        PROVE  AllDocs \subseteq Range(cids) /\ Len(cids) = Cardinality(Range(cids))
    <3>1. cids = ids /\ ids \in Seq(AllDocs) /\ Range(ids) = AllDocs /\ IsInjective(ids)
      BY <2>1, <2>2, Zenon DEF MaySign, StoreInv, BatchInv, TrackInv
    <3>2. Len(ids) = Cardinality(Range(ids))
      BY <3>1, InjectiveLength, Zenon
    <3>3. QED
      BY <3>1, <3>2, Zenon
  <2>3. SignedIsComplete'
    BY <2>1, <2>2, Zenon DEF SignInv, SignedIsComplete
  <2>4. QED
    BY <1>1, <2>1, <2>3, Zenon DEF SignInv
<1>4. CASE BlockExists
  <2>1. signer' = [NoSigner EXCEPT !.pc = "query", !.g = 1] /\ sigs' = sigs
    BY <1>4, Zenon DEF BlockExists
  <2>2. /\ signer' \in [pc : {"none", "query", "wait", "sign"}, g : Nat,
                        docs : SUBSET AllDocs, try : Nat]
        /\ signer'.docs = {} /\ signer'.g = 1 /\ signer'.pc = "query"
    BY <2>1, Zenon DEF NoSigner
  <2>3. Before(1, 1) = {}
    <3>1. ASSUME NEW d \in Before(1, 1) PROVE FALSE
      <4>1. d.g \in Nat /\ 1 <= d.g /\ d.i \in Nat /\ 1 <= d.i
            /\ (d.g < 1 \/ (d.g = 1 /\ d.i < 1))
        BY DocPlace, GroupSizes DEF Before, Groups
      <4>2. QED
        BY <4>1
    <3>2. QED
      BY <3>1, Zenon
  <2>4. SignedIsComplete'
    BY <2>1, Zenon DEF SignInv, SignedIsComplete
  <2>5. QED
    BY <1>1, <2>2, <2>3, <2>4, GroupSizes, FS_EmptySet, Zenon DEF SignInv
<1>5. CASE ~SignerNext /\ ~SignStored /\ ~BlockExists
  <2>1. sigs' = sigs /\ (signer' = signer \/ signer' = NoSigner)
    <3>1. CASE Call \/ Attempt \/ StoreBlockDoc \/ BlockFails \/ StampGroup
      BY <3>1, Zenon DEF Call, Attempt, StoreBlockDoc, BlockFails, StampGroup
    <3>2. CASE WriteBatch \/ BatchExists \/ SkipExisting \/ BatchFails \/ Track
      BY <3>2, Zenon DEF WriteBatch, BatchExists, SkipExisting, BatchFails, Track
    <3>3. CASE PeerDoc \/ Cancel \/ Restart \/ UNCHANGED vars
      BY <3>3, Zenon DEF PeerDoc, Cancel, Restart, vars
    <3>4. QED
      BY <1>5, <3>1, <3>2, <3>3, Zenon DEF Next, StoreNext
  <2>2. SignedIsComplete'
    BY <2>1, Zenon DEF SignInv, SignedIsComplete
  <2>3. CASE signer' = signer
    BY <1>1, <2>2, <2>3, Zenon DEF SignInv
  <2>4. CASE signer' = NoSigner
    BY <1>1, <2>2, <2>4, NoSignerIsFine, Zenon DEF SignInv
  <2>5. QED
    BY <2>1, <2>3, <2>4, Zenon
<1>6. QED
  BY <1>2, <1>3, <1>4, <1>5, Zenon

(* The theorems.                                                           *)

\* For every block, batch size and fault: between two batches the collector holds
\* exactly the CIDs of allDocIDs, all of them committed.
THEOREM CollectorsAreExact == Spec => []CollectorIsExact
<1>1. StoreInv => CollectorIsExact
  BY Zenon DEF StoreInv, TrackInv, BatchInv, Storing, CollectorIsExact
<1>2. QED
  BY <1>1, StoreInvariance, PTL

\* Likewise every document that Store commits is a document of the block, linked
\* to its own transaction.
THEOREM LinksAreAlwaysRight == Spec => []LinksAreRight
<1>1. StoreInv => LinksAreRight
  BY Zenon DEF StoreInv, TrackInv, LinksAreRight
<1>2. QED
  BY <1>1, StoreInvariance, PTL

\* Likewise the lists handed to TrackBlock are disjoint and hold exactly what the
\* process committed, whenever no call is under way.
THEOREM WritesAreTracked == Spec => []WrittenIsTracked
<1>1. StoreInv => WrittenIsTracked
  BY Zenon DEF StoreInv, TrackInv, Storing, TrackedDocs, WrittenIsTracked
<1>2. QED
  BY <1>1, StoreInvariance, PTL

\* If peers hold no document of another block of the height, every signature, of
\* signStoredBlock or of SignExisting, covers each document of the block once.
THEOREM SignaturesAreComplete ==
  ASSUME PeerDocs \subseteq AllDocs
  PROVE  Spec => []SignedIsComplete
<1>1. Init => SignInv
  <2> SUFFICES ASSUME Init PROVE SignInv
    OBVIOUS
  <2>1. db = {} /\ sigs = {} /\ signer = NoSigner
    BY Zenon DEF Init
  <2>2. /\ signer \in [pc : {"none", "query", "wait", "sign"}, g : Nat,
                       docs : SUBSET AllDocs, try : Nat]
        /\ signer.docs = {} /\ signer.pc = "none"
    BY <2>1, Zenon DEF NoSigner
  <2>3. QED
    BY <2>1, <2>2, FS_EmptySet, Zenon DEF SignInv, SignedIsComplete
<1>2. StoreInv /\ StoreInv' /\ SignInv /\ [Next]_vars => SignInv'
  BY SignStep, Zenon
<1>3. SignInv => SignedIsComplete
  BY Zenon DEF SignInv
<1>4. QED
  BY <1>1, <1>2, <1>3, StoreInvariance, PTL DEF Spec

=============================================================================
