------------------------------ MODULE NodeStart ------------------------------
(***************************************************************************)
(* Starting the embedded DefraDB node, src/pkg/defradb/defra.go and        *)
(* schema_apply.go: the keyring is migrated from the older layouts, the    *)
(* identity is loaded or generated, the node is opened and its schema is   *)
(* applied.  The process may crash at any point and is started again, and  *)
(* the store may be wiped.                                                 *)
(*                                                                         *)
(* Nodes are stores in the same directory, so they share the keyring that  *)
(* lies beside it.  A file that is being written is "torn" in between.     *)
(***************************************************************************)
EXTENDS Integers, Sequences, SequencesExt

CONSTANTS
  Nodes,
  Legacy,     \* nodes with a keyring inside the store, and
  Plain,      \* nodes with a plaintext identity file, of older releases
  Entries,    \* the files of a keyring, in the order of os.ReadDir
  Files,      \* the collection files, in order
  OldSchema,  \* collections a previous release has created: a set
  MaxStarts,  \* bound: starts
  Together,   \* two nodes may be starting at the same time
  Faults      \* "read", "copy", "crash", "node", "wipe"

NodeAssumption ==
  /\ Legacy \subseteq Nodes /\ Plain \subseteq Nodes /\ MaxStarts \in Nat
  /\ Together \in BOOLEAN /\ OldSchema \subseteq Range(Files) /\ "node-identity-key" \in Range(Entries)

VARIABLES
  legacy,  \* {storePath}/keys of each node
  plain,   \* {storePath}/defra_identity.key of each node
  keys,    \* the keyring directory beside the stores
  schema,  \* collections in each store
  pc,      \* where StartDefraInstance is
  todo,    \* entries to copy or files to apply
  id,      \* the identity each node last ran with
  own,     \* the identity each node came with, or generated first
  refused, \* nodes that were told of conflicting identity keys
  starts, fails

diskVars == <<legacy, plain, keys, schema>>
vars == <<diskVars, pc, todo, id, own, refused, starts, fails>>

Id    == "node-identity-key"
None  == "none"
Torn  == "torn"

\* The identity a node had before: that of its old keyring comes first.
LegacyId(n) == <<"legacy", n>>
PlainId(n)  == <<"plain", n>>
NewId(k)    == <<"new", k>>
Before(n) == IF n \in Legacy THEN LegacyId(n) ELSE IF n \in Plain THEN PlainId(n) ELSE <<None>>

NoKeys == [e \in Range(Entries) |-> <<None>>]

Init ==
  /\ legacy = [n \in Nodes |-> IF n \in Legacy THEN [e \in Range(Entries) |-> LegacyId(n)] ELSE NoKeys]
  /\ plain = [n \in Nodes |-> IF n \in Plain THEN PlainId(n) ELSE <<None>>]
  /\ keys = NoKeys
  /\ schema = [n \in Nodes |-> OldSchema]
  /\ pc = [n \in Nodes |-> "down"] /\ todo = [n \in Nodes |-> <<>>]
  /\ id = [n \in Nodes |-> <<None>>] /\ own = [n \in Nodes |-> Before(n)]
  /\ refused = {} /\ starts = 0 /\ fails = 0

Goto(n, l) == pc' = [pc EXCEPT ![n] = l]

Start(n) ==
  /\ pc[n] = "down" /\ starts < MaxStarts
  /\ Together \/ \A m \in Nodes : pc[m] \in {"down", "up"}
  /\ starts' = starts + 1 /\ Goto(n, "migrate")
  /\ UNCHANGED <<diskVars, todo, id, own, refused, fails>>

-----------------------------------------------------------------------------
(* migrateKeyringDir                                                       *)

\* Mutant: a key at the new location is taken without a look at the old one.
ConflictMutant(n) == FALSE

\* ensureNoKeyConflict.
Conflict(n) == keys[Id] # legacy[n][Id]

\* Mutant: the old keyring is not looked for.
HasLegacyMutant(n) == FALSE

HasLegacy(n) == legacy[n][Id] # <<None>>

Migrate(n) ==
  /\ pc[n] = "migrate"
  /\ \/ /\ ~HasLegacy(n)
        /\ Goto(n, "import") /\ UNCHANGED <<todo, refused>>
     \/ /\ HasLegacy(n) /\ keys[Id] # <<None>> /\ ~Conflict(n)
        /\ Goto(n, "import") /\ UNCHANGED <<todo, refused>>
     \/ /\ HasLegacy(n) /\ keys[Id] # <<None>> /\ Conflict(n)
        /\ Goto(n, "down") /\ refused' = refused \cup {n} /\ UNCHANGED todo
     \/ /\ HasLegacy(n) /\ keys[Id] = <<None>>
        /\ Goto(n, "copy") /\ todo' = [todo EXCEPT ![n] = Entries] /\ UNCHANGED refused
  /\ UNCHANGED <<diskVars, id, own, starts, fails>>

\* An entry that is there is skipped; any other is created, then written.
CopyEntry(n) ==
  /\ pc[n] = "copy"
  /\ IF todo[n] = <<>>
     THEN Goto(n, "import") /\ UNCHANGED <<todo, keys>>
     ELSE LET e == Head(todo[n])
          IN  IF legacy[n][e] = <<None>> \/ keys[e] # <<None>>
              THEN todo' = [todo EXCEPT ![n] = Tail(@)] /\ UNCHANGED <<pc, keys>>
              ELSE keys' = [keys EXCEPT ![e] = <<Torn>>] /\ Goto(n, "write") /\ UNCHANGED todo
  /\ UNCHANGED <<legacy, plain, schema, id, own, refused, starts, fails>>

WriteEntry(n) ==
  /\ pc[n] = "write" /\ Goto(n, "copy")
  /\ keys' = [keys EXCEPT ![Head(todo[n])] = legacy[n][Head(todo[n])]]
  /\ todo' = [todo EXCEPT ![n] = Tail(@)]
  /\ UNCHANGED <<legacy, plain, schema, id, own, refused, starts, fails>>

-----------------------------------------------------------------------------
(* importPlaintextIdentity and getOrCreateNodeIdentity                     *)

\* Mutant: the file is not looked for.
HasPlainMutant(n) == FALSE

HasPlain(n) == plain[n] # <<None>>

\* keyring.ErrNotFound; a torn file is another error.
Missing == keys[Id] = <<None>>

\* An identity in the keyring is kept; a file that cannot be read is skipped.
Import(n) ==
  /\ pc[n] = "import"
  /\ \/ /\ ~HasPlain(n) \/ keys[Id] \notin {<<None>>, <<Torn>>}
        /\ Goto(n, "load") /\ UNCHANGED <<keys, fails>>
     \/ /\ HasPlain(n) /\ keys[Id] = <<Torn>>
        /\ Goto(n, "down") /\ UNCHANGED <<keys, fails>>
     \/ /\ HasPlain(n) /\ Missing
        /\ keys' = [keys EXCEPT ![Id] = <<Torn>>] /\ Goto(n, "imported") /\ UNCHANGED fails
     \/ /\ HasPlain(n) /\ Missing
        /\ "read" \in Faults /\ fails = 0 /\ fails' = 1
        /\ Goto(n, "load") /\ UNCHANGED keys
  /\ UNCHANGED <<legacy, plain, schema, todo, id, own, refused, starts>>

Imported(n) ==
  /\ pc[n] = "imported" /\ Goto(n, "load")
  /\ keys' = [keys EXCEPT ![Id] = plain[n]]
  /\ UNCHANGED <<legacy, plain, schema, todo, id, own, refused, starts, fails>>

\* The identity of the keyring, an error, or a new one that is saved first.
LoadIdentity(n) ==
  /\ pc[n] = "load"
  /\ \/ /\ ~Missing /\ keys[Id] # <<Torn>>
        /\ id' = [id EXCEPT ![n] = keys[Id]] /\ Goto(n, "node") /\ UNCHANGED keys
     \/ /\ ~Missing /\ keys[Id] = <<Torn>>
        /\ Goto(n, "down") /\ UNCHANGED <<id, keys>>
     \/ /\ Missing
        /\ keys' = [keys EXCEPT ![Id] = <<Torn>>] /\ Goto(n, "save") /\ UNCHANGED id
  /\ UNCHANGED <<legacy, plain, schema, todo, own, refused, starts, fails>>

SaveIdentity(n) ==
  /\ pc[n] = "save" /\ Goto(n, "node")
  /\ keys' = [keys EXCEPT ![Id] = NewId(starts)]
  /\ id' = [id EXCEPT ![n] = NewId(starts)]
  /\ own' = [own EXCEPT ![n] = IF @ = <<None>> THEN NewId(starts) ELSE @]
  /\ UNCHANGED <<legacy, plain, schema, todo, refused, starts, fails>>

-----------------------------------------------------------------------------
(* The node and its schema                                                 *)

\* createAndStartNode, then one call with all the collections: it creates none
\* if one of them exists, and then every file is applied by itself.
ApplyAll(n) ==
  /\ pc[n] = "node"
  /\ IF schema[n] = {}
     THEN /\ schema' = [schema EXCEPT ![n] = Range(Files)] /\ Goto(n, "p2p") /\ UNCHANGED todo
     ELSE /\ Goto(n, "files") /\ todo' = [todo EXCEPT ![n] = Files] /\ UNCHANGED schema
  /\ UNCHANGED <<legacy, plain, keys, id, own, refused, starts, fails>>

\* Mutant: the first collection that exists ends the loop.
ExistsMutant(n) == todo' = [todo EXCEPT ![n] = <<>>]

\* A collection that exists is skipped.
Exists(n) == todo' = [todo EXCEPT ![n] = Tail(@)]

ApplyFile(n) ==
  /\ pc[n] = "files"
  /\ IF todo[n] = <<>>
     THEN Goto(n, "p2p") /\ UNCHANGED <<todo, schema>>
     ELSE /\ UNCHANGED pc
          /\ IF Head(todo[n]) \in schema[n]
             THEN Exists(n) /\ UNCHANGED schema
             ELSE /\ schema' = [schema EXCEPT ![n] = @ \cup {Head(todo[n])}]
                  /\ todo' = [todo EXCEPT ![n] = Tail(@)]
  /\ UNCHANGED <<legacy, plain, keys, id, own, refused, starts, fails>>

\* AddP2PCollections and the network handler: the node is up.
Up(n) ==
  /\ pc[n] = "p2p" /\ Goto(n, "up")
  /\ UNCHANGED <<diskVars, todo, id, own, refused, starts, fails>>

\* A call fails, the process crashes or is stopped.
Down(n) ==
  /\ \/ pc[n] = "up"
     \/ pc[n] \in {"copy", "write"} /\ "copy" \in Faults
     \/ pc[n] \in {"node", "files", "p2p"} /\ "node" \in Faults
     \/ pc[n] # "down" /\ "crash" \in Faults
  /\ Goto(n, "down") /\ todo' = [todo EXCEPT ![n] = <<>>]
  /\ UNCHANGED <<diskVars, id, own, refused, starts, fails>>

\* The operator wipes the store of a node that has run.
WipeStore(n) ==
  /\ "wipe" \in Faults /\ pc[n] = "down" /\ id[n] # <<None>> /\ id[n] = keys[Id]
  /\ legacy' = [legacy EXCEPT ![n] = NoKeys] /\ plain' = [plain EXCEPT ![n] = <<None>>]
  /\ schema' = [schema EXCEPT ![n] = {}]
  /\ <<legacy', plain', schema'>> # <<legacy, plain, schema>>
  /\ UNCHANGED <<keys, pc, todo, id, own, refused, starts, fails>>

NodeNext(n) ==
  \/ Migrate(n) \/ CopyEntry(n) \/ WriteEntry(n) \/ Import(n) \/ Imported(n)
  \/ LoadIdentity(n) \/ SaveIdentity(n) \/ ApplyAll(n) \/ ApplyFile(n) \/ Up(n)

Next == \E n \in Nodes : Start(n) \/ NodeNext(n) \/ Down(n) \/ WipeStore(n)

Spec == Init /\ [][Next]_vars

-----------------------------------------------------------------------------
(* Properties                                                              *)

Values == ({"legacy", "plain"} \X Nodes) \cup ({"new"} \X (1 .. MaxStarts)) \cup {<<None>>, <<Torn>>}

\* The variables have their types.
TypeOK ==
  /\ legacy \in [Nodes -> [Range(Entries) -> Values]] /\ plain \in [Nodes -> Values]
  /\ keys \in [Range(Entries) -> Values] /\ schema \in [Nodes -> SUBSET Range(Files)]
  /\ pc \in [Nodes -> {"down", "migrate", "copy", "write", "import", "imported", "load",
                       "save", "node", "files", "p2p", "up"}]
  /\ \A n \in Nodes : IsSuffix(todo[n], Entries) \/ IsSuffix(todo[n], Files)
  /\ id \in [Nodes -> Values] /\ own \in [Nodes -> Values]
  /\ refused \subseteq Nodes /\ starts \in 0 .. MaxStarts /\ fails \in 0 .. 1

\* "an upgraded node always keeps its existing identity" (defra.go:105): no
\* node runs with an identity other than the one it came with, or has generated
\* when it had none, whatever crashes, torn files and wiped stores lie between.
IdentityKept == \A n \in Nodes : id[n] \in {<<None>>, own[n]}

\* A node that is up has all its collections: a start that finds some of them,
\* left by a crash or an older release, creates the others.
SchemaComplete == \A n \in Nodes : pc[n] = "up" => schema[n] = Range(Files)

\* "different contents mean two stores resolve to this keyring directory"
\* (defra.go:190): a node alone in its directory is never refused.
ConflictMeansTwo == \A n \in refused : Nodes # {n}

\* "migrateKeyringDir copies a keyring found at {storePath}/keys [...] into the
\* sibling keyring directory." (defra.go:180): once the identity is loaded, no
\* entry is left behind.
MigrationComplete ==
  \A n \in Nodes : pc[n] = "node" /\ HasLegacy(n) =>
    \A e \in Range(Entries) : keys[e] = legacy[n][e]
=============================================================================
