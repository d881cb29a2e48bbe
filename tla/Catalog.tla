------------------------------ MODULE Catalog ------------------------------
(***************************************************************************)
(* The files of a metadata home that name each other: templates            *)
(* (configurations), environments and nodes, with the indexes that resolve *)
(* a name to a record.  Each write is atomic, but a save is several        *)
(* writes, and a process may die between two of them.  One section writes  *)
(* at a time (module LockSet); readers take no lock and go through a cache *)
(* of parsed records.                                                      *)
(***************************************************************************)
EXTENDS Integers, Sequences, FiniteSets, SequencesExt

CONSTANTS
  Ids,          \* record ids, shared by the kinds
  Names,        \* slugs and instance names
  DefaultName,  \* DefaultConfigurationSlug and the built-in environment
  NoId,         \* no id
  CatBudgets    \* the histories

\* Sections that may still begin, by what they write; writes a crash or a full
\* disk cuts short, damaged records, reads through the cache; the home at first.
CatBudget == [template : Nat, environment : Nat, node : Nat, seed : Nat, cut : Nat,
              damage : Nat, read : Nat, home : {"new", "legacy", "seeded"}]

ASSUME CatAssumption == DefaultName \in Names /\ NoId \notin Ids /\ CatBudgets \subseteq CatBudget

VARIABLES
  files,    \* path -> what the file holds
  section,  \* the section under the locks: the writes it has left
  reader,   \* a ConfigurationByID of a process that holds no lock
  cache,    \* that process's configurationCache
  catLeft

catVars == <<files, section, reader, cache, catLeft>>

-----------------------------------------------------------------------------
RecordKinds == {"template", "environment", "node"}
IndexOf(kind) == IF kind = "node" THEN "by-slug" ELSE kind \o "-index"
Indexes == {"template-index", "environment-index", "by-slug", "by-instance"}
Paths == (RecordKinds \cup {"bootstrap", "ref"}) \X Ids \cup Indexes \X Names
           \cup {<<"stamp", DefaultName>>}

\* What a file holds: a record its name, an entry an id.  "bare" is a record's
\* directory without its file.  seq stands for the identity a rename gives the
\* file; revived marks a clone of a deleted template (no file holds it).
NoFile == [is |-> "absent", name |-> DefaultName, id |-> NoId, uses |-> {}, template |-> NoId,
           done |-> FALSE, revived |-> FALSE, seq |-> 0]
Record(name) == [NoFile EXCEPT !.is = "live", !.name = name]
Entry(id) == [NoFile EXCEPT !.is = "entry", !.id = id]

Holds(kind, key) == files[<<kind, key>>]
Absent(kind, key) == Holds(kind, key).is = "absent"
Records(kind) == {i \in Ids : Holds(kind, i).is \in {"live", "dead"}}
Live(kind, name) == {i \in Ids : Holds(kind, i).is = "live" /\ Holds(kind, i).name = name}
Dead(kind, name) == {i \in Ids : Holds(kind, i).is = "dead" /\ Holds(kind, i).name = name}

\* ListConfigurations and ListEnvironmentConfigs fail on a directory without a
\* record; listNodes skips it.
Listable(kind) == kind # "node" => \A i \in Ids : Holds(kind, i).is # "bare"

\* ConfigurationByIDOrSlug, EnvironmentConfigByIDOrSlug, NodeByIDOrSlug given a
\* name: the records it may return.  The scan for a template does not prefer
\* the live one.
Resolve(kind, name) ==
  LET at == Holds(IndexOf(kind), name) IN
  CASE at.is = "entry" /\ (kind # "node" \/ ~Absent("node", at.id)) -> {at.id} \cap Records(kind)
    [] ~Listable(kind) -> {}
    [] kind = "template" -> Live(kind, name) \cup Dead(kind, name)
    [] OTHER -> IF Live(kind, name) # {} THEN Live(kind, name) ELSE Dead(kind, name)

\* ensureUniqueConfigurationSlug, ensureUniqueEnvironmentConfigSlug.
Unused(kind, name, id) == Listable(kind) /\ Live(kind, name) \subseteq {id}
\* resolveEnvironmentConfigRefs.
Usable(uses) == \A e \in uses : \E i \in Resolve("environment", e) : Holds("environment", i).is = "live"

\* ensureReadyForWrite seeds the home before any section but the seeding.
Begins(what) == /\ section = <<>> /\ catLeft[what] > 0
                /\ what = "seed" \/ ~Absent("stamp", DefaultName)
                /\ catLeft' = [catLeft EXCEPT ![what] = @ - 1]
                /\ UNCHANGED <<files, reader, cache>>
Put(kind, key, file) == <<[path |-> <<kind, key>>, file |-> file]>>
Unlink(kind, key) == Put(kind, key, NoFile)

-----------------------------------------------------------------------------
(* The saves, as the writes they make in order.                            *)

\* SaveConfiguration and SaveEnvironmentConfig: the directory, the record, the
\* entry of the name it had, then its own.
SaveSlugged(kind, id, rec) ==
  LET previous == Holds(kind, id) IN
  (IF previous.is = "absent" THEN Put(kind, id, [NoFile EXCEPT !.is = "bare"]) ELSE <<>>)
    \o Put(kind, id, rec)
    \o (IF previous.is # "absent" /\ previous.name # rec.name
        THEN Unlink(IndexOf(kind), previous.name) ELSE <<>>)
    \o (IF rec.is = "live" THEN Put(IndexOf(kind), rec.name, Entry(id))
        ELSE Unlink(IndexOf(kind), rec.name))

SaveIncompleteNodeReference(id, rec) ==
  Put("ref", id, rec) \o Put("by-instance", rec.name, Entry(id))

\* SaveNode: the bootstrap state first, the record before what names it.  The
\* by-instance entry of a terminated node is written and then removed.
SaveNode(id, rec) ==
  Put("bootstrap", id, rec) \o Put("node", id, rec) \o Put("ref", id, rec)
    \o Put("by-instance", rec.name, Entry(id))
    \o (IF rec.is = "live" THEN Put("by-slug", rec.name, Entry(id))
        ELSE Unlink("by-instance", rec.name) \o Unlink("by-slug", rec.name))

-----------------------------------------------------------------------------
(* The sections of templates and environments.  A caller names a record by *)
(* its id or by its name, so an operation may meet a deleted one.          *)

\* The default template is neither renamed nor deleted.
Protected(rec) == rec.name = DefaultName

ConfigurationCreate(id, name, uses) ==
  /\ Begins("template") /\ Absent("template", id)
  /\ Unused("template", name, id) /\ Usable(uses)
  /\ section' = SaveSlugged("template", id, [Record(name) EXCEPT !.uses = uses])
ConfigurationClone(id, source, name) ==
  /\ Begins("template") /\ Absent("template", id) /\ source \in Records("template")
  /\ Unused("template", name, id)
  /\ section' = SaveSlugged("template", id,
       [Record(name) EXCEPT !.uses = Holds("template", source).uses,
                            !.revived = \/ Holds("template", source).is = "dead"
                                        \/ Holds("template", source).revived])
ConfigurationUpdate(id, new, uses) ==
  /\ Begins("template") /\ id \in Records("template")
  /\ LET rec == Holds("template", id) IN
     /\ new # rec.name => ~Protected(rec) /\ Unused("template", new, id)
     /\ uses # rec.uses => Usable(uses)
     /\ section' = SaveSlugged("template", id,
                     [rec EXCEPT !.name = new, !.uses = uses, !.revived = @ /\ uses = rec.uses])
ConfigurationDelete(id) ==
  /\ Begins("template") /\ id \in Records("template") /\ ~Protected(Holds("template", id))
  /\ \A n \in Ids : Holds("node", n).is = "live" => Holds("node", n).template # id
  /\ section' = SaveSlugged("template", id, [Holds("template", id) EXCEPT !.is = "dead"])

EnvironmentConfigCreate(id, name) ==
  /\ Begins("environment") /\ Absent("environment", id) /\ Unused("environment", name, id)
  /\ section' = SaveSlugged("environment", id, Record(name))
InUse(name) == \E t \in Ids : Holds("template", t).is = "live" /\ name \in Holds("template", t).uses

\* With "live" an update of the commands, with "dead" a deletion.
EnvironmentConfigSave(id, is) ==
  /\ Begins("environment") /\ id \in Records("environment")
  /\ LET rec == Holds("environment", id) IN
     /\ is = "dead" => Listable("template") /\ ~InUse(rec.name)
     /\ section' = SaveSlugged("environment", id,
                     [rec EXCEPT !.is = IF @ = "dead" THEN "dead" ELSE is])

\* seedAndRepair, of a home without the stamp or forced (doctor --repair): the
\* built-ins that resolve to nothing, the default template again if it was
\* deleted, the by-slug entries that are missing, and the stamp.
Backfill == {n \in Records("node") : /\ Holds("node", n).is = "live"
                                     /\ Absent("by-slug", Holds("node", n).name)}
SeedAndRepair(id) ==
  /\ Begins("seed")
  /\ Absent("template", id) /\ Absent("environment", id)
  /\ LET default == Resolve("template", DefaultName)
         fresh == [Record(DefaultName) EXCEPT !.uses = {DefaultName}] IN
     \E d \in IF default = {} THEN {id} ELSE default :
       section' =
         (IF Resolve("environment", DefaultName) = {}
          THEN SaveSlugged("environment", id, Record(DefaultName)) ELSE <<>>)
         \o (CASE default = {} -> SaveSlugged("template", id, fresh)
               [] Holds("template", d).is = "dead" ->
                    SaveSlugged("template", d, [Holds("template", d) EXCEPT !.is = "live"])
               [] OTHER -> <<>>)
         \o SetToSeq({Put("by-slug", Holds("node", n).name, Entry(n))[1] : n \in Backfill})
         \o Put("stamp", DefaultName, Entry(id))

-----------------------------------------------------------------------------
(* The sections of nodes.                                                  *)

\* incompleteNodeMetadata: a reservation without a record.
Incomplete(id) == ~Absent("ref", id) /\ Absent("node", id)

NameFree(name) == Absent("by-instance", name) /\ Live("node", name) = {}

\* createNode reserves a name that no entry and no live node has
\* (generateSandboxName, ensureUniqueNodeSlug) for a live template, later
\* commits the record; a start completes it; a deletion ends it.
ReserveNode(id, name) ==
  /\ Begins("node") /\ Absent("ref", id) /\ Absent("node", id)
  /\ NameFree(name)
  /\ \E t \in Resolve("template", DefaultName) :
       /\ Holds("template", t).is = "live"
       /\ section' = SaveIncompleteNodeReference(id, [Record(name) EXCEPT !.template = t])
CommitNode(id) ==
  /\ Begins("node") /\ Incomplete(id) /\ Holds("by-instance", Holds("ref", id).name).id = id
  /\ section' = SaveNode(id, [Holds("ref", id) EXCEPT !.seq = 0])
CompleteNode(id) ==
  /\ Begins("node") /\ Holds("node", id).is = "live" /\ ~Holds("bootstrap", id).done
  /\ section' = SaveNode(id, [Holds("node", id) EXCEPT !.done = TRUE])
DeleteNode(id) ==
  /\ Begins("node") /\ id \in Records("node")
  /\ section' = SaveNode(id, [Holds("node", id) EXCEPT !.is = "dead"])

RemoveIncompleteNodeMetadata_DirectoryFirst(id) ==
  /\ Begins("node") /\ Incomplete(id)
  /\ section' = Unlink("ref", id) \o Unlink("by-instance", Holds("ref", id).name)

\* An abandoned reservation: its entry, then its directory.
RemoveIncompleteNodeMetadata(id) ==
  /\ Begins("node") /\ Incomplete(id)
  /\ section' = Unlink("by-instance", Holds("ref", id).name) \o Unlink("ref", id)

\* removeNodeIndexEntries, then the directory.
EntriesOf(id) ==
  {p \in {"by-slug", "by-instance"} \X Names : files[p].is = "entry" /\ files[p].id = id}
QuarantineCorruptNodeRecords(id) ==
  /\ Begins("node") /\ Holds("node", id).is = "corrupt"
  /\ section' = SetToSeq({[path |-> p, file |-> NoFile] : p \in EntriesOf(id)})
                \o Unlink("node", id)

-----------------------------------------------------------------------------
(* Writes, and reads through the cache.                                    *)

\* atomicWriteFile or os.Remove.  The quarantine's rename takes the whole
\* directory.
WriteFile ==
  /\ section # <<>>
  /\ LET w == Head(section)
         id == w.path[2]
         moved == IF w.path[1] = "node" /\ w.file.is = "absent"
                  THEN {<<"node", id>>, <<"bootstrap", id>>, <<"ref", id>>} ELSE {w.path} IN
     files' = [p \in Paths |->
                 IF p \in moved
                 THEN [w.file EXCEPT !.seq = IF p[1] = "template" THEN files[p].seq + 1 ELSE 0]
                 ELSE files[p]]
  /\ section' = Tail(section)
  /\ UNCHANGED <<reader, cache, catLeft>>

\* The process dies before the next write, or the write fails and the section
\* returns.
CutShort ==
  /\ section # <<>> /\ catLeft.cut > 0
  /\ catLeft' = [catLeft EXCEPT !.cut = @ - 1]
  /\ section' = <<>>
  /\ UNCHANGED <<files, reader, cache>>

\* A node record is damaged from outside.
Damage(id) ==
  /\ section = <<>> /\ catLeft.damage > 0 /\ Holds("node", id).is = "live"
  /\ catLeft' = [catLeft EXCEPT !.damage = @ - 1]
  /\ files' = [files EXCEPT ![<<"node", id>>].is = "corrupt"]
  /\ UNCHANGED <<section, reader, cache>>

NoRead == [at |-> "idle", id |-> NoId, stat |-> 0, file |-> NoFile]

\* ConfigurationByID: the identity is sampled, then the entry looked up, then
\* the file read and stored under the identity sampled before.
StatMetadataFile(id) ==
  /\ reader.at = "idle" /\ catLeft.read > 0 /\ id \in Records("template")
  /\ catLeft' = [catLeft EXCEPT !.read = @ - 1]
  /\ reader' = [NoRead EXCEPT !.at = "lookup", !.id = id, !.stat = Holds("template", id).seq]
  /\ UNCHANGED <<files, section, cache>>
Hit == cache[reader.id].seq = reader.stat

Lookup ==
  /\ reader.at = "lookup"
  /\ reader' = IF Hit
               THEN [reader EXCEPT !.at = "answered", !.file = cache[reader.id].file]
               ELSE [reader EXCEPT !.at = "read"]
  /\ UNCHANGED <<files, section, cache, catLeft>>
ReadRecord ==
  /\ reader.at = "read"
  /\ reader' = [reader EXCEPT !.at = "answered", !.file = Holds("template", reader.id)]
  /\ cache' = [cache EXCEPT ![reader.id] = [seq |-> reader.stat, file |-> Holds("template", reader.id)]]
  /\ UNCHANGED <<files, section, catLeft>>
Answered ==
  /\ reader.at = "answered"
  /\ reader' = NoRead
  /\ UNCHANGED <<files, section, cache, catLeft>>

-----------------------------------------------------------------------------
Home(home) ==
  LET first == CHOOSE i \in Ids : TRUE
      template == [Record(DefaultName) EXCEPT !.uses = {DefaultName}, !.seq = 1] IN
  [p \in Paths |->
     CASE home = "seeded" /\ p = <<"template", first>> -> template
       [] home = "legacy" /\ p = <<"template", first>> -> [template EXCEPT !.is = "dead"]
       [] home = "seeded" /\ p = <<"environment", first>> -> Record(DefaultName)
       [] home = "seeded" /\ p \in {<<"template-index", DefaultName>>,
                                    <<"environment-index", DefaultName>>} -> Entry(first)
       [] home = "seeded" /\ p = <<"stamp", DefaultName>> -> Entry(first)
       [] OTHER -> NoFile]

CatInit ==
  /\ catLeft \in CatBudgets
  /\ files = Home(catLeft.home)
  /\ section = <<>>
  /\ reader = NoRead
  /\ cache = [i \in Ids |-> [seq |-> 0, file |-> NoFile]]

TemplateSection ==
  \E id \in Ids, name \in Names :
    \/ \E uses \in {{}, {DefaultName}, {name}} :
         ConfigurationCreate(id, name, uses) \/ ConfigurationUpdate(id, name, uses)
    \/ \E source \in Ids : ConfigurationClone(id, source, name)
    \/ ConfigurationDelete(id)
EnvironmentSection ==
  \E id \in Ids :
    \/ \E name \in Names : EnvironmentConfigCreate(id, name)
    \/ \E is \in {"live", "dead"} : EnvironmentConfigSave(id, is)
NodeSection ==
  \E id \in Ids :
    \/ \E name \in Names : ReserveNode(id, name)
    \/ CommitNode(id) \/ CompleteNode(id) \/ DeleteNode(id)
    \/ RemoveIncompleteNodeMetadata(id) \/ QuarantineCorruptNodeRecords(id)
ReaderStep == Lookup \/ ReadRecord \/ Answered \/ \E id \in Ids : StatMetadataFile(id)

CatNext ==
  \/ TemplateSection \/ EnvironmentSection \/ NodeSection
  \/ \E id \in Ids : SeedAndRepair(id)
  \/ WriteFile \/ CutShort
  \/ \E id \in Ids : Damage(id)
  \/ ReaderStep

CatSpec == CatInit /\ [][CatNext]_catVars

-----------------------------------------------------------------------------
(* Properties.                                                             *)

\* What each kind of file may hold.
CatTypeOK ==
  /\ DOMAIN files = Paths
  /\ \A p \in Paths : files[p].is \in {"absent", "bare", "live", "dead", "corrupt", "entry"}
  /\ \A p \in Paths : p[1] \in Indexes => files[p].is \in {"absent", "entry"}
  /\ reader.at \in {"idle", "lookup", "read", "answered"}
  /\ DOMAIN cache = Ids

Intact == Listable("template") /\ Listable("environment")

\* A name has one live record of its kind, whatever crashes, renames, clones
\* and repeated seeding do (slug uniqueness is checked against the records,
\* never against the indexes; a home with a bare directory cannot be listed).
UniqueNames ==
  Intact => \A kind \in RecordKinds, name \in Names : Cardinality(Live(kind, name)) <= 1

\* A live template names only environments that exist, unless it is a clone of
\* a template deleted before (EnvironmentConfigDelete refuses a used one).
EnvironmentsOfTemplatesExist ==
  \A t \in Ids :
    Intact /\ Holds("template", t).is = "live" /\ ~Holds("template", t).revived =>
      \A e \in Holds("template", t).uses : Live("environment", e) # {}

\* The implicit default template is there once a seed pass finished: it cannot
\* be renamed or deleted, and a tombstone of it is restored.
DefaultIsThere == ~Absent("stamp", DefaultName) => Live("template", DefaultName) # {}

\* SaveNode's order, in every state a cut leaves: a record that says the node
\* is provisioned has a bootstrap state that says so too, so that no start runs
\* the whole installation again.
BootstrapFirst == \A n \in Ids : Holds("node", n).done => Holds("bootstrap", n).done

\* An entry of a node index resolves to a directory that is there, through
\* reservation, save, cleanup and quarantine, wherever they are cut.
EntriesResolve ==
  /\ \A name \in Names : LET at == Holds("by-slug", name) IN
       at.is = "entry" => ~Absent("node", at.id)
  /\ \A name \in Names : LET at == Holds("by-instance", name) IN
       at.is = "entry" => ~Absent("node", at.id) \/ ~Absent("ref", at.id)

\* Two nodes never hold one instance name: no live node's name, and no name an
\* entry reserves, is given to another node (generateSandboxName).
Owns(n) == \/ Holds("node", n).is = "live"
           \/ Holds("by-instance", Holds("ref", n).name).id = n
OneOwnerPerInstance ==
  \A m, n \in Ids : /\ m # n /\ Owns(m) /\ Owns(n)
                    /\ ~Absent("ref", m) /\ ~Absent("ref", n)
                    => Holds("ref", m).name # Holds("ref", n).name

\* A read through the cache never answers with a record older than the file
\* was when the read began (metadataCache, statMetadataFile).
ReadsAreFresh == reader.at = "answered" => reader.file.seq >= reader.stat
=============================================================================
