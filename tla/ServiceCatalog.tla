--------------------------- MODULE ServiceCatalog ---------------------------
(***************************************************************************)
(* The service catalog: how a contract's wording is matched to a program   *)
(* (catalog/resolve.py), how an extraction queues the names it does not    *)
(* know through a snapshot that may be minutes old (catalog/store.py), and *)
(* how providers edit the catalog and empty the queue (api/services.py).   *)
(* An edit reads a row, puts all of it back and then clears the queue.     *)
(***************************************************************************)
EXTENDS Nothing, Integers, Sequences, FiniteSets, FiniteSetsExt

CONSTANTS
  Names, Typed,    \* the wordings contracts use; those of them people type
  KeyOf,           \* name -> its normalised form, the empty one included
  Seeds,           \* the names of the programs the seed file holds
  Slug,            \* name -> program id; ids are listed in their order
  Score,           \* <<key, key>> -> how alike they are, out of 100
  Extractions,     \* extraction workers, each with a cache of its own
  Editors,         \* provider requests at work at the same time
  EditShifts,      \* editor -> the kinds of edit it makes: the choices there are
  TTL, Horizon     \* how long a snapshot serves; bound on the clock

Ids  == {Slug[n] : n \in Names}
Keys == {KeyOf[n] : n \in Names}
NoKey == ""

\* A program's row, and what a process holds of the catalog.
ProgramRow == [name : Names, aliases : SUBSET Names, status : {"ACTIVE", "RETIRED"}]
Snapshot == [resolves : SUBSET Names, at : Nat]

\* What an instance must give them.
ASSUME CatalogBounds ==
  /\ KeyOf \in [Names -> Keys] /\ Slug \in [Names -> Nat]
  /\ Typed \subseteq Names /\ Seeds \subseteq Names
  /\ TTL \in Nat \ {0} /\ Horizon \in Nat
  /\ None \notin Nat /\ None \notin Names /\ None \notin Keys
  /\ None \notin ProgramRow /\ None \notin Snapshot

VARIABLES
  shift,      \* the member of EditShifts this behaviour runs
  programs,   \* program id -> its row, or None
  queue,      \* normalised name -> the raw name first queued under it, or None
  cache,      \* extraction -> the names its snapshot resolves and its date, or None
  clock,
  reading,    \* extraction -> the name it looks up, and what it is doing
  editing,    \* editor -> what it remembers
  known       \* history: name -> since when the catalog has resolved it, or None

catalogVars == <<shift, programs, queue, cache, clock, reading, editing, known>>

-----------------------------------------------------------------------------
(* Resolution: the ladder exact, alias, normalised, fuzzy, unmatched, over *)
(* named entries in the order they are listed.                             *)

Kinds == <<"exact", "alias", "normalised", "fuzzy", "unmatched">>
Unmatched == [id |-> None, kind |-> "unmatched"]

KeysOf(entry) == {KeyOf[n] : n \in {entry.name} \cup entry.aliases}

\* The first entry listed answers for a key that several carry.
ByKey(entries, key) == Min({i \in DOMAIN entries : key \in KeysOf(entries[i])})

\* A key alike enough, and clearly more alike than the next one; None else.
Floor == 86
Margin == 8
BestKey(entries, key) ==
  LET keys == UNION {KeysOf(entries[i]) : i \in DOMAIN entries}
      best == {k \in keys : Score[key, k] >= Floor
                 /\ \A o \in keys \ {k} : Score[key, k] - Score[key, o] >= Margin}
  IN  IF key = NoKey \/ best = {} THEN None ELSE CHOOSE k \in best : TRUE

\* Entries are a function from ids, which order them, to [name, aliases].
Ladder(entries, n) ==
  LET exact == {i \in DOMAIN entries : entries[i].name = n}
      alias == {i \in DOMAIN entries : n \in entries[i].aliases}
      key   == KeyOf[n]
      alike == {i \in DOMAIN entries : key \in KeysOf(entries[i])}
      best  == BestKey(entries, key)
  IN  IF exact # {} THEN [id |-> Min(exact), kind |-> "exact"]
      ELSE IF alias # {} THEN [id |-> Min(alias), kind |-> "alias"]
      ELSE IF key # NoKey /\ alike # {} THEN [id |-> ByKey(entries, key), kind |-> "normalised"]
      ELSE IF best # None THEN [id |-> ByKey(entries, best), kind |-> "fuzzy"]
      ELSE Unmatched

\* Only active programs are candidates.
Active(snapshot) ==
  [i \in {j \in Ids : snapshot[j] # None /\ snapshot[j].status = "ACTIVE"} |-> snapshot[i]]
Resolve(snapshot, n) == Ladder(Active(snapshot), n)
Resolves(snapshot, n) == Resolve(snapshot, n) # Unmatched
Resolvable(snapshot)  == {n \in Names : Resolves(snapshot, n)}

Program(n, aliases) == [name |-> n, aliases |-> aliases, status |-> "ACTIVE"]

-----------------------------------------------------------------------------
(* An extraction looks a program's name up.                                *)

\* load_snapshot: a snapshot younger than the TTL serves; above it, any does.
IsLoaded(held) == held # None
IsWarm(held) == held # None /\ clock - held.at < TTL

NotReading == [at |-> "idle", name |-> None, began |-> 0, fresh |-> TRUE]

LookUp(w, n) ==
  /\ reading[w] = NotReading
  /\ LET held == IF IsWarm(cache[w]) THEN cache[w] ELSE [resolves |-> Resolvable(programs), at |-> clock]
     IN  /\ cache' = [cache EXCEPT ![w] = held]
         /\ reading' = IF n \in held.resolves THEN reading
                       ELSE [reading EXCEPT ![w] =
                               [NotReading EXCEPT !.at = "read", !.name = n, !.began = clock]]
  /\ UNCHANGED <<shift, programs, queue, clock, editing, known>>

\* record_unmatched reads the entry there is ...
ReadEntry(w) ==
  /\ reading[w].at = "read"
  /\ reading' = [reading EXCEPT ![w].at = "queue", ![w].fresh = queue[KeyOf[reading[w].name]] = None,
                                ![w].name = IF queue[KeyOf[@]] # None THEN queue[KeyOf[@]] ELSE @]
  /\ UNCHANGED <<shift, programs, queue, cache, clock, editing, known>>

\* ... and puts it back counted once more, under the raw name it had.
QueueName(w) ==
  /\ reading[w].at = "queue"
  /\ queue' = [queue EXCEPT ![KeyOf[reading[w].name]] = reading[w].name]
  /\ reading' = [reading EXCEPT ![w] = NotReading]
  /\ UNCHANGED <<shift, programs, cache, clock, editing, known>>

-----------------------------------------------------------------------------
(* Edits.  Each remembers the row it will put, and the key it will take    *)
(* off the queue.                                                          *)

NotEditing == [at |-> "idle", id |-> None, row |-> None, key |-> None]

Remember(p, at, id, row, key) ==
  /\ editing[p] = NotEditing
  /\ editing' = [editing EXCEPT ![p] = [at |-> at, id |-> id, row |-> row, key |-> key]]
  /\ UNCHANGED <<shift, programs, queue, cache, clock, reading, known>>
Edit(p, id, row, key) == Remember(p, "put", id, row, key)

\* create_service: an id that is there already is refused.
CreateService(p, n, aliases) ==
  /\ programs[Slug[n]] = None
  /\ Edit(p, Slug[n], Program(n, aliases), None)

\* update_service: another name, or None to leave it, and a status.
UpdateService(p, id, name, status) ==
  /\ programs[id] # None
  /\ Edit(p, id, [programs[id] EXCEPT !.name = IF name = None THEN @ ELSE name, !.status = status], None)

\* add_alias: a name the program has is not put again, and leaves the queue too.
AddAlias(p, id, alias) ==
  /\ programs[id] # None
  /\ IF alias \in {programs[id].name} \cup programs[id].aliases
     THEN Remember(p, "unqueue", id, programs[id], KeyOf[alias])
     ELSE Edit(p, id, [programs[id] EXCEPT !.aliases = @ \cup {alias}], KeyOf[alias])

\* link_unmatched: the key stands in the path, and a path has no empty part.
LinkUnmatched(p, key, id) ==
  /\ key # NoKey
  /\ programs[id] # None
  /\ queue[key] # None
  /\ Edit(p, id, [programs[id] EXCEPT !.aliases = @ \cup {queue[key]}], key)

\* promote_unmatched puts a new row over whatever has that id.  Above the row
\* it makes, one without the name it was queued under.
PromotedBare(raw, n) == Program(n, {})
Promoted(raw, n) == Program(n, {raw} \ {n})
PromoteUnmatched(p, key, n) ==
  /\ key # NoKey /\ queue[key] # None
  /\ Edit(p, Slug[n], Promoted(queue[key], n), key)

\* The row goes in, with all its fields as they were read.
PutProgram(p) ==
  /\ editing[p].at = "put"
  /\ programs' = [programs EXCEPT ![editing[p].id] = editing[p].row]
  /\ known' = [n \in Names |-> IF n \notin Resolvable(programs') THEN None
                               ELSE IF known[n] # None THEN known[n] ELSE clock]
  /\ editing' = [editing EXCEPT ![p].at = "unqueue"]
  /\ UNCHANGED <<shift, queue, cache, clock, reading>>

\* delete_unmatched, and the end of the edit.  The API invalidates the cache of
\* its own process; the extraction workers' serve until they are old.
Unqueue(p) ==
  /\ editing[p].at = "unqueue"
  /\ queue' = IF editing[p].key = None THEN queue ELSE [queue EXCEPT ![editing[p].key] = None]
  /\ editing' = [editing EXCEPT ![p] = NotEditing]
  /\ UNCHANGED <<shift, programs, cache, clock, reading, known>>

TimePasses ==
  /\ clock < Horizon
  /\ clock' = clock + 1
  /\ UNCHANGED <<shift, programs, queue, cache, reading, editing, known>>

-----------------------------------------------------------------------------
\* seed_from_file: the reviewed catalog the table starts with.
Seeded ==
  [id \in Ids |-> IF \E n \in Seeds : Slug[n] = id
                  THEN Program(CHOOSE n \in Seeds : Slug[n] = id, {}) ELSE None]

CatalogInit ==
  /\ shift \in EditShifts
  /\ programs = Seeded
  /\ queue = [key \in Keys |-> None]
  /\ cache = [w \in Extractions |-> None]
  /\ clock = 0
  /\ reading = [w \in Extractions |-> NotReading]
  /\ editing = [p \in Editors |-> NotEditing]
  /\ known = [n \in Names |-> IF n \in Resolvable(Seeded) THEN 0 ELSE None]

CatalogNext ==
  \/ \E w \in Extractions : ReadEntry(w) \/ QueueName(w) \/ \E n \in Names : LookUp(w, n)
  \/ \E p \in Editors :
       \/ PutProgram(p) \/ Unqueue(p)
       \/ "create" \in shift[p] /\ \E n \in Typed : \E aliases \in SUBSET Typed : CreateService(p, n, aliases)
       \/ "update" \in shift[p] /\ \E id \in Ids, name \in Typed \cup {None}, status \in {"ACTIVE", "RETIRED"} :
            UpdateService(p, id, name, status)
       \/ "alias" \in shift[p] /\ \E id \in Ids, n \in Typed : AddAlias(p, id, n)
       \/ "link" \in shift[p] /\ \E key \in Keys, id \in Ids : LinkUnmatched(p, key, id)
       \/ "promote" \in shift[p] /\ \E key \in Keys : \E n \in Typed \cup {queue[key]} : PromoteUnmatched(p, key, n)
  \/ TimePasses

CatalogSpec == CatalogInit /\ [][CatalogNext]_catalogVars

-----------------------------------------------------------------------------
(* What must hold.                                                         *)

CatalogTypeOK ==
  /\ \A id \in Ids : programs[id] # None =>
       /\ programs[id].name \in Names /\ programs[id].aliases \subseteq Names
       /\ programs[id].status \in {"ACTIVE", "RETIRED"}
  /\ \A key \in Keys : queue[key] # None => KeyOf[queue[key]] = key
  /\ \A n \in Names : (known[n] # None) = Resolves(programs, n)

\* The name queued under a key leaves the queue while the catalog resolves it:
\* unless the program it was given to is retired, or another edit that had read
\* that program before put its own copy over it.
LeavesKnown(key) ==
  queue[key] # None /\ queue'[key] = None =>
    \/ Resolves(programs, queue[key])
    \/ \E p \in Editors :
         /\ editing[p].at = "unqueue" /\ editing[p].key = key
         /\ \/ editing[p].row.status = "RETIRED"
            \/ programs[editing[p].id] # editing[p].row

\* A name of which the normalised form leaves something leaves the queue only
\* when it is placed (link_unmatched, promote_unmatched, add_alias).
NamesLeaveTheQueueKnown == [][\A key \in Keys \ {NoKey} : LeavesKnown(key)]_catalogVars

\* Nobody queues a name the catalog has resolved since a whole TTL before the
\* look-up began: a person's decision reaches every worker in that time
\* (load_snapshot, record_unmatched).
KnownNamesAreNotQueued ==
  [][\A w \in Extractions :
       reading[w].at = "queue" /\ reading'[w].at # "queue" /\ reading[w].fresh =>
         LET since == known[reading[w].name]
         IN  since = None \/ since > reading[w].began - TTL]_catalogVars
=============================================================================
