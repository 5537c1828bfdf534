------------------------------- MODULE Stores -------------------------------
(***************************************************************************)
(* The JSON files that several threads and processes append to: request    *)
(* history (execution_history.py), usage (usage.py), access times          *)
(* (memory/access_log.py), the shared conversation (conversation_store.py) *)
(* and the memories (database/memory.py, memory/store.py).  Each save      *)
(* reads the file, adds to it, writes a temporary file and renames it over *)
(* the old one.  The first four do so under a lock with a temporary file   *)
(* of their own; the memories have neither.                                *)
(***************************************************************************)
EXTENDS Integers, Sequences, FiniteSets, SequencesExt

CONSTANTS
    Writers,      \* threads of the processes that use the store
    Kinds,        \* the stores considered
    Limit,        \* execution_history_limit, usage_history_limit
    MaxSaves,     \* bound: appends and migrations
    MaxCrashes,   \* bound: processes that end in the middle of a save
    Nil

\* What is assumed of the constants.
StoresAssumption ==
    /\ Kinds \subseteq {"history", "usage", "access", "conversation", "memory"}
    /\ Limit \in Nat /\ MaxSaves \in Nat /\ MaxCrashes \in Nat
    /\ IsFiniteSet(Writers) /\ Nil \notin Nat \cup Writers

VARIABLES
    kind,         \* the store of this behaviour
    file, temp,   \* the inodes of the file and of the temporary file of the memories
    data,         \* what is in each inode
    lock,         \* the holder of the store's lock file
    at,           \* where each writer is
    job,          \* what its save is for
    fd,           \* the inode it writes
    seen,         \* what it read
    saves, crashes,
    kept          \* history: the entries whose save returned, in the order of the renames

vars == <<kind, file, temp, data, lock, at, job, fd, seen, saves, crashes, kept>>

Legacy == 0                               \* the entries of the old keys of memory.json
Inodes == 0 .. Cardinality(Writers) + 1
Entries == 0 .. MaxSaves
\* What an inode holds: a document, or the first half of one that a writer is writing, or
\* what is left when it was cut off or mixed with another one's.
Empty == [text |-> "whole", by |-> Nil, entries |-> <<>>, migrated |-> FALSE]
Torn == [Empty EXCEPT !.text = "cut off"]
Half(w) == [Torn EXCEPT !.by = w]

Locked == {"history", "usage", "access", "conversation"}
Trimmed == {"history", "usage"}
Lenient == {"access", "conversation"}     \* a file that cannot be parsed counts as empty

TypeOK ==
    /\ kind \in Kinds
    /\ file \in Inodes \cup {Nil} /\ temp \in Inodes \cup {Nil}
    /\ DOMAIN data = Inodes
    /\ \A i \in Inodes : data[i].by \in Writers \cup {Nil} /\ ToSet(data[i].entries) \subseteq Entries
    /\ lock \in Writers \cup {Nil}
    /\ at \in [Writers -> {"idle", "load", "reread", "open", "write", "finish", "rename"}]
    /\ job \in [Writers -> {"append", "migrate", "mark"}]
    /\ fd \in [Writers -> Inodes \cup {Nil}]
    /\ \A w \in Writers : seen[w].text = "whole" /\ ToSet(seen[w].entries) \subseteq Entries
    /\ saves \in 0 .. MaxSaves /\ crashes \in 0 .. MaxCrashes
    /\ ToSet(kept) \subseteq 1 .. MaxSaves

Init ==
    /\ kind \in Kinds
    /\ file = (IF kind = "memory" THEN 0 ELSE Nil) /\ temp = Nil
    /\ data = [i \in Inodes |-> IF i = file THEN Empty ELSE Torn]
    /\ lock = Nil
    /\ at = [w \in Writers |-> "idle"]
    /\ job = [w \in Writers |-> "append"]
    /\ fd = [w \in Writers |-> Nil]
    /\ seen = [w \in Writers |-> Empty]
    /\ saves = 0 /\ crashes = 0
    /\ kept = <<>>

----------------------------------------------------------------------------
GoTo(w, s) == at' = [at EXCEPT ![w] = s]
Whole(i) == i = Nil \/ data[i].text = "whole"
Contents(i) == IF i = Nil THEN Empty ELSE data[i]

\* Mutant of MayBegin: no lock is taken.
AlwaysBegins == TRUE

MayBegin == kind \in Locked => lock = Nil

Begin(w) ==
    /\ at[w] = "idle" /\ saves < MaxSaves /\ MayBegin
    /\ lock' = IF kind \in Locked THEN w ELSE lock
    /\ GoTo(w, "load")
    /\ UNCHANGED <<kind, file, temp, data, job, fd, seen, saves, crashes, kept>>

\* records[-limit:], which is all of them when the limit is 0.
Trim(s) ==
    IF kind \in Trimmed /\ Limit > 0 /\ Len(s) > Limit THEN SubSeq(s, Len(s) - Limit + 1, Len(s)) ELSE s

\* The load, and the entry that is added to it.  memory/store.py first migrates a file
\* without its marker, and save_memory reads the file once more.
Load(w) ==
    /\ at[w] = "load" /\ (~Whole(file) => kind \in Lenient)
    /\ LET found == IF Whole(file) THEN Contents(file) ELSE Empty
           old == kind = "memory" /\ ~found.migrated IN
          /\ saves < MaxSaves
          /\ saves' = saves + 1
          /\ job' = [job EXCEPT ![w] = IF old THEN "migrate" ELSE "append"]
          /\ seen' = [seen EXCEPT ![w] =
                [text |-> "whole", by |-> Nil, migrated |-> found.migrated,
                 entries |-> Trim(Append(found.entries, IF old THEN Legacy ELSE saves + 1))]]
    /\ GoTo(w, IF kind = "memory" THEN "reread" ELSE "open")
    /\ UNCHANGED <<kind, file, temp, data, lock, fd, crashes, kept>>

\* save_memory sets one key of what it reads: the memories, or the marker.
Reread(w) ==
    /\ at[w] = "reread" /\ Whole(file)
    /\ seen' = [seen EXCEPT ![w] =
                  IF job[w] = "mark" THEN [Contents(file) EXCEPT !.migrated = TRUE]
                  ELSE [@ EXCEPT !.migrated = Contents(file).migrated]]
    /\ GoTo(w, "open")
    /\ UNCHANGED <<kind, file, temp, data, lock, job, fd, saves, crashes, kept>>

\* A file that cannot be parsed: the save raises.
CannotParse(w) ==
    /\ at[w] \in {"load", "reread"} /\ ~Whole(file) /\ kind \notin Lenient
    /\ lock' = IF lock = w THEN Nil ELSE lock
    /\ GoTo(w, "idle")
    /\ UNCHANGED <<kind, file, temp, data, job, fd, seen, saves, crashes, kept>>

InUse(i) == i \in {file, temp} \/ \E w \in Writers : fd[w] = i
Free == CHOOSE i \in Inodes : ~InUse(i)
OthersFreed == data' = [i \in Inodes |-> IF InUse(i)' THEN data[i] ELSE Torn]

SharesTemp == kind = "memory"

\* Mutant of Open: the file itself is opened when there is one.
OpenInPlace(w) ==
    /\ at[w] = "open"
    /\ LET i == IF file # Nil THEN file ELSE Free IN
          /\ fd' = [fd EXCEPT ![w] = i]
          /\ data' = [data EXCEPT ![i] = Torn]
    /\ GoTo(w, "write")
    /\ UNCHANGED <<kind, file, temp, lock, job, seen, saves, crashes, kept>>

\* open(tmp, "w") cuts off the file it finds under that name; mkstemp makes a new one.
Open(w) ==
    /\ at[w] = "open"
    /\ LET i == IF SharesTemp /\ temp # Nil THEN temp ELSE Free IN
          /\ fd' = [fd EXCEPT ![w] = i]
          /\ data' = [data EXCEPT ![i] = Torn]
          /\ temp' = IF SharesTemp THEN i ELSE temp
    /\ GoTo(w, "write")
    /\ UNCHANGED <<kind, file, lock, job, seen, saves, crashes, kept>>

WriteHalf(w) ==
    /\ at[w] = "write"
    /\ data' = [data EXCEPT ![fd[w]] = Half(w)]
    /\ GoTo(w, "finish")
    /\ UNCHANGED <<kind, file, temp, lock, job, fd, seen, saves, crashes, kept>>

WriteRest(w) ==
    /\ at[w] = "finish"
    /\ data' = [data EXCEPT ![fd[w]] = IF @ = Half(w) THEN seen[w] ELSE Torn]
    /\ GoTo(w, "rename")
    /\ UNCHANGED <<kind, file, temp, lock, job, fd, seen, saves, crashes, kept>>

\* os.replace.  It raises when another writer has renamed the shared temporary file away.
Rename(w) ==
    /\ at[w] = "rename"
    /\ LET source == IF SharesTemp THEN temp ELSE fd[w] IN
          /\ file' = IF source = Nil THEN file ELSE source
          /\ temp' = IF SharesTemp THEN Nil ELSE temp
          /\ kept' = IF source # Nil /\ job[w] = "append" THEN Append(kept, Last(seen[w].entries)) ELSE kept
          /\ GoTo(w, IF source = Nil \/ job[w] = "append" THEN "idle"
                     ELSE IF job[w] = "migrate" THEN "reread" ELSE "load")
    /\ job' = [job EXCEPT ![w] = IF @ = "migrate" THEN "mark" ELSE "append"]
    /\ fd' = [fd EXCEPT ![w] = Nil]
    /\ seen' = [seen EXCEPT ![w] = Empty]
    /\ lock' = IF lock = w THEN Nil ELSE lock
    /\ OthersFreed
    /\ UNCHANGED <<kind, saves, crashes>>

\* The process ends, its lock with it; a temporary file stays behind.
Crash(w) ==
    /\ at[w] # "idle" /\ crashes < MaxCrashes
    /\ crashes' = crashes + 1
    /\ lock' = IF lock = w THEN Nil ELSE lock
    /\ GoTo(w, "idle")
    /\ job' = [job EXCEPT ![w] = "append"]
    /\ fd' = [fd EXCEPT ![w] = Nil]
    /\ seen' = [seen EXCEPT ![w] = Empty]
    /\ UNCHANGED <<kind, file, temp, saves, kept>>
    /\ OthersFreed

Next ==
    \E w \in Writers :
        \/ Begin(w) \/ Load(w) \/ Reread(w) \/ CannotParse(w)
        \/ Open(w) \/ WriteHalf(w) \/ WriteRest(w) \/ Rename(w) \/ Crash(w)

Spec == Init /\ [][Next]_vars

----------------------------------------------------------------------------
\* What a reader finds, or Nil when it cannot be parsed, and the entry that came last.
Shown == IF Whole(file) THEN Contents(file).entries ELSE Nil
Newest == IF kept = <<>> THEN 0 ELSE Last(kept)

\* A store with a lock holds exactly the last entries saved, in the order of their saves,
\* whatever processes save at once or end in the middle of a save.
NothingIsLost == kind \in Locked => Contents(file).entries = Trim(kept)

\* A reader, who takes no lock, finds a whole file.
FilesAreWhole == kind \in Locked => Whole(file)

\* ... of the memories too, as access_log.py:99-101 says of get_memory.
MemoriesAreWhole == kind = "memory" => Whole(file)

\* The migration of the old keys runs at most once for a memory.json.
MigratedOnce == kind = "memory" /\ Whole(file) =>
        Cardinality({i \in DOMAIN Contents(file).entries : Contents(file).entries[i] = Legacy}) <= 1
=============================================================================
