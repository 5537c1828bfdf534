------------------------------ MODULE History ------------------------------
(***************************************************************************)
(* history_store.py and history_capture.py: the turns of each request in   *)
(* one SQLite database that the chat, the voice, the scheduler, Telegram   *)
(* and Alexa write from their own processes.  A request records its user   *)
(* turn, searches the past turns for its prompt (history_context.py), and  *)
(* records what it answered.  A transaction is atomic: only the first one, *)
(* which makes the tables, is looked at statement by statement.            *)
(***************************************************************************)
EXTENDS Integers, FiniteSets

CONSTANTS
    Requests,
    Processes,
    ProcessOf,    \* the process of each request
    SourceOf,     \* its source
    MaxFaults,    \* bound: transactions that fail
    MaxCrashes,   \* bound: processes that end
    MaxDamages,   \* bound: times the database is damaged or removed
    Nil

Sessions == [by : Requests, at : {"user", "assistant"}]

\* What is assumed of the constants.
HistoryAssumption ==
    /\ Nil \notin Requests \cup Sessions
    /\ ProcessOf \in [Requests -> Processes]
    /\ SourceOf \in [Requests -> {"chat", "voice", "telegram", "scheduled", "alexa"}]
    /\ MaxFaults \in Nat /\ MaxCrashes \in Nat /\ MaxDamages \in Nat

VARIABLES
    db,           \* the file, as last committed
    work,         \* the tables as the open transaction has made them
    tx,           \* the request whose transaction holds the write lock
    cache,        \* _process_sessions, of each process and source
    cacheLock,    \* _session_lock, of each process
    mapping,      \* _request_sessions
    at,           \* where each request is
    role,         \* the turn it is recording
    session,      \* session_id, once it has one
    search,       \* what its search of the history came to
    faults, crashes, damages

vars == <<db, work, tx, cache, cacheLock, mapping, at, role, session, search, faults, crashes, damages>>
counters == <<faults, crashes, damages>>

ProcessSources == {"chat", "voice", "telegram"}      \* _PROCESS_SESSION_SOURCES
IsCached(r) == SourceOf[r] \in ProcessSources

Turns == [request : Requests, role : {"user", "assistant"}, session : Sessions]

Absent == [file |-> "absent", tables |-> FALSE, version |-> 0, sessions |-> {}, turns |-> {}]
Made(v) == [file |-> "sqlite", tables |-> TRUE, version |-> v, sessions |-> {}, turns |-> {}]
Ready == Made(1)
Newer == Made(2)
Garbage == [Absent EXCEPT !.file = "garbage"]

Databases == [file : {"absent", "sqlite", "garbage"}, tables : BOOLEAN, version : 0 .. 2,
              sessions : SUBSET Sessions, turns : SUBSET Turns]

Recording == {"lookup", "connect", "schema", "tables", "stamp", "insert"}

TypeOK ==
    /\ db \in Databases /\ work \in Databases
    /\ tx \in Requests \cup {Nil}
    /\ cache \in [Processes -> [ProcessSources -> Sessions \cup {Nil}]]
    /\ cacheLock \in [Processes -> Requests \cup {Nil}]
    /\ mapping \in [Requests -> Sessions \cup {Nil}]
    /\ at \in [Requests -> Recording \cup {"new", "prelude", "running", "over"}]
    /\ role \in [Requests -> {"user", "assistant"}]
    /\ session \in [Requests -> Sessions \cup {Nil}]
    /\ search \in [Requests -> {"none", "empty", "found", "skipped", "raised"}]
    /\ faults \in 0 .. MaxFaults /\ crashes \in 0 .. MaxCrashes /\ damages \in 0 .. MaxDamages

Init ==
    /\ db \in {Absent, Ready, Newer}
    /\ work = Absent /\ tx = Nil
    /\ cache = [p \in Processes |-> [s \in ProcessSources |-> Nil]]
    /\ cacheLock = [p \in Processes |-> Nil]
    /\ mapping = [r \in Requests |-> Nil]
    /\ at = [r \in Requests |-> "new"]
    /\ role = [r \in Requests |-> "user"]
    /\ session = [r \in Requests |-> Nil]
    /\ search = [r \in Requests |-> "none"]
    /\ faults = 0 /\ crashes = 0 /\ damages = 0

----------------------------------------------------------------------------
GoTo(r, s) == at' = [at EXCEPT ![r] = s]
After(r) == IF role[r] = "user" THEN "prelude" ELSE "over"
LockOf(r) == cacheLock[ProcessOf[r]]
Unlock(r) == cacheLock' = IF LockOf(r) = r THEN [cacheLock EXCEPT ![ProcessOf[r]] = Nil] ELSE cacheLock

\* capture_user_turn.
Begin(r) ==
    /\ at[r] = "new"
    /\ GoTo(r, "lookup")
    /\ UNCHANGED <<db, work, tx, cache, cacheLock, mapping, role, session, search, counters>>

\* Mutant of MayLookUp: the cache is read without its lock.
LooksUpAnyTime(r) == TRUE

MayLookUp(r) == IsCached(r) => LockOf(r) = Nil

\* _get_or_create_session_id: the lock is kept until a missing session is made.
LookUp(r) ==
    /\ at[r] = "lookup" /\ MayLookUp(r)
    /\ LET known == IF IsCached(r) THEN cache[ProcessOf[r]][SourceOf[r]] ELSE Nil IN
          /\ session' = [session EXCEPT ![r] = known]
          /\ cacheLock' = IF IsCached(r) /\ known = Nil
                            THEN [cacheLock EXCEPT ![ProcessOf[r]] = r] ELSE cacheLock
    /\ GoTo(r, "connect")
    /\ UNCHANGED <<db, work, tx, cache, mapping, role, search, counters>>

\* _connect_writable makes the file when there is none,
Connect(r) ==
    /\ at[r] = "connect" /\ db.file # "garbage"
    /\ db' = [db EXCEPT !.file = "sqlite"]
    /\ GoTo(r, "schema")
    /\ UNCHANGED <<work, tx, cache, cacheLock, mapping, role, session, search, counters>>

\* and _ensure_schema looks at its version under BEGIN IMMEDIATE.
EnsureSchema(r) ==
    /\ at[r] = "schema" /\ tx = Nil /\ db.file = "sqlite"
    /\ \/ /\ db.version = 1
          /\ GoTo(r, "insert")
          /\ UNCHANGED <<work, tx>>
       \/ /\ db.version = 0 /\ ~db.tables
          /\ tx' = r /\ work' = db
          /\ GoTo(r, "tables")
    /\ UNCHANGED <<db, cache, cacheLock, mapping, role, session, search, counters>>

\* Mutant of Executed: each statement is committed at once.
AutoCommitted(new) == work' = new /\ db' = new

Executed(new) == work' = new /\ UNCHANGED db

CreateTables(r) ==
    /\ at[r] = "tables"
    /\ Executed([work EXCEPT !.tables = TRUE])
    /\ GoTo(r, "stamp")
    /\ UNCHANGED <<tx, cache, cacheLock, mapping, role, session, search, counters>>

StampAndCommit(r) ==
    /\ at[r] = "stamp"
    /\ db' = [work EXCEPT !.version = 1] /\ work' = Absent
    /\ tx' = Nil
    /\ GoTo(r, "insert")
    /\ UNCHANGED <<cache, cacheLock, mapping, role, session, search, counters>>

\* create_session mints a new id; the cache and its lock follow in the same thread.
CreateSession(r) ==
    /\ at[r] = "insert" /\ tx = Nil /\ session[r] = Nil /\ db.version = 1
    /\ LET new == [by |-> r, at |-> role[r]] IN
          /\ db' = [db EXCEPT !.sessions = @ \cup {new}]
          /\ session' = [session EXCEPT ![r] = new]
          /\ cache' = IF IsCached(r) THEN [cache EXCEPT ![ProcessOf[r]][SourceOf[r]] = new] ELSE cache
    /\ Unlock(r)
    /\ GoTo(r, "connect")
    /\ UNCHANGED <<work, tx, mapping, role, search, counters>>

\* record_turn: one row for a request and role, whose session must exist.
RecordTurn(r) ==
    /\ at[r] = "insert" /\ tx = Nil /\ session[r] # Nil /\ session[r] \in db.sessions
    /\ db' = IF \E t \in db.turns : t.request = r /\ t.role = role[r] THEN db
             ELSE [db EXCEPT !.turns = @ \cup {[request |-> r, role |-> role[r], session |-> session[r]]}]
    /\ mapping' = IF role[r] = "user" THEN [mapping EXCEPT ![r] = session[r]] ELSE mapping
    /\ session' = [session EXCEPT ![r] = Nil]
    /\ GoTo(r, After(r))
    /\ UNCHANGED <<work, tx, cache, cacheLock, role, search, counters>>

\* What cannot succeed: a newer schema, tables without a version, a damaged or vanished file,
\* a session that is not in it.
Hopeless(r) ==
    \/ at[r] = "connect" /\ db.file = "garbage"
    \/ at[r] = "schema" /\ (db.file # "sqlite" \/ db.version = 2 \/ (db.version = 0 /\ db.tables))
    \/ at[r] = "insert" /\ (db.version # 1 \/ session[r] \notin db.sessions \cup {Nil})

\* The capture gives up: that, or the lock was held past the busy timeout, or an I/O error.
CaptureFails(r) ==
    /\ at[r] \in Recording \ {"lookup"}
    /\ IF Hopeless(r) THEN UNCHANGED faults ELSE faults < MaxFaults /\ faults' = faults + 1
    /\ tx' = IF tx = r THEN Nil ELSE tx
    /\ work' = IF tx = r THEN Absent ELSE work
    /\ Unlock(r)
    /\ session' = [session EXCEPT ![r] = Nil]
    /\ GoTo(r, After(r))
    /\ UNCHANGED <<db, cache, mapping, role, search, crashes, damages>>

\* The prelude of execute_task_stream raises before the `try` whose `finally` finalizes.
PreludeRaises(r) ==
    /\ at[r] = "prelude"
    /\ GoTo(r, "over")
    /\ UNCHANGED <<db, work, tx, cache, cacheLock, mapping, role, session, search, counters>>

\* search_history for the prompt: build_history_context turns its own errors into nothing found.
Search(r) ==
    /\ at[r] = "prelude"
    /\ search' = [search EXCEPT ![r] =
                    CASE db.file = "garbage" -> "raised"      \* sqlite3.DatabaseError
                      [] db.file = "absent" \/ (db.file = "sqlite" /\ db.version = 0) -> "empty"
                      [] db.file = "sqlite" /\ db.version = 2 -> "skipped"
                      [] OTHER -> "found"]
    /\ GoTo(r, "running")
    /\ UNCHANGED <<db, work, tx, cache, cacheLock, mapping, role, session, counters>>

\* Mutant of SessionOfRequest: the assistant turn finds its session again.
NotMapped(r) == Nil

SessionOfRequest(r) == mapping[r]

\* capture_assistant_turn, once, in the `finally`; it records no empty text.
Answer(r) ==
    /\ at[r] = "running"
    /\ role' = [role EXCEPT ![r] = "assistant"]
    /\ mapping' = [mapping EXCEPT ![r] = Nil]
    /\ \/ GoTo(r, "over") /\ UNCHANGED session
       \/ /\ session' = [session EXCEPT ![r] = SessionOfRequest(r)]
          /\ GoTo(r, IF SessionOfRequest(r) = Nil THEN "lookup" ELSE "connect")
    /\ UNCHANGED <<db, work, tx, cache, cacheLock, search, counters>>

----------------------------------------------------------------------------
Of(p) == {r \in Requests : ProcessOf[r] = p}

\* A process ends: its open transaction is rolled back, its memory is gone.
Crash(p) ==
    /\ crashes < MaxCrashes /\ \E r \in Of(p) : at[r] \notin {"new", "over"}
    /\ crashes' = crashes + 1
    /\ at' = [r \in Requests |-> IF r \in Of(p) THEN "over" ELSE at[r]]
    /\ session' = [r \in Requests |-> IF r \in Of(p) THEN Nil ELSE session[r]]
    /\ mapping' = [r \in Requests |-> IF r \in Of(p) THEN Nil ELSE mapping[r]]
    /\ cache' = [cache EXCEPT ![p] = [s \in ProcessSources |-> Nil]]
    /\ cacheLock' = [cacheLock EXCEPT ![p] = Nil]
    /\ tx' = IF tx \in Of(p) THEN Nil ELSE tx
    /\ work' = IF tx \in Of(p) THEN Absent ELSE work
    /\ UNCHANGED <<db, role, search, faults, damages>>

\* The file is overwritten by something else, or removed, between two transactions.
Damage(new) ==
    /\ damages < MaxDamages /\ tx = Nil /\ db # new
    /\ damages' = damages + 1
    /\ db' = new
    /\ UNCHANGED <<work, tx, cache, cacheLock, mapping, at, role, session, search, faults, crashes>>

RequestStep(r) ==
    \/ Begin(r) \/ LookUp(r) \/ Connect(r) \/ EnsureSchema(r) \/ CreateTables(r)
    \/ StampAndCommit(r) \/ CreateSession(r) \/ RecordTurn(r) \/ CaptureFails(r)
    \/ PreludeRaises(r) \/ Search(r) \/ Answer(r)

Next ==
    \/ \E r \in Requests : RequestStep(r)
    \/ \E p \in Processes : Crash(p)
    \/ \E new \in {Garbage, Absent} : Damage(new)

Spec == Init /\ [][Next]_vars

----------------------------------------------------------------------------
\* A process has one session for the chat, the voice or Telegram, however many of its first
\* requests come at once and whichever transactions fail.
OneSession ==
    \A s, t \in db.sessions :
        /\ ProcessOf[s.by] = ProcessOf[t.by]
        /\ SourceOf[s.by] = SourceOf[t.by] /\ IsCached(s.by)
        => s = t

\* The turns of a request are in one session, that of a request of the same process and source.
TurnsTogether ==
    \A t \in db.turns :
        /\ SourceOf[t.session.by] = SourceOf[t.request]
        /\ ProcessOf[t.session.by] = ProcessOf[t.request]
        /\ \A u \in db.turns : u.request = t.request => u.session = t.session

\* A database has its version exactly when it has its tables: one that was interrupted can
\* be made again, and one that is read is complete.
SchemaIsWhole == db.version = 0 <=> ~db.tables

\* A search for the prompt never raises (history_context.py:34-37): whatever the database.
SearchNeverRaises == \A r \in Requests : search[r] # "raised"

\* A request that is over holds no place in _request_sessions (history_capture.py:47-50).
MappingIsInFlight == \A r \in Requests : at[r] = "over" => mapping[r] = Nil
=============================================================================
