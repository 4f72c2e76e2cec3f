------------------------------ MODULE Sessions ------------------------------
(***************************************************************************)
(* One conversation of the Queen: the entries of its DAG                   *)
(* (session/dag.py), the objects of session/manager.py that hold them in   *)
(* memory, the append-only file they are loaded from, and what happens to  *)
(* them in agent/loop.py: turns, the background consolidation, /new,       *)
(* /reset and the factory reset.                                           *)
(*                                                                         *)
(* The run loop takes one message at a time, so the commands do not        *)
(* interleave with a turn; the consolidations do, for they are tasks that  *)
(* read the path of a DAG, wait for the LLM, and then write to the DAG the *)
(* session object has by that time.                                        *)
(***************************************************************************)
EXTENDS Integers, Sequences, FiniteSets

CONSTANTS
  MemoryWindow, \* config: compaction starts beyond this many messages
  MaxEntries,   \* bound: entries written altogether
  MaxObjects,   \* bound: Session objects alive at a time
  MaxTasks,     \* bound: consolidations in flight
  MaxCommands,  \* bound: commands that drop or wipe the session
  MaxCrashes    \* bound: restarts

ASSUME SessionsAssumption ==
  /\ MemoryWindow \in Nat \ {0}
  /\ MaxEntries \in Nat /\ MaxCommands \in Nat /\ MaxCrashes \in Nat
  /\ MaxTasks \in Nat \ {0}
  /\ MaxObjects \in Nat /\ MaxObjects > MaxTasks

Id == 1 .. MaxEntries
Object == 1 .. MaxObjects
Task == 1 .. MaxTasks
None == 0            \* no entry, no object

VARIABLES
  entry,      \* every entry ever written: its parent, kind, first kept entry, and the
              \* messages the LLM was given to summarise
  file,       \* {safe_key}.jsonl: readable entries, the last one, a torn last line
  obj,        \* Session objects: known entries, leaf, last_consolidated, metadata
  cached,     \* the object in SessionManager._cache, or None
  inTurn,     \* a turn waits for the LLM, on the cached object
  task,       \* _consolidate_memory tasks
  commands, crashes,
  said,       \* history: the messages of turns, since the last reset
  exposed,    \* history: those that Unsummarised, Skipped, Glued and Misplaced cost
  fileIsOwn   \* history: since it was opened, only the cached object wrote the file

vars == <<entry, file, obj, cached, inTurn, task, commands, crashes,
          said, exposed, fileIsOwn>>

-----------------------------------------------------------------------------
(* DagSession.                                                             *)

\* get_path: from the leaf to the root, or to an entry whose parent is unknown.
PathTo(ids, leaf) ==
  LET walk[n \in 0 .. Len(entry)] ==
        IF n \in ids THEN Append(walk[entry[n].parent], n) ELSE <<>>
  IN  walk[leaf]

Path(s) == PathTo(s.ids, s.leaf)
Entries(p) == {p[i] : i \in DOMAIN p}
Messages(p) == {n \in Entries(p) : entry[n].kind = "message"}
MessageCount(s) == Cardinality(Messages(Path(s)))

\* build_context: the messages from the first kept one of the latest compaction
\* on the path, or after the compaction itself if it kept nothing.
Context(p) ==
  LET comps == {i \in DOMAIN p : entry[p[i]].kind = "compaction"}
      last == CHOOSE i \in comps : \A j \in comps : j <= i
      kept == entry[p[last]].kept
      starts == IF comps = {} THEN {1}
                ELSE IF kept = None THEN {last} ELSE {i \in DOMAIN p : p[i] = kept}
  IN  {n \in Messages(p) : \E i \in starts : \E j \in i .. Len(p) : p[j] = n}

\* What the summaries on a path are of.
Summarised(p) == UNION {entry[n].covers : n \in Entries(p)}

-----------------------------------------------------------------------------
(* SessionManager.                                                         *)

NoFile == [exists |-> FALSE, ids |-> {}, last |-> None, torn |-> FALSE]
FreshObject == [ids |-> {}, leaf |-> None, lastConsolidated |-> 0, disk |-> TRUE,
                awaitsReset |-> FALSE]

\* _load: malformed lines are skipped and the last entry of the file is the leaf.
Loaded == [FreshObject EXCEPT !.ids = file.ids, !.leaf = file.last]

Idle == [object |-> None, archive |-> FALSE, kept |-> None, old |-> {}, window |-> {}]
Busy == {t \in Task : task[t] # Idle}
FreeTasks == Task \ Busy
FreeTask == CHOOSE t \in FreeTasks : \A u \in FreeTasks : t <= u
FreeObject ==
  CHOOSE o \in Object \ ({cached} \cup {task[t].object : t \in Task}) : TRUE

\* get_or_create: the cached object, or one loaded from the file, or a new file.
Opened == IF cached # None THEN cached ELSE FreeObject
OpenedObject == IF cached # None THEN obj[cached] ELSE Loaded
OpenedFile == IF cached = None THEN [file EXCEPT !.exists = TRUE] ELSE file
OwnAfterOpen == cached = None \/ fileIsOwn

\* An object nobody refers to any more is gone.
Collected(objs, tasks, inCache) ==
  [o \in Object |-> IF o = inCache \/ \E t \in Task : tasks[t].object = o
                    THEN objs[o] ELSE FreshObject]

\* Session.clear: a new DAG that has no file.
Cleared(s) == [s EXCEPT !.ids = {}, !.leaf = None, !.lastConsolidated = 0, !.disk = FALSE]

Least(S) == CHOOSE n \in S : \A m \in S : n <= m
Greatest(S) == CHOOSE n \in S : \A m \in S : n >= m

\* Mutant: the new entry is taken for the leaf even if its line is unreadable.
BugLast(f, new) ==
  [f EXCEPT !.exists = TRUE, !.ids = @ \cup (IF f.torn THEN new \ {Least(new)} ELSE new),
            !.last = Greatest(new), !.torn = FALSE]

\* Mutant: new entries reach the index, and the file only if it is not empty.
BugWithLines(f, new) ==
  IF f.ids = {} THEN f ELSE [f EXCEPT !.ids = @ \cup new, !.last = Greatest(new)]

\* _write_line, once for each of the new entries.  A line appended to a torn one
\* makes a single malformed line with it.
WithLines(f, new) ==
  LET read == IF f.torn THEN new \ {Least(new)} ELSE new
  IN  [exists |-> TRUE, ids |-> f.ids \cup read, torn |-> FALSE,
       last |-> IF read = {} THEN f.last ELSE Greatest(read)]

\* The next k entries, each the child of the one before, registered in s.
NewIds(k) == Len(entry) + 1 .. Len(entry) + k
NewMessages(s, k) ==
  entry \o [i \in 1 .. k |-> [parent |-> IF i = 1 THEN s.leaf ELSE Len(entry) + i - 1,
                              kind |-> "message", kept |-> None, covers |-> {}]]
Registered(s, k) == [s EXCEPT !.ids = @ \cup NewIds(k), !.leaf = Len(entry) + k]

-----------------------------------------------------------------------------
(* _consolidate_memory.                                                    *)

Keep == MemoryWindow \div 2

\* path[last_consolidated:-keep_count], which is empty if keep_count is 0.
OldEntries(s) ==
  LET p == Path(s) IN
  IF Keep = 0 THEN <<>> ELSE SubSeq(p, s.lastConsolidated + 1, Len(p) - Keep)

\* Mutant: nothing is kept in the context beside the summary.
BugFirstKept(p, archive) == None

\* path[-keep_count]; with archive_all nothing is kept.
FirstKept(p, archive) == IF archive THEN None ELSE p[Len(p) - Keep + 1]

\* The part before the LLM call: the path and the entries to summarise.
Reading(o, s, archive) ==
  LET p == Path(s) IN
  [object |-> o, archive |-> archive, kept |-> FirstKept(p, archive),
   old |-> Messages(IF archive THEN p ELSE OldEntries(s)),
   window |-> Messages(IF archive THEN <<>> ELSE SubSeq(p, Len(p) - Keep + 1, Len(p)))]

\* The turn that finds the session too long starts one, unless nothing is new.
NeedsCompaction(s) ==
  /\ MessageCount(s) > MemoryWindow
  /\ MessageCount(s) - s.lastConsolidated >= Keep
  /\ OldEntries(s) # <<>>

\* History: the answer had no history_entry.  last_consolidated counts what was to be
\* summarised all the same, so that the next summary passes over it.
Unsummarised(c) == IF c.archive THEN {} ELSE c.old

\* History: last_consolidated will count messages written during the LLM call as if they
\* had been summarised, and with them those that were to be kept.
Skipped(new) ==
  IF Busy = {} THEN {} ELSE new \cup UNION {task[t].window : t \in Busy}

\* History: the line that is glued to a torn one is lost, and with it the way to all
\* that came before.
Glued == 1 .. Len(entry) + 1

-----------------------------------------------------------------------------
SessionsTypeOK ==
  /\ Len(entry) <= MaxEntries
  /\ \A n \in DOMAIN entry :
       /\ entry[n].parent \in 0 .. n - 1 /\ entry[n].kept \in 0 .. n - 1
       /\ entry[n].kind \in {"message", "compaction"} /\ entry[n].covers \subseteq 1 .. n - 1
  /\ file \in [exists : BOOLEAN, ids : SUBSET Id, last : {None} \cup Id, torn : BOOLEAN]
  /\ file.ids # {} => file.last \in file.ids
  /\ \A o \in Object :
       /\ obj[o].ids \subseteq Id /\ obj[o].lastConsolidated \in Int
       /\ obj[o].ids # {} => obj[o].leaf \in obj[o].ids
       /\ o = cached => obj[o].lastConsolidated >= 0
  /\ cached \in {None} \cup Object
  /\ inTurn \in BOOLEAN /\ (inTurn => cached # None)
  /\ \A t \in Busy : task[t].object \in Object
  /\ said \subseteq Id /\ exposed \subseteq Id

Init ==
  /\ entry = <<>> /\ file = NoFile
  /\ obj = [o \in Object |-> FreshObject]
  /\ cached = None /\ inTurn = FALSE
  /\ task = [t \in Task |-> Idle]
  /\ commands = 0 /\ crashes = 0
  /\ said = {} /\ exposed = {} /\ fileIsOwn = TRUE

\* A turn opens the session, may start a compaction, and waits for the LLM.
TurnBegins ==
  LET needs == NeedsCompaction(OpenedObject) IN
  /\ ~inTurn
  /\ inTurn' = TRUE /\ cached' = Opened
  /\ obj' = [obj EXCEPT ![Opened] = OpenedObject]
  /\ file' = OpenedFile /\ fileIsOwn' = OwnAfterOpen
  /\ needs => FreeTasks # {}
  /\ task' = IF needs THEN [task EXCEPT ![FreeTask] = Reading(Opened, OpenedObject, FALSE)]
             ELSE task
  /\ UNCHANGED <<entry, commands, crashes, said, exposed>>

\* add_message twice on object o, which becomes s, and sessions.save.
Exchange(o, s, f, own, risk) ==
  /\ Len(entry) + 2 <= MaxEntries
  /\ entry' = NewMessages(s, 2)
  /\ obj' = [obj EXCEPT ![o] = Registered(s, 2)]
  /\ file' = WithLines(f, NewIds(2))
  /\ cached' = o
  /\ exposed' = risk \cup Skipped(NewIds(2)) \cup (IF f.torn THEN Glued ELSE {})
  /\ fileIsOwn' = (own /\ ~f.torn)

TurnEnds ==
  /\ inTurn
  /\ Exchange(cached, obj[cached], file, fileIsOwn, exposed)
  /\ inTurn' = FALSE
  /\ said' = said \cup NewIds(2)
  /\ UNCHANGED <<task, commands, crashes>>

\* The iteration raised: the user gets an error, the session nothing.
TurnFails ==
  /\ inTurn
  /\ inTurn' = FALSE
  /\ UNCHANGED <<entry, file, obj, cached, task, commands, crashes,
                 said, exposed, fileIsOwn>>

\* last_consolidated, from the count of messages at this moment.
CountAfter(c, s) == IF c.archive THEN 0 ELSE Cardinality(Messages(Path(s))) - Keep

\* History: a wipe or a torn line may have cut the first kept entry off from the summary
\* in the file; build_context then finds no message to start from.
Misplaced(c, s) ==
  IF ~s.disk THEN {}
  ELSE IF c.kept \notin {None} \cup Entries(PathTo(file.ids, s.leaf)) THEN Id
  ELSE IF file.torn THEN Glued ELSE {}

\* DagSession.compact on the session object s: the leaf gets a summary for its child, and
\* the file its line, if the DAG has one.
Summary(s, c) ==
  [parent |-> s.leaf, kind |-> "compaction", kept |-> c.kept, covers |-> c.old]

Compacts(c, s) ==
  /\ Len(entry) < MaxEntries
  /\ entry' = Append(entry, Summary(s, c))
  /\ file' = IF s.disk THEN WithLines(file, NewIds(1)) ELSE file
  /\ fileIsOwn' = (fileIsOwn /\ (s.disk => c.object = cached /\ ~file.torn))
  /\ exposed' = exposed \cup Misplaced(c, s)

\* The task is over and leaves its object as s.
TaskEnds(t, s) ==
  /\ task' = [task EXCEPT ![t] = Idle]
  /\ obj' = Collected([obj EXCEPT ![task[t].object] = s], task', cached)

\* The LLM has answered, with a history entry for the DAG or with none.  MEMORY.md is
\* written, or needs not be, and the messages count as consolidated either way.
ConsolidationEnds(t) ==
  LET c == task[t]
      s == obj[c.object]
      counted(s2) == [s2 EXCEPT !.lastConsolidated = CountAfter(c, s)] IN
  /\ t \in Busy
  /\ \/ Compacts(c, s) /\ TaskEnds(t, counted(Registered(s, 1)))
     \/ /\ exposed' = exposed \cup Unsummarised(c)
        /\ TaskEnds(t, counted(s))
        /\ UNCHANGED <<entry, file, fileIsOwn>>
  /\ UNCHANGED <<cached, inTurn, commands, crashes, said>>

\* MEMORY.md cannot be written: the summary stays, but nothing counts as consolidated.
MemoryWriteFails(t) ==
  /\ t \in Busy
  /\ Compacts(task[t], obj[task[t].object])
  /\ TaskEnds(t, Registered(obj[task[t].object], 1))
  /\ UNCHANGED <<cached, inTurn, commands, crashes, said>>

\* The call failed, or its answer was empty or no JSON object, or it had no history entry
\* and MEMORY.md could not be written.
ConsolidationFails(t) ==
  /\ t \in Busy
  /\ TaskEnds(t, obj[task[t].object])
  /\ UNCHANGED <<entry, file, cached, inTurn, commands, crashes,
                 said, exposed, fileIsOwn>>

Command ==
  /\ ~inTurn /\ commands < MaxCommands
  /\ commands' = commands + 1

\* /new: the session object is cleared and dropped from the cache; its DAG goes to
\* a temporary session, which a task archives.  The file stays.
NewCommand ==
  /\ Command
  /\ FreeTasks # {}
  /\ LET tmp == CHOOSE o \in Object \ ({Opened} \cup {task[t].object : t \in Task}) : TRUE
       IN
       /\ task' = [task EXCEPT ![FreeTask] = Reading(tmp, OpenedObject, TRUE)]
       /\ obj' = Collected([obj EXCEPT ![Opened] = Cleared(OpenedObject),
                              ![tmp] = [OpenedObject EXCEPT !.lastConsolidated = 0]],
                           task', None)
  /\ cached' = None /\ file' = OpenedFile
  /\ UNCHANGED <<entry, inTurn, crashes, said, exposed, fileIsOwn>>

\* /reset: the file is deleted and the object dropped.
ResetCommand ==
  /\ Command
  /\ cached' = None /\ file' = NoFile
  /\ obj' = Collected(obj, task, None)
  /\ said' = {}
  /\ UNCHANGED <<entry, inTurn, task, crashes, exposed, fileIsOwn>>

\* /factory-reset only asks, and remembers in the object that it did.
FactoryResetAsks ==
  /\ Command
  /\ Exchange(Opened, [OpenedObject EXCEPT !.awaitsReset = TRUE], OpenedFile,
              OwnAfterOpen, exposed)
  /\ said' = said \cup NewIds(2)
  /\ UNCHANGED <<inTurn, task, crashes>>

\* factory_reset: the sessions directory is moved to a backup.
WipedFile == NoFile

\* The confirmation: the session files are wiped, then the exchange goes to
\* the object that is still cached, and from there to a file without the rest.
FactoryResetConfirmed ==
  /\ ~inTurn /\ cached # None
  /\ obj[cached].awaitsReset
  /\ Exchange(cached, [obj[cached] EXCEPT !.awaitsReset = FALSE],
              WipedFile, FALSE, exposed)
  /\ said' = NewIds(2)
  /\ UNCHANGED <<inTurn, task, commands, crashes>>

\* The gateway dies and comes back: of the conversation only the file survives.
ForgetObjects ==
  /\ crashes < MaxCrashes
  /\ crashes' = crashes + 1
  /\ cached' = None /\ inTurn' = FALSE
  /\ obj' = [o \in Object |-> FreshObject]
  /\ task' = [t \in Task |-> Idle]

Restart ==
  /\ ForgetObjects
  /\ UNCHANGED <<entry, file, commands, said, exposed, fileIsOwn>>

\* It dies within the writes of a turn's end: k lines are complete, the next is torn.
CrashWhileWriting ==
  /\ inTurn /\ Len(entry) + 2 <= MaxEntries
  /\ \E k \in {0, 1} :
       LET whole == IF k = 0 THEN file ELSE WithLines(file, NewIds(1)) IN
       /\ entry' = NewMessages(obj[cached], k)
       /\ file' = [whole EXCEPT !.torn = TRUE]
       /\ said' = said \cup NewIds(k)
       /\ exposed' = exposed \cup (IF k = 1 /\ file.torn THEN Glued ELSE {})
  /\ ForgetObjects
  /\ UNCHANGED <<commands, fileIsOwn>>

\* It dies in a consolidation: the summary is on file, or half of its line, and its
\* messages do not count as consolidated.
CrashWhileConsolidating(t) ==
  LET s == obj[task[t].object] IN
  /\ t \in Busy /\ s.disk
  /\ \/ Compacts(task[t], s)
     \/ /\ file' = [file EXCEPT !.exists = TRUE, !.torn = TRUE]
        /\ UNCHANGED <<entry, exposed, fileIsOwn>>
  /\ ForgetObjects
  /\ UNCHANGED <<commands, said>>

Next ==
  \/ TurnBegins \/ TurnEnds \/ TurnFails
  \/ \E t \in Task : ConsolidationEnds(t) \/ MemoryWriteFails(t) \/ ConsolidationFails(t)
  \/ NewCommand \/ ResetCommand
  \/ FactoryResetAsks \/ FactoryResetConfirmed
  \/ Restart \/ CrashWhileWriting \/ \E t \in Task : CrashWhileConsolidating(t)

Spec == Init /\ [][Next]_vars

-----------------------------------------------------------------------------
(* Properties.                                                             *)

CurrentPath == IF cached # None THEN Path(obj[cached]) ELSE PathTo(file.ids, file.last)

\* Every message is still in what build_context gives to the next turn (get_history
\* takes the last memory_window of it), or a summary on the branch was made of it: through
\* compactions, /new, failed answers, a MEMORY.md that is left as it was or cannot be
\* written, and crashes.  The exceptions: what an answer without a history entry left out
\* (Unsummarised); messages written while a consolidation waited for the LLM, with those it
\* was to keep (Skipped); all that came before a line glued to a torn one (Glued); and
\* everything once a summary has reached the file whose first kept entry its branch there
\* does not have (Misplaced).
NothingForgotten ==
  said \ exposed \subseteq Context(CurrentPath) \cup Summarised(CurrentPath)

\* A restart gives back the very branch that was in memory, unless someone else
\* than the cached object has written to the file or a line was lost: the leaf is
\* the last entry of the file, whatever compactions came in between.
RestartKeepsBranch ==
  (cached # None /\ fileIsOwn) => PathTo(file.ids, file.last) = Path(obj[cached])
=============================================================================
