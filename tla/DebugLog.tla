------------------------------ MODULE DebugLog ------------------------------
(***************************************************************************)
(* dbg.c of zenwinx: messages of several threads are collected in a list   *)
(* and appended to the log file later, by a flush.  Two events serve as    *)
(* locks: hListSynchEvent for the list, hLogSynchEvent for the log's path  *)
(* and file; a flush takes the second and, inside it, the first.  The flag *)
(* logging_enabled is guarded by neither.  Waits have a timeout of ages    *)
(* (MAX_WAIT_INTERVAL), so that they do not fail here.                     *)
(*                                                                         *)
(* A message is the number of its place among all messages that have been  *)
(* put into the list.  The log's own messages (traces of failures and of   *)
(* a new path) take the same way.                                          *)
(***************************************************************************)
EXTENDS Integers, Sequences, SequencesExt, FiniteSets

CONSTANTS Threads,   \* the process's threads
          Setters,   \* those that call winx_set_dbg_log
          Paths,     \* paths of log files
          NULL,      \* no path
          Empty,     \* a path that is an empty string
          Nobody,    \* the holder of a lock whose event is signalled
          Calls      \* bound: calls of the log's functions

ASSUME LogAssumption == /\ Setters \subseteq Threads /\ Nobody \notin Threads
                        /\ NULL \notin Paths /\ Empty \notin Paths \cup {NULL}

VARIABLES logging_enabled, log_path,
          dbg_log,     \* the list of messages
          lock,        \* "list", "log" |-> the thread that has the lock
          file,        \* path |-> what the file holds
          th,          \* thread |-> [at, ret, path, setting, old_dbg_log]
          count,       \* history: messages put into the list so far
          lost,        \* history: messages that were thrown away
          calls        \* what is left of Calls

vars == <<logging_enabled, log_path, dbg_log, lock, file, th, count, lost, calls>>

(* A thread: where it is; where add_dbg_log_entry returns to; the argument *)
(* of winx_set_dbg_log and whether the thread is inside it; the messages   *)
(* that its flush has taken off the list.                                  *)
IdleThread == [at |-> "idle", ret |-> "idle", path |-> NULL, setting |-> FALSE,
               old_dbg_log |-> <<>>]

Init == /\ logging_enabled = FALSE /\ log_path = NULL
        /\ dbg_log = <<>>
        /\ lock = [list |-> Nobody, log |-> Nobody]
        /\ file = [p \in Paths |-> <<>>]
        /\ th = [t \in Threads |-> IdleThread]
        /\ count = 0 /\ lost = {}
        /\ calls = Calls

Go(t, label) == th' = [th EXCEPT ![t].at = label]

(* winx_dbg_print inside another function, which goes on at `back'.        *)
Trace(t, back) == th' = [th EXCEPT ![t].at = "log", ![t].ret = back]

Call(t) == th[t].at = "idle" /\ calls > 0 /\ calls' = calls - 1

(* NtWaitForSingleObject on an event that lets one thread through.         *)
Acquire(t, l) == lock[l] = Nobody /\ lock' = [lock EXCEPT ![l] = t]

(* NtSetEvent: whoever calls it.                                           *)
SetEvent(l) == lock' = [lock EXCEPT ![l] = Nobody]

-----------------------------------------------------------------------------
(* winx_dbg_print and add_dbg_log_entry                                    *)

Log(t) == /\ Call(t)
          /\ Trace(t, "idle")
          /\ UNCHANGED <<logging_enabled, log_path, dbg_log, lock, file, count, lost>>

LogLocks(t) == /\ th[t].at = "log"
               /\ Acquire(t, "list")
               /\ Go(t, "append")
               /\ UNCHANGED <<logging_enabled, log_path, dbg_log, file, count, lost, calls>>

(* Mutant: new entries become the head of the list.                        *)
AppendFront(t) ==
  /\ th[t].at = "append"
  /\ IF logging_enabled
     THEN dbg_log' = <<count + 1>> \o dbg_log /\ count' = count + 1
     ELSE UNCHANGED <<dbg_log, count>>
  /\ SetEvent("list")
  /\ Go(t, th[t].ret)
  /\ UNCHANGED <<logging_enabled, log_path, file, lost, calls>>

(* The message goes to the end of the list, if logging is enabled and      *)
(* there is memory for it.                                                 *)
AppendEntry(t) ==
  /\ th[t].at = "append"
  /\ \/ /\ logging_enabled
        /\ dbg_log' = Append(dbg_log, count + 1)
        /\ count' = count + 1
     \/ UNCHANGED <<dbg_log, count>>
  /\ SetEvent("list")
  /\ Go(t, th[t].ret)
  /\ UNCHANGED <<logging_enabled, log_path, file, lost, calls>>

-----------------------------------------------------------------------------
(* winx_flush_dbg_log.  A thread inside winx_set_dbg_log has locked the    *)
(* log already (FLUSH_ALREADY_SYNCHRONIZED), and unlocks it later.         *)

Flush(t) == /\ Call(t)
            /\ Go(t, "flush")
            /\ UNCHANGED <<logging_enabled, log_path, dbg_log, lock, file, count, lost>>

FlushLocks(t) == /\ th[t].at = "flush"
                 /\ Acquire(t, "log")
                 /\ Go(t, "list lock")
                 /\ UNCHANGED <<logging_enabled, log_path, dbg_log, file, count, lost, calls>>

ListLocks(t) == /\ th[t].at = "list lock"
                /\ Acquire(t, "list")
                /\ Go(t, "detach")
                /\ UNCHANGED <<logging_enabled, log_path, dbg_log, file, count, lost, calls>>

(* Mutant: the list stays where it is.                                     *)
DetachCopies(t) ==
  /\ th[t].at = "detach"
  /\ th' = [th EXCEPT ![t].at = "open", ![t].old_dbg_log = dbg_log]
  /\ SetEvent("list")
  /\ UNCHANGED <<logging_enabled, log_path, dbg_log, file, count, lost, calls>>

(* The list is taken off dbg_log.                                          *)
Detach(t) == /\ th[t].at = "detach"
             /\ th' = [th EXCEPT ![t].at = "open", ![t].old_dbg_log = dbg_log]
             /\ dbg_log' = <<>>
             /\ SetEvent("list")
             /\ UNCHANGED <<logging_enabled, log_path, file, count, lost, calls>>

(* Without messages or without a path there is nothing to write; a file    *)
(* that cannot be opened is traced.  In both cases the messages that have  *)
(* been taken off the list are gone.  A path that is an empty string is    *)
(* none of a file.                                                         *)
Open(t) ==
  /\ th[t].at = "open"
  /\ LET old == th[t].old_dbg_log
     IN  \/ /\ old = <<>> \/ log_path = NULL
            /\ th' = [th EXCEPT ![t].at = "flushed", ![t].old_dbg_log = <<>>]
            /\ lost' = lost \cup ToSet(old)
         \/ /\ old # <<>> /\ log_path # NULL
            /\ \/ log_path # Empty /\ Go(t, "write") /\ UNCHANGED lost
               \/ /\ th' = [th EXCEPT ![t].at = "log", ![t].ret = "flushed",
                                      ![t].old_dbg_log = <<>>]
                  /\ lost' = lost \cup ToSet(old)
  /\ UNCHANGED <<logging_enabled, log_path, dbg_log, lock, file, count, calls>>

(* One message after the other is written to the file.                     *)
Write(t) ==
  /\ th[t].at = "write"
  /\ LET old == th[t].old_dbg_log
     IN  /\ file' = [file EXCEPT ![log_path] = Append(@, Head(old))]
         /\ th' = [th EXCEPT ![t].at = IF Len(old) = 1 THEN "flushed" ELSE "write",
                             ![t].old_dbg_log = Tail(old)]
  /\ UNCHANGED <<logging_enabled, log_path, dbg_log, lock, count, lost, calls>>

(* Mutant: the log stays locked.                                           *)
FlushedKeepsLock(t) ==
  /\ th[t].at = "flushed"
  /\ Go(t, IF th[t].setting THEN "set path" ELSE "idle")
  /\ UNCHANGED <<logging_enabled, log_path, dbg_log, lock, file, count, lost, calls>>

Flushed(t) ==
  /\ th[t].at = "flushed"
  /\ IF th[t].setting THEN Go(t, "set path") /\ UNCHANGED lock
                      ELSE Go(t, "idle") /\ SetEvent("log")
  /\ UNCHANGED <<logging_enabled, log_path, dbg_log, file, count, lost, calls>>

-----------------------------------------------------------------------------
(* winx_set_dbg_log                                                        *)

(* The flag is set before anything is locked.                              *)
SetLog(t, p) ==
  /\ Call(t)
  /\ logging_enabled' = (p \in Paths)
  /\ th' = [th EXCEPT ![t].at = "check", ![t].path = p, ![t].setting = TRUE]
  /\ UNCHANGED <<log_path, dbg_log, lock, file, count, lost>>

(* The flag is read again: another thread may have set it meanwhile.       *)
CheckFlag(t) ==
  /\ th[t].at = "check"
  /\ Go(t, IF logging_enabled THEN "create path" ELSE "set")
  /\ UNCHANGED <<logging_enabled, log_path, dbg_log, lock, file, count, lost, calls>>

(* A directory that cannot be made is traced.                              *)
CreatePath(t) ==
  /\ th[t].at = "create path"
  /\ Go(t, "set") \/ Trace(t, "set")
  /\ UNCHANGED <<logging_enabled, log_path, dbg_log, lock, file, count, lost, calls>>

(* A log that is to change is flushed first; NULL and an empty string are  *)
(* two paths here.                                                         *)
SetLocks(t) ==
  /\ th[t].at = "set"
  /\ Acquire(t, "log")
  /\ Go(t, IF th[t].path # log_path THEN "list lock" ELSE "set path")
  /\ UNCHANGED <<logging_enabled, log_path, dbg_log, file, count, lost, calls>>

(* The old path is freed; what comes next depends on the flag, which       *)
(* another thread may have changed.                                        *)
SetPath(t) == /\ th[t].at = "set path"
              /\ log_path' = NULL
              /\ IF logging_enabled THEN Trace(t, "set new") ELSE Go(t, "set done")
              /\ UNCHANGED <<logging_enabled, dbg_log, lock, file, count, lost, calls>>

(* Without memory for the path, this is traced and there is no path.  The  *)
(* flag may be another thread's, and the path an empty string.             *)
SetNewPath(t) == /\ th[t].at = "set new"
                 /\ \/ log_path' = th[t].path /\ Go(t, "set done")
                    \/ UNCHANGED log_path /\ Trace(t, "set done")
                 /\ UNCHANGED <<logging_enabled, dbg_log, lock, file, count, lost, calls>>

SetDone(t) == /\ th[t].at = "set done"
              /\ SetEvent("log")
              /\ th' = [th EXCEPT ![t].at = "idle", ![t].setting = FALSE]
              /\ UNCHANGED <<logging_enabled, log_path, dbg_log, file, count, lost, calls>>

-----------------------------------------------------------------------------
(* wcsrchr(path) and &path[4] of a null path end the process.              *)
Dead == \E t \in Threads : th[t].at \in {"create path", "set new"} /\ th[t].path = NULL

(* The steps that wait for a lock, and the others of a call under way.     *)
Waiting(t) == ~Dead /\ (LogLocks(t) \/ FlushLocks(t) \/ ListLocks(t) \/ SetLocks(t))

Going(t) == /\ ~Dead
            /\ \/ AppendEntry(t)
               \/ Detach(t) \/ Open(t) \/ Write(t) \/ Flushed(t)
               \/ CheckFlag(t) \/ CreatePath(t)
               \/ SetPath(t) \/ SetNewPath(t) \/ SetDone(t)

Start(t) == /\ ~Dead
            /\ \/ Log(t) \/ Flush(t)
               \/ t \in Setters /\ \E p \in Paths \cup {Empty, NULL} : SetLog(t, p)

Next == \E t \in Threads : Start(t) \/ Waiting(t) \/ Going(t)

(* Threads are scheduled, and the system serves those who wait for an      *)
(* event in turn, so that nobody is passed over for ever.                  *)
Fairness == \A t \in Threads : WF_vars(Going(t)) /\ SF_vars(Waiting(t))

Spec == Init /\ [][Next]_vars /\ Fairness

-----------------------------------------------------------------------------
Labels == {"idle", "log", "append", "flush", "list lock", "detach", "open", "write", "flushed",
           "check", "create path", "set", "set path", "set new", "set done"}

(* The list and the files hold messages that were logged.                  *)
TypeOK == /\ logging_enabled \in BOOLEAN
          /\ log_path \in Paths \cup {Empty, NULL}
          /\ dbg_log \in Seq(1 .. count)
          /\ \A l \in DOMAIN lock : lock[l] \in Threads \cup {Nobody}
          /\ \A p \in Paths : file[p] \in Seq(1 .. count)
          /\ \A t \in Threads : th[t].at \in Labels /\ th[t].ret \in Labels

(* The places at which a thread must have the lock: dbg_log is changed,    *)
(* log_path and the file are used.                                         *)
AtList(t) == th[t].at \in {"append", "detach"}

AtLog(t) == \/ th[t].at \in {"list lock", "detach", "open", "write", "flushed", "set path",
                             "set new", "set done"}
            \/ th[t].at \in {"log", "append"} /\ th[t].ret \in {"flushed", "set new", "set done"}

(* Nobody touches the list, the path or the file while another does: the   *)
(* events are given back by those who took them, on every way out, and by  *)
(* no one else (an event that is set twice would let two threads in).      *)
Exclusive ==
  \A t \in Threads : /\ AtList(t) <=> lock.list = t
                     /\ AtLog(t) <=> lock.log = t

Increasing(s) == \A i, j \in DOMAIN s : i < j => s[i] < s[j]

(* Each file has the messages in the order in which they were logged, none *)
(* twice, whoever flushes and however often the log changes.               *)
FilesInOrder == /\ Increasing(dbg_log)
                /\ \A p \in Paths : Increasing(file[p])

(* The places at which a message can be: the list, the way to a file, a    *)
(* file, or nowhere any more.                                              *)
Places == {<<"list", NULL>>, <<"lost", NULL>>} \cup ({"file"} \X Paths) \cup ({"thread"} \X Threads)

Everywhere ==
  [w \in Places |->
     CASE w[1] = "list"   -> ToSet(dbg_log)
       [] w[1] = "lost"   -> lost
       [] w[1] = "file"   -> ToSet(file[w[2]])
       [] w[1] = "thread" -> ToSet(th[w[2]].old_dbg_log)]

(* No message of the list is lost without a trace or written twice: it is  *)
(* in one place, whichever threads flush and set the path.                 *)
EveryMessageOnce ==
  /\ UNION { Everywhere[w] : w \in Places } = 1 .. count
  /\ \A v, w \in Places : v # w => Everywhere[v] \cap Everywhere[w] = {}

(* Every call returns, as long as the process lives: no thread waits for   *)
(* ever for another.                                                       *)
CallsReturn == \A t \in Threads : th[t].at # "idle" ~> th[t].at = "idle" \/ Dead

(*------------------------- what the code says of itself ------------------*)

(* dbg.c 25: `If logging to the file is enabled, they will be saved there  *)
(* too': no message that was accepted is lost unless a file fails.         *)
SavedIfEnabled ==
  \A t \in Threads : th[t].at = "open" /\ log_path = NULL => th[t].old_dbg_log = <<>>

(* dbg.c 743: `NULL or an empty string forces to [...] disable logging':   *)
(* such a call never comes to the lines that take its path to be there     *)
(* (dbg.c 760: wcsrchr(path,..), 790: &path[4]).                           *)
PathIsThere == ~Dead
=============================================================================
