--------------------------- MODULE DebugLogProofs ---------------------------
(***************************************************************************)
(* Proofs about DebugLog: for any number of threads, paths and calls.      *)
(***************************************************************************)
EXTENDS DebugLog, SequenceTheorems, TLAPS

ThreadState == [at : Labels, ret : Labels, path : Paths \cup {Empty, NULL}, setting : BOOLEAN,
                old_dbg_log : Seq(Nat)]

Types == /\ logging_enabled \in BOOLEAN
         /\ log_path \in Paths \cup {Empty, NULL}
         /\ dbg_log \in Seq(Nat)
         /\ lock \in [{"list", "log"} -> Threads \cup {Nobody}]
         /\ file \in [Paths -> Seq(Nat)]
         /\ th \in [Threads -> ThreadState]
         /\ count \in Nat

(* Where a trace goes back to; only a flush between the two locks has      *)
(* messages of its own; it writes some, to a path.                         *)
Position(t) ==
  /\ th[t].at \in {"log", "append"}
       => th[t].ret \in {"idle", "set", "flushed", "set new", "set done"}
  /\ th[t].at \notin {"open", "write"} => th[t].old_dbg_log = <<>>
  /\ th[t].at = "write" => th[t].old_dbg_log # <<>> /\ log_path \in Paths

Positions == \A t \in Threads : Position(t)

Control == Types /\ Positions /\ Exclusive

(* The messages of s were logged before those of t.                        *)
Before(s, t) == \A i \in DOMAIN s, j \in DOMAIN t : s[i] < t[j]

(* What has been written was logged before what is on its way to a file,   *)
(* and this before what is in the list.                                    *)
Order ==
  /\ Increasing(dbg_log)
  /\ \A t \in Threads : Increasing(th[t].old_dbg_log) /\ Before(th[t].old_dbg_log, dbg_log)
  /\ \A p \in Paths : /\ Increasing(file[p]) /\ Before(file[p], dbg_log)
                      /\ \A t \in Threads : Before(file[p], th[t].old_dbg_log)
  /\ \A i \in DOMAIN dbg_log : dbg_log[i] \in 1 .. count
  /\ \A t \in Threads : \A i \in DOMAIN th[t].old_dbg_log : th[t].old_dbg_log[i] \in 1 .. count
  /\ \A p \in Paths : \A i \in DOMAIN file[p] : file[p][i] \in 1 .. count

-----------------------------------------------------------------------------
(* What a step of t does to a lock l that is needed where `at' holds: it   *)
(* leaves both alone, takes it on the way in or gives it back on the way   *)
(* out.                                                                    *)
LockStep(t, l, at, atNext) ==
  \/ lock'[l] = lock[l] /\ (atNext <=> at)
  \/ lock[l] = Nobody /\ lock'[l] = t /\ atNext
  \/ lock'[l] = Nobody /\ at /\ ~atNext

(* A step of t alone keeps the locks with those who took them.             *)
LEMMA StepControl ==
  ASSUME Control, Types', NEW t \in Threads,
         \A u \in Threads : u # t => th'[u] = th[u],
         Position(t)',
         log_path' = log_path \/ AtLog(t),
         LockStep(t, "list", AtList(t), AtList(t)'),
         LockStep(t, "log", AtLog(t), AtLog(t)')
  PROVE  Control'
<1>1. Types /\ Positions /\ Exclusive
  BY DEF Control
<1>2. ASSUME NEW u \in Threads, u # t PROVE Position(u)'
  <2>1. th'[u] = th[u] /\ Position(u)
    BY <1>1, <1>2 DEF Positions
  <2>2. th[u].at = "write" => log_path' = log_path
    <3>1. AtLog(u) <=> lock["log"] = u
      BY <1>1 DEF Exclusive
    <3>2. AtLog(t) <=> lock["log"] = t
      BY <1>1 DEF Exclusive
    <3>3. th[u].at = "write" => AtLog(u)
      BY DEF AtLog
    <3> QED BY <1>2, <3>1, <3>2, <3>3
  <2> QED BY <2>1, <2>2 DEF Position
<1>3. ASSUME NEW u \in Threads, u # t
      PROVE  (AtList(u)' <=> AtList(u)) /\ (AtLog(u)' <=> AtLog(u))
  BY <1>3 DEF AtList, AtLog
<1>4. Exclusive'
  <2> SUFFICES ASSUME NEW u \in Threads
               PROVE  /\ AtList(u)' <=> lock'["list"] = u
                      /\ AtLog(u)' <=> lock'["log"] = u
    BY DEF Exclusive
  <2>1. \A v \in Threads : /\ AtList(v) <=> lock["list"] = v
                           /\ AtLog(v) <=> lock["log"] = v
    BY <1>1 DEF Exclusive
  <2>2. CASE u = t
    BY <2>1, <2>2, LogAssumption DEF LockStep
  <2>3. CASE u # t
    BY <1>3, <2>1, <2>3, LogAssumption DEF LockStep
  <2> QED BY <2>2, <2>3
<1> QED BY <1>2, <1>4 DEF Control, Positions

(* At the start nobody has a lock.                                         *)
LEMMA InitControl == Init => Control
<1> SUFFICES ASSUME Init PROVE Control
  OBVIOUS
<1> USE LogAssumption DEF Init
<1>1. IdleThread \in ThreadState
  BY DEF IdleThread, ThreadState, Labels
<1>2. Types
  <2>1. lock \in [{"list", "log"} -> Threads \cup {Nobody}]
    OBVIOUS
  <2>2. file \in [Paths -> Seq(Nat)] /\ dbg_log \in Seq(Nat)
    OBVIOUS
  <2>3. th \in [Threads -> ThreadState]
    BY <1>1
  <2> QED BY <2>1, <2>2, <2>3 DEF Types
<1>3. \A t \in Threads : th[t].at = "idle" /\ th[t].old_dbg_log = <<>>
  BY DEF IdleThread
<1>4. Positions /\ Exclusive
  BY <1>3 DEF Positions, Position, Exclusive, AtList, AtLog
<1> QED BY <1>2, <1>4 DEF Control

(* Every step keeps the locks with those who took them.                    *)
LEMMA NextControl == Control /\ [Next]_vars => Control'
<1> SUFFICES ASSUME Control, [Next]_vars PROVE Control'
  OBVIOUS
<1> USE LogAssumption
<1>0. Types /\ Positions /\ Exclusive
  BY DEF Control
<1>1. CASE UNCHANGED vars
  BY <1>0, <1>1 DEF vars, Control, Types, Positions, Position, Exclusive, AtList, AtLog
<1>2. ASSUME NEW t \in Threads, Start(t) \/ Waiting(t) \/ Going(t)
      PROVE  Control'
  <2>0. /\ th \in [Threads -> ThreadState] /\ th[t] \in ThreadState
        /\ lock \in [{"list", "log"} -> Threads \cup {Nobody}]
        /\ Position(t) /\ dbg_log \in Seq(Nat) /\ <<>> \in Seq(Nat)
        /\ (AtList(t) <=> lock["list"] = t) /\ (AtLog(t) <=> lock["log"] = t)
    BY <1>0 DEF Types, Positions, Exclusive
  <2> USE DEF ThreadState, Labels, Acquire, SetEvent, Go, Trace, Call
  <2>1. CASE Log(t)
    <3>1. Types'
      BY <1>0, <2>0, <2>1 DEF Types, Log
    <3>2. \A u \in Threads : u # t => th'[u] = th[u]
      BY <2>0, <2>1 DEF Log
    <3>3. Position(t)'
      BY <2>0, <2>1 DEF Position, Log
    <3>4. log_path' = log_path \/ AtLog(t)
      BY <2>1 DEF AtLog, Log
    <3>5. LockStep(t, "list", AtList(t), AtList(t)')
      BY <2>0, <2>1 DEF LockStep, AtList, Position, Log
    <3>6. LockStep(t, "log", AtLog(t), AtLog(t)')
      BY <2>0, <2>1 DEF LockStep, AtLog, Position, Log
    <3> QED BY <3>1, <3>2, <3>3, <3>4, <3>5, <3>6, StepControl
  <2>2. CASE Flush(t)
    <3>1. Types'
      BY <1>0, <2>0, <2>2 DEF Types, Flush
    <3>2. \A u \in Threads : u # t => th'[u] = th[u]
      BY <2>0, <2>2 DEF Flush
    <3>3. Position(t)'
      BY <2>0, <2>2 DEF Position, Flush
    <3>4. log_path' = log_path \/ AtLog(t)
      BY <2>2 DEF AtLog, Flush
    <3>5. LockStep(t, "list", AtList(t), AtList(t)')
      BY <2>0, <2>2 DEF LockStep, AtList, Position, Flush
    <3>6. LockStep(t, "log", AtLog(t), AtLog(t)')
      BY <2>0, <2>2 DEF LockStep, AtLog, Position, Flush
    <3> QED BY <3>1, <3>2, <3>3, <3>4, <3>5, <3>6, StepControl
  <2>3. CASE LogLocks(t)
    <3>1. Types'
      BY <1>0, <2>0, <2>3 DEF Types, LogLocks
    <3>2. \A u \in Threads : u # t => th'[u] = th[u]
      BY <2>0, <2>3 DEF LogLocks
    <3>3. Position(t)'
      BY <2>0, <2>3 DEF Position, LogLocks
    <3>4. log_path' = log_path \/ AtLog(t)
      BY <2>3 DEF AtLog, LogLocks
    <3>5. LockStep(t, "list", AtList(t), AtList(t)')
      BY <2>0, <2>3 DEF LockStep, AtList, Position, LogLocks
    <3>6. LockStep(t, "log", AtLog(t), AtLog(t)')
      BY <2>0, <2>3 DEF LockStep, AtLog, Position, LogLocks
    <3> QED BY <3>1, <3>2, <3>3, <3>4, <3>5, <3>6, StepControl
  <2>4. CASE FlushLocks(t)
    <3>1. Types'
      BY <1>0, <2>0, <2>4 DEF Types, FlushLocks
    <3>2. \A u \in Threads : u # t => th'[u] = th[u]
      BY <2>0, <2>4 DEF FlushLocks
    <3>3. Position(t)'
      BY <2>0, <2>4 DEF Position, FlushLocks
    <3>4. log_path' = log_path \/ AtLog(t)
      BY <2>4 DEF AtLog, FlushLocks
    <3>5. LockStep(t, "list", AtList(t), AtList(t)')
      BY <2>0, <2>4 DEF LockStep, AtList, Position, FlushLocks
    <3>6. LockStep(t, "log", AtLog(t), AtLog(t)')
      BY <2>0, <2>4 DEF LockStep, AtLog, Position, FlushLocks
    <3> QED BY <3>1, <3>2, <3>3, <3>4, <3>5, <3>6, StepControl
  <2>5. CASE ListLocks(t)
    <3>1. Types'
      BY <1>0, <2>0, <2>5 DEF Types, ListLocks
    <3>2. \A u \in Threads : u # t => th'[u] = th[u]
      BY <2>0, <2>5 DEF ListLocks
    <3>3. Position(t)'
      BY <2>0, <2>5 DEF Position, ListLocks
    <3>4. log_path' = log_path \/ AtLog(t)
      BY <2>5 DEF AtLog, ListLocks
    <3>5. LockStep(t, "list", AtList(t), AtList(t)')
      BY <2>0, <2>5 DEF LockStep, AtList, Position, ListLocks
    <3>6. LockStep(t, "log", AtLog(t), AtLog(t)')
      BY <2>0, <2>5 DEF LockStep, AtLog, Position, ListLocks
    <3> QED BY <3>1, <3>2, <3>3, <3>4, <3>5, <3>6, StepControl
  <2>6. CASE SetLocks(t)
    <3>1. Types'
      BY <1>0, <2>0, <2>6 DEF Types, SetLocks
    <3>2. \A u \in Threads : u # t => th'[u] = th[u]
      BY <2>0, <2>6 DEF SetLocks
    <3>3. Position(t)'
      BY <2>0, <2>6 DEF Position, SetLocks
    <3>4. log_path' = log_path \/ AtLog(t)
      BY <2>6 DEF AtLog, SetLocks
    <3>5. LockStep(t, "list", AtList(t), AtList(t)')
      BY <2>0, <2>6 DEF LockStep, AtList, Position, SetLocks
    <3>6. LockStep(t, "log", AtLog(t), AtLog(t)')
      BY <2>0, <2>6 DEF LockStep, AtLog, Position, SetLocks
    <3> QED BY <3>1, <3>2, <3>3, <3>4, <3>5, <3>6, StepControl
  <2>7. CASE AppendEntry(t)
    <3>0. dbg_log' \in Seq(Nat) /\ count' \in Nat
      <4>0. count \in Nat
        BY <1>0 DEF Types
      <4>1. count + 1 \in Nat
        BY <4>0
      <4>2. Append(dbg_log, count + 1) \in Seq(Nat)
        BY <2>0, <4>1, AppendProperties
      <4> QED BY <2>0, <2>7, <4>0, <4>1, <4>2 DEF AppendEntry
    <3>1. Types'
      BY <1>0, <2>0, <3>0, <2>7 DEF Types, AppendEntry, Position
    <3>2. \A u \in Threads : u # t => th'[u] = th[u]
      BY <2>0, <2>7 DEF AppendEntry
    <3>3. Position(t)'
      BY <2>0, <2>7 DEF Position, AppendEntry
    <3>4. log_path' = log_path \/ AtLog(t)
      BY <2>7 DEF AtLog, AppendEntry
    <3>5. LockStep(t, "list", AtList(t), AtList(t)')
      BY <2>0, <2>7 DEF LockStep, AtList, Position, AppendEntry
    <3>6. LockStep(t, "log", AtLog(t), AtLog(t)')
      BY <2>0, <2>7 DEF LockStep, AtLog, Position, AppendEntry
    <3> QED BY <3>1, <3>2, <3>3, <3>4, <3>5, <3>6, StepControl
  <2>8. CASE Detach(t)
    <3>1. Types'
      BY <1>0, <2>0, <2>8 DEF Types, Detach
    <3>2. \A u \in Threads : u # t => th'[u] = th[u]
      BY <2>0, <2>8 DEF Detach
    <3>3. Position(t)'
      BY <2>0, <2>8 DEF Position, Detach
    <3>4. log_path' = log_path \/ AtLog(t)
      BY <2>8 DEF AtLog, Detach
    <3>5. LockStep(t, "list", AtList(t), AtList(t)')
      BY <2>0, <2>8 DEF LockStep, AtList, Position, Detach
    <3>6. LockStep(t, "log", AtLog(t), AtLog(t)')
      BY <2>0, <2>8 DEF LockStep, AtLog, Position, Detach
    <3> QED BY <3>1, <3>2, <3>3, <3>4, <3>5, <3>6, StepControl
  <2>9. CASE Open(t)
    <3>1. ASSUME th[t].at = "open", UNCHANGED <<logging_enabled, log_path, dbg_log, lock, file, count>>,
                 th' = [th EXCEPT ![t].at = "flushed", ![t].old_dbg_log = <<>>]
          PROVE  Control'
      <4>1. Types'
        BY <1>0, <2>0, <3>1 DEF Types
      <4>2. \A u \in Threads : u # t => th'[u] = th[u]
        BY <2>0, <3>1
      <4>3. Position(t)'
        BY <2>0, <3>1 DEF Position
      <4>4. log_path' = log_path \/ AtLog(t)
        BY <3>1 DEF AtLog
      <4>5. LockStep(t, "list", AtList(t), AtList(t)')
        BY <2>0, <3>1 DEF LockStep, AtList, Position
      <4>6. LockStep(t, "log", AtLog(t), AtLog(t)')
        BY <2>0, <3>1 DEF LockStep, AtLog, Position
      <4> QED BY <4>1, <4>2, <4>3, <4>4, <4>5, <4>6, StepControl
    <3>2. ASSUME th[t].at = "open", UNCHANGED <<logging_enabled, log_path, dbg_log, lock, file, count>>,
                 th[t].old_dbg_log # <<>>, log_path \in Paths,
                 th' = [th EXCEPT ![t].at = "write"]
          PROVE  Control'
      <4>1. Types'
        BY <1>0, <2>0, <3>2 DEF Types
      <4>2. \A u \in Threads : u # t => th'[u] = th[u]
        BY <2>0, <3>2
      <4>3. Position(t)'
        BY <2>0, <3>2 DEF Position
      <4>4. log_path' = log_path \/ AtLog(t)
        BY <3>2 DEF AtLog
      <4>5. LockStep(t, "list", AtList(t), AtList(t)')
        BY <2>0, <3>2 DEF LockStep, AtList, Position
      <4>6. LockStep(t, "log", AtLog(t), AtLog(t)')
        BY <2>0, <3>2 DEF LockStep, AtLog, Position
      <4> QED BY <4>1, <4>2, <4>3, <4>4, <4>5, <4>6, StepControl
    <3>3. ASSUME th[t].at = "open", UNCHANGED <<logging_enabled, log_path, dbg_log, lock, file, count>>,
                 th' = [th EXCEPT ![t].at = "log", ![t].ret = "flushed",
                                  ![t].old_dbg_log = <<>>]
          PROVE  Control'
      <4>1. Types'
        BY <1>0, <2>0, <3>3 DEF Types
      <4>2. \A u \in Threads : u # t => th'[u] = th[u]
        BY <2>0, <3>3
      <4>3. Position(t)'
        BY <2>0, <3>3 DEF Position
      <4>4. log_path' = log_path \/ AtLog(t)
        BY <3>3 DEF AtLog
      <4>5. LockStep(t, "list", AtList(t), AtList(t)')
        BY <2>0, <3>3 DEF LockStep, AtList, Position
      <4>6. LockStep(t, "log", AtLog(t), AtLog(t)')
        BY <2>0, <3>3 DEF LockStep, AtLog, Position
      <4> QED BY <4>1, <4>2, <4>3, <4>4, <4>5, <4>6, StepControl
    <3>4. log_path # NULL /\ log_path # Empty => log_path \in Paths
      BY <1>0 DEF Types
    <3> QED BY <2>9, <3>1, <3>2, <3>3, <3>4 DEF Open
  <2>10. CASE Write(t)
    <3>1. ASSUME th[t].at = "write", UNCHANGED <<logging_enabled, log_path, dbg_log, lock, count>>,
                 file' \in [Paths -> Seq(Nat)],
                 th' = [th EXCEPT ![t].at = "flushed", ![t].old_dbg_log = <<>>]
          PROVE  Control'
      <4>1. Types'
        BY <1>0, <2>0, <3>1 DEF Types
      <4>2. \A u \in Threads : u # t => th'[u] = th[u]
        BY <2>0, <3>1
      <4>3. Position(t)'
        BY <2>0, <3>1 DEF Position
      <4>4. log_path' = log_path \/ AtLog(t)
        BY <3>1 DEF AtLog
      <4>5. LockStep(t, "list", AtList(t), AtList(t)')
        BY <2>0, <3>1 DEF LockStep, AtList, Position
      <4>6. LockStep(t, "log", AtLog(t), AtLog(t)')
        BY <2>0, <3>1 DEF LockStep, AtLog, Position
      <4> QED BY <4>1, <4>2, <4>3, <4>4, <4>5, <4>6, StepControl
    <3>2. ASSUME th[t].at = "write", UNCHANGED <<logging_enabled, log_path, dbg_log, lock, count>>,
                 file' \in [Paths -> Seq(Nat)],
                 NEW old \in Seq(Nat), old # <<>>,
                 th' = [th EXCEPT ![t].at = "write", ![t].old_dbg_log = old]
          PROVE  Control'
      <4>1. Types'
        BY <1>0, <2>0, <3>2 DEF Types
      <4>2. \A u \in Threads : u # t => th'[u] = th[u]
        BY <2>0, <3>2
      <4>3. Position(t)'
        BY <2>0, <3>2 DEF Position
      <4>4. log_path' = log_path \/ AtLog(t)
        BY <3>2 DEF AtLog
      <4>5. LockStep(t, "list", AtList(t), AtList(t)')
        BY <2>0, <3>2 DEF LockStep, AtList, Position
      <4>6. LockStep(t, "log", AtLog(t), AtLog(t)')
        BY <2>0, <3>2 DEF LockStep, AtLog, Position
      <4> QED BY <4>1, <4>2, <4>3, <4>4, <4>5, <4>6, StepControl
    <3> DEFINE old == th[t].old_dbg_log
    <3>3. old \in Seq(Nat) /\ old # <<>> /\ log_path \in Paths
      BY <1>0, <2>0, <2>10 DEF Write, Position, Types
    <3>4. Head(old) \in Nat /\ Tail(old) \in Seq(Nat) /\ Len(Tail(old)) = Len(old) - 1
      BY <3>3, HeadTailProperties
    <3>5. (Len(old) = 1 <=> Tail(old) = <<>>)
      <4>1. Tail(old) = <<>> <=> Len(Tail(old)) = 0
        BY <3>4, EmptySeq
      <4>2. Len(old) \in Nat
        BY <3>3, LenProperties
      <4> QED BY <3>4, <4>1, <4>2
    <3>6. file' \in [Paths -> Seq(Nat)]
      <4>1. file \in [Paths -> Seq(Nat)] /\ file[log_path] \in Seq(Nat)
        BY <1>0, <3>3 DEF Types
      <4>2. Append(file[log_path], Head(old)) \in Seq(Nat)
        BY <3>4, <4>1, AppendProperties
      <4> QED BY <2>10, <4>1, <4>2 DEF Write
    <3>7. CASE Len(old) = 1
      BY <2>10, <3>1, <3>5, <3>6, <3>7 DEF Write
    <3>8. CASE Len(old) # 1
      BY <2>10, <3>2, <3>4, <3>5, <3>6, <3>8 DEF Write
    <3> QED BY <3>7, <3>8
  <2>11. CASE Flushed(t)
    <3>1. ASSUME th[t].at = "flushed", UNCHANGED <<logging_enabled, log_path, dbg_log, lock, file, count>>,
                 th' = [th EXCEPT ![t].at = "set path"]
          PROVE  Control'
      <4>1. Types'
        BY <1>0, <2>0, <3>1 DEF Types
      <4>2. \A u \in Threads : u # t => th'[u] = th[u]
        BY <2>0, <3>1
      <4>3. Position(t)'
        BY <2>0, <3>1 DEF Position
      <4>4. log_path' = log_path \/ AtLog(t)
        BY <3>1 DEF AtLog
      <4>5. LockStep(t, "list", AtList(t), AtList(t)')
        BY <2>0, <3>1 DEF LockStep, AtList, Position
      <4>6. LockStep(t, "log", AtLog(t), AtLog(t)')
        BY <2>0, <3>1 DEF LockStep, AtLog, Position
      <4> QED BY <4>1, <4>2, <4>3, <4>4, <4>5, <4>6, StepControl
    <3>2. ASSUME th[t].at = "flushed", UNCHANGED <<logging_enabled, log_path, dbg_log, file, count>>, SetEvent("log"),
                 th' = [th EXCEPT ![t].at = "idle"]
          PROVE  Control'
      <4>1. Types'
        BY <1>0, <2>0, <3>2 DEF Types
      <4>2. \A u \in Threads : u # t => th'[u] = th[u]
        BY <2>0, <3>2
      <4>3. Position(t)'
        BY <2>0, <3>2 DEF Position
      <4>4. log_path' = log_path \/ AtLog(t)
        BY <3>2 DEF AtLog
      <4>5. LockStep(t, "list", AtList(t), AtList(t)')
        BY <2>0, <3>2 DEF LockStep, AtList, Position
      <4>6. LockStep(t, "log", AtLog(t), AtLog(t)')
        BY <2>0, <3>2 DEF LockStep, AtLog, Position
      <4> QED BY <4>1, <4>2, <4>3, <4>4, <4>5, <4>6, StepControl
    <3> QED BY <2>11, <3>1, <3>2 DEF Flushed
  <2>12. CASE SetPath(t)
    <3>1. ASSUME th[t].at = "set path", UNCHANGED <<logging_enabled, dbg_log, lock, file, count>>, log_path' = NULL,
                 th' = [th EXCEPT ![t].at = "log", ![t].ret = "set new"]
          PROVE  Control'
      <4>1. Types'
        BY <1>0, <2>0, <3>1 DEF Types
      <4>2. \A u \in Threads : u # t => th'[u] = th[u]
        BY <2>0, <3>1
      <4>3. Position(t)'
        BY <2>0, <3>1 DEF Position
      <4>4. log_path' = log_path \/ AtLog(t)
        BY <3>1 DEF AtLog
      <4>5. LockStep(t, "list", AtList(t), AtList(t)')
        BY <2>0, <3>1 DEF LockStep, AtList, Position
      <4>6. LockStep(t, "log", AtLog(t), AtLog(t)')
        BY <2>0, <3>1 DEF LockStep, AtLog, Position
      <4> QED BY <4>1, <4>2, <4>3, <4>4, <4>5, <4>6, StepControl
    <3>2. ASSUME th[t].at = "set path", UNCHANGED <<logging_enabled, dbg_log, lock, file, count>>, log_path' = NULL,
                 th' = [th EXCEPT ![t].at = "set done"]
          PROVE  Control'
      <4>1. Types'
        BY <1>0, <2>0, <3>2 DEF Types
      <4>2. \A u \in Threads : u # t => th'[u] = th[u]
        BY <2>0, <3>2
      <4>3. Position(t)'
        BY <2>0, <3>2 DEF Position
      <4>4. log_path' = log_path \/ AtLog(t)
        BY <3>2 DEF AtLog
      <4>5. LockStep(t, "list", AtList(t), AtList(t)')
        BY <2>0, <3>2 DEF LockStep, AtList, Position
      <4>6. LockStep(t, "log", AtLog(t), AtLog(t)')
        BY <2>0, <3>2 DEF LockStep, AtLog, Position
      <4> QED BY <4>1, <4>2, <4>3, <4>4, <4>5, <4>6, StepControl
    <3> QED BY <2>12, <3>1, <3>2 DEF SetPath
  <2>13. CASE SetNewPath(t)
    <3>1. ASSUME th[t].at = "set new", UNCHANGED <<logging_enabled, dbg_log, lock, file, count>>, log_path' = th[t].path,
                 th' = [th EXCEPT ![t].at = "set done"]
          PROVE  Control'
      <4>1. Types'
        BY <1>0, <2>0, <3>1 DEF Types
      <4>2. \A u \in Threads : u # t => th'[u] = th[u]
        BY <2>0, <3>1
      <4>3. Position(t)'
        BY <2>0, <3>1 DEF Position
      <4>4. log_path' = log_path \/ AtLog(t)
        BY <3>1 DEF AtLog
      <4>5. LockStep(t, "list", AtList(t), AtList(t)')
        BY <2>0, <3>1 DEF LockStep, AtList, Position
      <4>6. LockStep(t, "log", AtLog(t), AtLog(t)')
        BY <2>0, <3>1 DEF LockStep, AtLog, Position
      <4> QED BY <4>1, <4>2, <4>3, <4>4, <4>5, <4>6, StepControl
    <3>2. ASSUME th[t].at = "set new", UNCHANGED <<logging_enabled, dbg_log, lock, file, count>>, log_path' = log_path,
                 th' = [th EXCEPT ![t].at = "log", ![t].ret = "set done"]
          PROVE  Control'
      <4>1. Types'
        BY <1>0, <2>0, <3>2 DEF Types
      <4>2. \A u \in Threads : u # t => th'[u] = th[u]
        BY <2>0, <3>2
      <4>3. Position(t)'
        BY <2>0, <3>2 DEF Position
      <4>4. log_path' = log_path \/ AtLog(t)
        BY <3>2 DEF AtLog
      <4>5. LockStep(t, "list", AtList(t), AtList(t)')
        BY <2>0, <3>2 DEF LockStep, AtList, Position
      <4>6. LockStep(t, "log", AtLog(t), AtLog(t)')
        BY <2>0, <3>2 DEF LockStep, AtLog, Position
      <4> QED BY <4>1, <4>2, <4>3, <4>4, <4>5, <4>6, StepControl
    <3> QED BY <2>13, <3>1, <3>2 DEF SetNewPath
  <2>14. CASE SetDone(t)
    <3>1. Types'
      BY <1>0, <2>0, <2>14 DEF Types, SetDone
    <3>2. \A u \in Threads : u # t => th'[u] = th[u]
      BY <2>0, <2>14 DEF SetDone
    <3>3. Position(t)'
      BY <2>0, <2>14 DEF Position, SetDone
    <3>4. log_path' = log_path \/ AtLog(t)
      BY <2>14 DEF AtLog, SetDone
    <3>5. LockStep(t, "list", AtList(t), AtList(t)')
      BY <2>0, <2>14 DEF LockStep, AtList, Position, SetDone
    <3>6. LockStep(t, "log", AtLog(t), AtLog(t)')
      BY <2>0, <2>14 DEF LockStep, AtLog, Position, SetDone
    <3> QED BY <3>1, <3>2, <3>3, <3>4, <3>5, <3>6, StepControl
  <2>15. ASSUME NEW p \in Paths \cup {Empty, NULL}, SetLog(t, p)
         PROVE  Control'
    <3>0. logging_enabled' \in BOOLEAN
      <4>1. logging_enabled' = (p \in Paths)
        BY <2>15 DEF SetLog
      <4>2. CASE p \in Paths
        BY <4>1, <4>2
      <4>3. CASE p \notin Paths
        BY <4>1, <4>3
      <4> QED BY <4>2, <4>3
    <3>1. Types'
      BY <1>0, <2>0, <3>0, <2>15 DEF Types, SetLog
    <3>2. \A u \in Threads : u # t => th'[u] = th[u]
      BY <2>0, <2>15 DEF SetLog
    <3>3. Position(t)'
      BY <2>0, <2>15 DEF Position, SetLog
    <3>4. log_path' = log_path \/ AtLog(t)
      BY <2>15 DEF AtLog, SetLog
    <3>5. LockStep(t, "list", AtList(t), AtList(t)')
      BY <2>0, <2>15 DEF LockStep, AtList, Position, SetLog
    <3>6. LockStep(t, "log", AtLog(t), AtLog(t)')
      BY <2>0, <2>15 DEF LockStep, AtLog, Position, SetLog
    <3> QED BY <3>1, <3>2, <3>3, <3>4, <3>5, <3>6, StepControl
  <2>16. CASE CheckFlag(t)
    <3>1. Types'
      BY <1>0, <2>0, <2>16 DEF Types, CheckFlag
    <3>2. \A u \in Threads : u # t => th'[u] = th[u]
      BY <2>0, <2>16 DEF CheckFlag
    <3>3. Position(t)'
      BY <2>0, <2>16 DEF Position, CheckFlag
    <3>4. log_path' = log_path \/ AtLog(t)
      BY <2>16 DEF AtLog, CheckFlag
    <3>5. LockStep(t, "list", AtList(t), AtList(t)')
      BY <2>0, <2>16 DEF LockStep, AtList, Position, CheckFlag
    <3>6. LockStep(t, "log", AtLog(t), AtLog(t)')
      BY <2>0, <2>16 DEF LockStep, AtLog, Position, CheckFlag
    <3> QED BY <3>1, <3>2, <3>3, <3>4, <3>5, <3>6, StepControl
  <2>17. CASE CreatePath(t)
    <3>1. ASSUME th[t].at = "create path",
                 UNCHANGED <<logging_enabled, log_path, dbg_log, lock, file, count>>,
                 th' = [th EXCEPT ![t].at = "set"]
          PROVE  Control'
      <4>1. Types'
        BY <1>0, <2>0, <3>1 DEF Types
      <4>2. \A u \in Threads : u # t => th'[u] = th[u]
        BY <2>0, <3>1
      <4>3. Position(t)'
        BY <2>0, <3>1 DEF Position
      <4>4. log_path' = log_path \/ AtLog(t)
        BY <3>1 DEF AtLog
      <4>5. LockStep(t, "list", AtList(t), AtList(t)')
        BY <2>0, <3>1 DEF LockStep, AtList, Position
      <4>6. LockStep(t, "log", AtLog(t), AtLog(t)')
        BY <2>0, <3>1 DEF LockStep, AtLog, Position
      <4> QED BY <4>1, <4>2, <4>3, <4>4, <4>5, <4>6, StepControl
    <3>2. ASSUME th[t].at = "create path",
                 UNCHANGED <<logging_enabled, log_path, dbg_log, lock, file, count>>,
                 th' = [th EXCEPT ![t].at = "log", ![t].ret = "set"]
          PROVE  Control'
      <4>1. Types'
        BY <1>0, <2>0, <3>2 DEF Types
      <4>2. \A u \in Threads : u # t => th'[u] = th[u]
        BY <2>0, <3>2
      <4>3. Position(t)'
        BY <2>0, <3>2 DEF Position
      <4>4. log_path' = log_path \/ AtLog(t)
        BY <3>2 DEF AtLog
      <4>5. LockStep(t, "list", AtList(t), AtList(t)')
        BY <2>0, <3>2 DEF LockStep, AtList, Position
      <4>6. LockStep(t, "log", AtLog(t), AtLog(t)')
        BY <2>0, <3>2 DEF LockStep, AtLog, Position
      <4> QED BY <4>1, <4>2, <4>3, <4>4, <4>5, <4>6, StepControl
    <3> QED BY <2>17, <3>1, <3>2 DEF CreatePath
  <2> QED BY <1>2, <2>1, <2>2, <2>3, <2>4, <2>5, <2>6, <2>7, <2>8, <2>9, <2>10, <2>11, <2>12, <2>13, <2>14, <2>15,
            <2>16, <2>17 DEF Start, Waiting, Going
<1> QED BY <1>1, <1>2 DEF Next

-----------------------------------------------------------------------------
(* What a step does to the messages: nothing; a new one is put into the    *)
(* list; a flush takes the list, loses what it has, or writes one.         *)

OthersKeep(t) == \A u \in Threads : u # t => th'[u].old_dbg_log = th[u].old_dbg_log

Quiet == /\ UNCHANGED <<dbg_log, file, count, lost>>
         /\ \A u \in Threads : th'[u].old_dbg_log = th[u].old_dbg_log

Adds == /\ dbg_log' = Append(dbg_log, count + 1) /\ count' = count + 1
        /\ UNCHANGED <<file, lost>>
        /\ \A u \in Threads : th'[u].old_dbg_log = th[u].old_dbg_log

Takes(t) == /\ th[t].old_dbg_log = <<>> /\ th'[t].old_dbg_log = dbg_log
            /\ dbg_log' = <<>>
            /\ UNCHANGED <<file, count, lost>> /\ OthersKeep(t)

Loses(t) == /\ th'[t].old_dbg_log = <<>>
            /\ lost' = lost \cup ToSet(th[t].old_dbg_log)
            /\ UNCHANGED <<dbg_log, file, count>> /\ OthersKeep(t)

Writes(t) == /\ log_path \in Paths /\ th[t].old_dbg_log # <<>>
             /\ \A u \in Threads : u # t => th[u].old_dbg_log = <<>>
             /\ th'[t].old_dbg_log = Tail(th[t].old_dbg_log)
             /\ file' = [file EXCEPT ![log_path] = Append(@, Head(th[t].old_dbg_log))]
             /\ UNCHANGED <<dbg_log, count, lost>> /\ OthersKeep(t)

(* Every step does one of these.                                           *)
LEMMA DataSteps ==
  Control /\ [Next]_vars => Quiet \/ Adds \/ \E t \in Threads : Takes(t) \/ Loses(t) \/ Writes(t)
<1> SUFFICES ASSUME Control, [Next]_vars
             PROVE  Quiet \/ Adds \/ \E t \in Threads : Takes(t) \/ Loses(t) \/ Writes(t)
  OBVIOUS
<1>1. CASE UNCHANGED vars
  BY <1>1 DEF vars, Quiet
<1>2. ASSUME NEW t \in Threads, Start(t) \/ Waiting(t) \/ Going(t)
      PROVE  Quiet \/ Adds \/ Takes(t) \/ Loses(t) \/ Writes(t)
  <2>0. /\ th \in [Threads -> ThreadState] /\ log_path \in Paths \cup {Empty, NULL}
        /\ Positions /\ Exclusive
    BY DEF Control, Types
  <2>1. CASE \/ Log(t) \/ Flush(t) \/ Waiting(t) \/ Flushed(t)
            \/ CheckFlag(t) \/ CreatePath(t) \/ SetPath(t) \/ SetNewPath(t) \/ SetDone(t)
    <3>1. UNCHANGED <<dbg_log, file, count, lost>>
      BY <2>1 DEF Log, Flush, Waiting, LogLocks, FlushLocks, ListLocks, SetLocks, Flushed,
                  CheckFlag, CreatePath, SetPath, SetNewPath, SetDone
    <3>2. \/ \E l : Go(t, l) \/ Trace(t, l)
          \/ th' = [th EXCEPT ![t].at = "idle", ![t].setting = FALSE]
      <4>1. CASE Log(t) \/ Flush(t) \/ SetDone(t)
        BY <4>1, Zenon DEF Log, Flush, SetDone
      <4>2. CASE Waiting(t)
        BY <4>2, Zenon DEF Waiting, LogLocks, FlushLocks, ListLocks, SetLocks
      <4>3. CASE Flushed(t)
        BY <4>3, Zenon DEF Flushed
      <4>4. CASE CheckFlag(t) \/ CreatePath(t) \/ SetPath(t) \/ SetNewPath(t)
        BY <4>4, Zenon DEF CheckFlag, CreatePath, SetPath, SetNewPath
      <4> QED BY <2>1, <4>1, <4>2, <4>3, <4>4
    <3>3. ASSUME NEW l, Go(t, l)
          PROVE  \A u \in Threads : th'[u].old_dbg_log = th[u].old_dbg_log
      BY <2>0, <3>3 DEF Go, ThreadState
    <3>4. ASSUME NEW l, Trace(t, l)
          PROVE  \A u \in Threads : th'[u].old_dbg_log = th[u].old_dbg_log
      BY <2>0, <3>4 DEF Trace, ThreadState
    <3>5. ASSUME th' = [th EXCEPT ![t].at = "idle", ![t].setting = FALSE]
          PROVE  \A u \in Threads : th'[u].old_dbg_log = th[u].old_dbg_log
      BY <2>0, <3>5 DEF ThreadState
    <3> QED BY <3>1, <3>2, <3>3, <3>4, <3>5 DEF Quiet
  <2>2. ASSUME NEW p \in Paths \cup {Empty, NULL}, SetLog(t, p) PROVE Quiet
    BY <2>0, <2>2 DEF SetLog, Quiet, ThreadState
  <2>3. CASE AppendEntry(t)
    BY <2>0, <2>3 DEF AppendEntry, Go, Quiet, Adds, ThreadState
  <2>4. CASE Detach(t)
    BY <2>0, <2>4 DEF Detach, Takes, OthersKeep, ThreadState, Positions, Position
  <2>5. CASE Open(t)
    <3>1. ASSUME th' = [th EXCEPT ![t].at = "flushed", ![t].old_dbg_log = <<>>],
                 lost' = lost \cup ToSet(th[t].old_dbg_log)
          PROVE  Loses(t)
      BY <2>0, <2>5, <3>1 DEF Open, Loses, OthersKeep, ThreadState
    <3>2. ASSUME th' = [th EXCEPT ![t].at = "log", ![t].ret = "flushed",
                                  ![t].old_dbg_log = <<>>],
                 lost' = lost \cup ToSet(th[t].old_dbg_log)
          PROVE  Loses(t)
      BY <2>0, <2>5, <3>2 DEF Open, Loses, OthersKeep, ThreadState
    <3>3. ASSUME Go(t, "write"), lost' = lost PROVE Quiet
      BY <2>0, <2>5, <3>3 DEF Open, Go, Quiet, ThreadState
    <3> QED BY <2>5, <3>1, <3>2, <3>3 DEF Open
  <2>6. CASE Write(t)
    <3>1. AtLog(t) /\ lock["log"] = t
      BY <2>0, <2>6 DEF Write, AtLog, Exclusive
    <3>2. ASSUME NEW u \in Threads, u # t PROVE th[u].old_dbg_log = <<>>
      <4>1. ~AtLog(u)
        BY <2>0, <3>1, <3>2 DEF Exclusive
      <4>2. Position(u)
        BY <2>0 DEF Positions
      <4> QED BY <4>1, <4>2 DEF AtLog, Position
    <3>3. th[t].old_dbg_log # <<>> /\ log_path \in Paths
      BY <2>0, <2>6 DEF Write, Positions, Position
    <3>4. th'[t].old_dbg_log = Tail(th[t].old_dbg_log) /\ OthersKeep(t)
      BY <2>0, <2>6 DEF Write, OthersKeep, ThreadState
    <3> QED BY <2>6, <3>2, <3>3, <3>4 DEF Write, Writes
  <2> QED BY <1>2, <2>1, <2>2, <2>3, <2>4, <2>5, <2>6 DEF Start, Going
<1> QED BY <1>1, <1>2 DEF Next

-----------------------------------------------------------------------------
(* At the start there are no messages.                                     *)
LEMMA InitOrder == Init => Order
BY DEF Init, Order, IdleThread, Increasing, Before

(* A sequence with something behind it that is larger than all of it.      *)
LEMMA AppendLarger ==
  ASSUME NEW s \in Seq(Nat), NEW n \in Nat, Increasing(s), \A i \in DOMAIN s : s[i] < n
  PROVE  /\ Append(s, n) \in Seq(Nat)
         /\ Increasing(Append(s, n))
         /\ ToSet(Append(s, n)) = ToSet(s) \cup {n}
         /\ \A i \in DOMAIN Append(s, n) : Append(s, n)[i] \in ToSet(s) \cup {n}
<1> DEFINE m == Append(s, n)
<1>1. /\ m \in Seq(Nat) /\ Len(s) \in Nat
      /\ DOMAIN s = 1 .. Len(s) /\ DOMAIN m = 1 .. (Len(s) + 1)
      /\ \A i \in 1 .. Len(s) : m[i] = s[i]
      /\ m[Len(s) + 1] = n
  BY AppendProperties, LenProperties
<1> HIDE DEF m
<1>2. Increasing(m)
  <2> SUFFICES ASSUME NEW i \in 1 .. (Len(s) + 1), NEW j \in 1 .. (Len(s) + 1), i < j
               PROVE  m[i] < m[j]
    BY <1>1 DEF Increasing
  <2>1. Len(s) \in Nat /\ i \in 1 .. Len(s)
    BY <1>1
  <2>2. CASE j = Len(s) + 1
    BY <1>1, <2>1, <2>2
  <2>3. CASE j # Len(s) + 1
    <3>1. j \in 1 .. Len(s)
      BY <2>1, <2>3
    <3> QED BY <1>1, <2>1, <3>1 DEF Increasing
  <2> QED BY <2>2, <2>3
<1>3. ToSet(m) = ToSet(s) \cup {n}
  BY <1>1 DEF ToSet
<1>4. \A i \in DOMAIN m : m[i] \in ToSet(m)
  BY DEF ToSet
<1> QED BY <1>1, <1>2, <1>3, <1>4 DEF m

(* The head of an increasing sequence is smaller than the rest of it.      *)
LEMMA HeadSmaller ==
  ASSUME NEW s \in Seq(Nat), s # <<>>, Increasing(s)
  PROVE  /\ Head(s) \in Nat /\ Head(s) \in ToSet(s)
         /\ Tail(s) \in Seq(Nat) /\ Increasing(Tail(s))
         /\ ToSet(Tail(s)) = ToSet(s) \ {Head(s)}
         /\ \A i \in DOMAIN Tail(s) : Head(s) < Tail(s)[i]
<1> DEFINE r == Tail(s)
<1>1. /\ Len(s) \in Nat /\ Len(s) # 0 /\ DOMAIN s = 1 .. Len(s)
      /\ \A i \in 1 .. Len(s) : s[i] \in Nat
      /\ Head(s) = s[1]
      /\ r \in Seq(Nat) /\ DOMAIN r = 1 .. (Len(s) - 1)
      /\ \A i \in 1 .. (Len(s) - 1) : r[i] = s[i + 1]
  BY HeadTailProperties, LenProperties, EmptySeq
<1> HIDE DEF r
<1>2. Increasing(r)
  <2> SUFFICES ASSUME NEW i \in 1 .. (Len(s) - 1), NEW j \in 1 .. (Len(s) - 1), i < j
               PROVE  r[i] < r[j]
    BY <1>1 DEF Increasing
  <2>1. i + 1 \in DOMAIN s /\ j + 1 \in DOMAIN s /\ i + 1 < j + 1
    BY <1>1
  <2> QED BY <1>1, <2>1 DEF Increasing
<1>3. \A i \in DOMAIN r : s[1] < r[i]
  <2> SUFFICES ASSUME NEW i \in 1 .. (Len(s) - 1) PROVE s[1] < r[i]
    BY <1>1
  <2>1. i + 1 \in DOMAIN s /\ 1 \in DOMAIN s /\ 1 < i + 1
    BY <1>1
  <2> QED BY <1>1, <2>1 DEF Increasing
<1>4. ASSUME NEW x PROVE x \in ToSet(r) <=> x \in ToSet(s) /\ x # s[1]
  <2>1. ASSUME x \in ToSet(r) PROVE x \in ToSet(s) /\ x # s[1]
    <3>1. PICK i \in 1 .. (Len(s) - 1) : x = r[i]
      BY <1>1, <2>1 DEF ToSet
    <3>2. i + 1 \in DOMAIN s /\ x = s[i + 1] /\ s[1] < r[i] /\ s[1] \in Nat /\ r[i] \in Nat
      <4>1. Len(s) \in Nat /\ i + 1 \in 1 .. Len(s) /\ 1 \in 1 .. Len(s)
        BY <1>1
      <4> QED BY <1>1, <1>3, <3>1, <4>1
    <3> QED BY <3>1, <3>2 DEF ToSet
  <2>2. ASSUME x \in ToSet(s), x # s[1] PROVE x \in ToSet(r)
    <3>1. PICK i \in 1 .. Len(s) : x = s[i]
      BY <1>1, <2>2 DEF ToSet
    <3>2. i # 1
      BY <2>2, <3>1
    <3>3. i - 1 \in 1 .. (Len(s) - 1) /\ (i - 1) + 1 = i
      BY <1>1, <3>2
    <3>4. r[i - 1] = x
      BY <1>1, <3>1, <3>3
    <3> QED BY <1>1, <3>3, <3>4 DEF ToSet
  <2> QED BY <2>1, <2>2
<1>5. s[1] \in ToSet(s) /\ s[1] \in Nat
  <2>1. Len(s) \in Nat /\ Len(s) # 0
    BY <1>1
  <2>2. 1 \in 1 .. Len(s)
    BY <2>1
  <2> QED BY <1>1, <2>2 DEF ToSet
<1>6. ToSet(r) = ToSet(s) \ {s[1]}
  BY <1>4
<1> QED BY <1>1, <1>2, <1>3, <1>5, <1>6 DEF r

(* Every step keeps the messages in order.                                 *)
LEMMA NextOrder == Control /\ Control' /\ Order /\ [Next]_vars => Order'
<1> SUFFICES ASSUME Control, Control', Order, [Next]_vars PROVE Order'
  OBVIOUS
<1>0. /\ dbg_log \in Seq(Nat) /\ count \in Nat
      /\ \A p \in Paths : file[p] \in Seq(Nat)
      /\ \A t \in Threads : th[t].old_dbg_log \in Seq(Nat)
  BY DEF Control, Types, ThreadState
<1>1. CASE Quiet
  BY <1>1 DEF Quiet, Order
<1>2. CASE Adds
  <2> DEFINE m == Append(dbg_log, count + 1)
  <2>1. /\ DOMAIN dbg_log = 1 .. Len(dbg_log) /\ Len(dbg_log) \in Nat
        /\ DOMAIN m = 1 .. (Len(dbg_log) + 1)
        /\ \A i \in 1 .. Len(dbg_log) : m[i] = dbg_log[i]
        /\ m[Len(dbg_log) + 1] = count + 1
        /\ count + 1 \in Nat
    BY <1>0, AppendProperties, LenProperties
  <2>2. Increasing(m)
    <3>1. \A i \in DOMAIN dbg_log : dbg_log[i] < count + 1
      BY <1>0 DEF Order
    <3> QED BY <1>0, <2>1, <3>1, AppendLarger DEF Order
  <2>3. ASSUME NEW s \in Seq(Nat), Before(s, dbg_log), \A i \in DOMAIN s : s[i] \in 1 .. count
        PROVE  Before(s, m)
    <3> SUFFICES ASSUME NEW i \in DOMAIN s, NEW j \in DOMAIN m
                 PROVE  s[i] < m[j]
      BY DEF Before
    <3>1. CASE j = Len(dbg_log) + 1
      BY <1>0, <2>1, <2>3, <3>1
    <3>2. CASE j # Len(dbg_log) + 1
      <4>1. j \in DOMAIN dbg_log
        BY <2>1, <3>2
      <4>2. m[j] = dbg_log[j]
        BY <2>1, <4>1
      <4> QED BY <2>3, <4>1, <4>2 DEF Before
    <3> QED BY <3>1, <3>2
  <2>4. \A i \in DOMAIN m : m[i] \in 1 .. (count + 1)
    <3> SUFFICES ASSUME NEW i \in DOMAIN m PROVE m[i] \in 1 .. (count + 1)
      OBVIOUS
    <3>1. CASE i = Len(dbg_log) + 1
      BY <1>0, <2>1, <3>1
    <3>2. CASE i # Len(dbg_log) + 1
      <4>1. i \in DOMAIN dbg_log /\ m[i] = dbg_log[i]
        BY <2>1, <3>2
      <4> QED BY <1>0, <4>1 DEF Order
    <3> QED BY <3>1, <3>2
  <2>5. ASSUME NEW n \in 1 .. count PROVE n \in 1 .. (count + 1)
    BY <1>0
  <2>6. /\ dbg_log' = m /\ count' = count + 1 /\ file' = file
        /\ \A u \in Threads : th'[u].old_dbg_log = th[u].old_dbg_log
    BY <1>2 DEF Adds
  <2> HIDE DEF m
  <2> QED BY <1>0, <2>2, <2>3, <2>4, <2>5, <2>6 DEF Order
<1>3. ASSUME NEW t \in Threads, Takes(t) PROVE Order'
  <2>1. /\ dbg_log' = <<>> /\ count' = count /\ file' = file
        /\ \A u \in Threads : th'[u].old_dbg_log = IF u = t THEN dbg_log ELSE th[u].old_dbg_log
    BY <1>3 DEF Takes, OthersKeep
  <2>2. DOMAIN dbg_log' = {} /\ Increasing(dbg_log') /\ \A s : Before(s, dbg_log')
    BY <2>1 DEF Increasing, Before
  <2> QED BY <2>1, <2>2 DEF Order
<1>4. ASSUME NEW t \in Threads, Loses(t) PROVE Order'
  <2>1. /\ dbg_log' = dbg_log /\ count' = count /\ file' = file
        /\ \A u \in Threads : th'[u].old_dbg_log = IF u = t THEN <<>> ELSE th[u].old_dbg_log
    BY <1>4 DEF Loses, OthersKeep
  <2>2. DOMAIN <<>> = {} /\ Increasing(<<>>) /\ \A s : Before(s, <<>>) /\ Before(<<>>, s)
    BY DEF Increasing, Before
  <2> QED BY <2>1, <2>2 DEF Order
<1>5. ASSUME NEW t \in Threads, Writes(t) PROVE Order'
  <2> DEFINE old == th[t].old_dbg_log
             f   == Append(file[log_path], Head(old))
  <2>1. /\ log_path \in Paths /\ old # <<>> /\ old \in Seq(Nat) /\ file[log_path] \in Seq(Nat)
        /\ Increasing(old) /\ Increasing(file[log_path])
        /\ Before(file[log_path], old) /\ Before(file[log_path], dbg_log) /\ Before(old, dbg_log)
    BY <1>0, <1>5 DEF Writes, Order
  <2>2. /\ Head(old) \in Nat /\ Head(old) \in ToSet(old)
        /\ Tail(old) \in Seq(Nat) /\ Increasing(Tail(old))
        /\ ToSet(Tail(old)) = ToSet(old) \ {Head(old)}
        /\ \A i \in DOMAIN Tail(old) : Head(old) < Tail(old)[i]
    BY <2>1, HeadSmaller
  <2>3. PICK h \in DOMAIN old : Head(old) = old[h]
    BY <2>2 DEF ToSet
  <2>4. \A i \in DOMAIN file[log_path] : file[log_path][i] < Head(old)
    BY <2>1, <2>3 DEF Before
  <2>5. /\ f \in Seq(Nat) /\ Increasing(f)
        /\ \A i \in DOMAIN f : f[i] \in ToSet(file[log_path]) \cup {Head(old)}
    BY <2>1, <2>2, <2>4, AppendLarger
  <2>6. /\ dbg_log' = dbg_log /\ count' = count
        /\ \A p \in Paths : file'[p] = IF p = log_path THEN f ELSE file[p]
        /\ \A u \in Threads : th'[u].old_dbg_log = IF u = t THEN Tail(old) ELSE <<>>
    BY <1>5 DEF Writes, OthersKeep, Control, Types
  <2>7. Before(f, dbg_log)
    BY <2>1, <2>3, <2>5 DEF Before, ToSet
  <2>8. \A i \in DOMAIN Tail(old) : \E j \in DOMAIN old : Tail(old)[i] = old[j]
    BY <2>2 DEF ToSet
  <2>9. Before(Tail(old), dbg_log)
    BY <2>1, <2>8 DEF Before
  <2>10. ASSUME NEW p \in Paths, Before(file[p], old) PROVE Before(file[p], Tail(old))
    BY <2>8, <2>10 DEF Before
  <2>11. Before(f, Tail(old))
    <3> SUFFICES ASSUME NEW i \in DOMAIN f, NEW j \in DOMAIN Tail(old)
                 PROVE  f[i] < Tail(old)[j]
      BY DEF Before
    <3>1. CASE f[i] = Head(old)
      BY <2>2, <3>1
    <3>2. CASE f[i] \in ToSet(file[log_path])
      BY <2>1, <2>10, <3>2 DEF Before, ToSet
    <3> QED BY <2>5, <3>1, <3>2
  <2>12. \A i \in DOMAIN f : f[i] \in 1 .. count
    BY <2>1, <2>3, <2>5 DEF ToSet, Order
  <2>13. \A i \in DOMAIN Tail(old) : Tail(old)[i] \in 1 .. count
    BY <2>8 DEF Order
  <2>14. DOMAIN <<>> = {} /\ Increasing(<<>>) /\ \A s : Before(s, <<>>) /\ Before(<<>>, s)
    BY DEF Increasing, Before
  <2>15. \A p \in Paths : Before(file[p], old)
    BY DEF Order
  <2> HIDE DEF old, f
  <2>16. \A u \in Threads :
           /\ Increasing(th'[u].old_dbg_log) /\ Before(th'[u].old_dbg_log, dbg_log')
           /\ \A i \in DOMAIN th'[u].old_dbg_log : th'[u].old_dbg_log[i] \in 1 .. count
    BY <2>2, <2>6, <2>9, <2>13, <2>14
  <2>17. \A p \in Paths :
           /\ Increasing(file'[p]) /\ Before(file'[p], dbg_log')
           /\ \A i \in DOMAIN file'[p] : file'[p][i] \in 1 .. count
    BY <2>5, <2>6, <2>7, <2>12 DEF Order
  <2>18. \A p \in Paths, u \in Threads : Before(file'[p], th'[u].old_dbg_log)
    BY <2>6, <2>10, <2>11, <2>14, <2>15
  <2> QED BY <2>6, <2>16, <2>17, <2>18 DEF Order
<1> QED BY <1>1, <1>2, <1>3, <1>4, <1>5, DataSteps

-----------------------------------------------------------------------------
(* The numbers up to n are spread over the places, each at one of them.    *)
Spread(E, n) == /\ UNION { E[w] : w \in Places } = 1 .. n
                /\ \A v, w \in Places : v # w => E[v] \cap E[w] = {}

(* What is moved from one place to another is still at one place.          *)
LEMMA MoveKeepsSpread ==
  ASSUME NEW E, NEW F, NEW n, Spread(E, n),
         NEW u \in Places, NEW v \in Places, u # v,
         NEW X, X \subseteq E[u], F[u] = E[u] \ X, F[v] = E[v] \cup X,
         \A w \in Places : w # u /\ w # v => F[w] = E[w]
  PROVE  Spread(F, n)
<1>1. ASSUME NEW x PROVE (\E w \in Places : x \in F[w]) <=> (\E w \in Places : x \in E[w])
  <2>1. ASSUME NEW w \in Places, x \in F[w] PROVE \E z \in Places : x \in E[z]
    BY <2>1
  <2>2. ASSUME NEW w \in Places, x \in E[w] PROVE \E z \in Places : x \in F[z]
    BY <2>2
  <2> QED BY <2>1, <2>2
<1>2. UNION { F[w] : w \in Places } = UNION { E[w] : w \in Places }
  BY <1>1
<1>3. ASSUME NEW a \in Places, NEW b \in Places, a # b PROVE F[a] \cap F[b] = {}
  <2>1. \A w \in Places : w # u => E[u] \cap E[w] = {}
    BY DEF Spread
  <2>2. \A w \in Places : w # v => E[v] \cap E[w] = {}
    BY DEF Spread
  <2>3. E[a] \cap E[b] = {}
    BY <1>3 DEF Spread
  <2>4. CASE a = u
    BY <1>3, <2>1, <2>2, <2>3, <2>4
  <2>5. CASE a = v
    BY <1>3, <2>1, <2>2, <2>3, <2>5
  <2>6. CASE a # u /\ a # v
    BY <1>3, <2>1, <2>2, <2>3, <2>6
  <2> QED BY <2>4, <2>5, <2>6
<1> QED BY <1>2, <1>3 DEF Spread

(* A new number at one place.                                              *)
LEMMA NewKeepsSpread ==
  ASSUME NEW E, NEW F, NEW n \in Nat, Spread(E, n), NEW u \in Places,
         F[u] = E[u] \cup {n + 1},
         \A w \in Places : w # u => F[w] = E[w]
  PROVE  Spread(F, n + 1)
<1>1. UNION { F[w] : w \in Places } = (UNION { E[w] : w \in Places }) \cup {n + 1}
  <2>1. ASSUME NEW x, NEW w \in Places, x \in F[w]
        PROVE  x = n + 1 \/ \E z \in Places : x \in E[z]
    BY <2>1
  <2>2. ASSUME NEW x, NEW w \in Places, x \in E[w] PROVE \E z \in Places : x \in F[z]
    BY <2>2
  <2> QED BY <2>1, <2>2
<1>2. UNION { E[w] : w \in Places } = 1 .. n
  BY DEF Spread
<1>3. UNION { F[w] : w \in Places } = 1 .. (n + 1)
  BY <1>1, <1>2
<1>4. \A w \in Places : n + 1 \notin E[w]
  <2>1. n + 1 \notin 1 .. n
    OBVIOUS
  <2> QED BY <1>2, <2>1
<1>5. ASSUME NEW a \in Places, NEW b \in Places, a # b PROVE F[a] \cap F[b] = {}
  <2>1. E[a] \cap E[b] = {} /\ n + 1 \notin E[a] /\ n + 1 \notin E[b]
    BY <1>4, <1>5 DEF Spread
  <2> QED BY <1>5, <2>1
<1> QED BY <1>3, <1>5 DEF Spread

(* What is at which place, before and after a step.                        *)
LEMMA WhatIsWhere ==
  /\ Everywhere[<<"list", NULL>>] = ToSet(dbg_log)
  /\ Everywhere[<<"lost", NULL>>] = lost
  /\ \A p \in Paths : Everywhere[<<"file", p>>] = ToSet(file[p])
  /\ \A t \in Threads : Everywhere[<<"thread", t>>] = ToSet(th[t].old_dbg_log)
  /\ Everywhere'[<<"list", NULL>>] = ToSet(dbg_log')
  /\ Everywhere'[<<"lost", NULL>>] = lost'
  /\ \A p \in Paths : Everywhere'[<<"file", p>>] = ToSet(file'[p])
  /\ \A t \in Threads : Everywhere'[<<"thread", t>>] = ToSet(th'[t].old_dbg_log)
BY DEF Everywhere, Places

(* The places are the ones that WhatIsWhere is about.                      *)
LEMMA PlaceKinds ==
  ASSUME NEW w \in Places
  PROVE  \/ w = <<"list", NULL>> \/ w = <<"lost", NULL>>
         \/ \E p \in Paths : w = <<"file", p>>
         \/ \E t \in Threads : w = <<"thread", t>>
BY DEF Places

(* At the start there are no messages anywhere.                            *)
LEMMA InitSpread == Init => EveryMessageOnce
<1> SUFFICES ASSUME Init PROVE EveryMessageOnce
  OBVIOUS
<1>1. ToSet(<<>>) = {}
  BY DEF ToSet
<1>2. \A w \in Places : Everywhere[w] = {}
  BY <1>1, WhatIsWhere, PlaceKinds DEF Init, IdleThread
<1> QED BY <1>2 DEF Init, EveryMessageOnce

(* Every step keeps each message at one place.                             *)
LEMMA NextSpread ==
  Control /\ Control' /\ Order /\ EveryMessageOnce /\ [Next]_vars => EveryMessageOnce'
<1> SUFFICES ASSUME Control, Control', Order, EveryMessageOnce, [Next]_vars
             PROVE  Spread(Everywhere', count')
  BY DEF Spread, EveryMessageOnce
<1>0. /\ dbg_log \in Seq(Nat) /\ count \in Nat
      /\ \A p \in Paths : file[p] \in Seq(Nat)
      /\ \A t \in Threads : th[t].old_dbg_log \in Seq(Nat)
      /\ Spread(Everywhere, count)
      /\ ToSet(<<>>) = {}
  BY DEF Control, Types, ThreadState, Spread, EveryMessageOnce, ToSet
<1> DEFINE E == Everywhere
           F == Everywhere'
           list == <<"list", NULL>>
           gone == <<"lost", NULL>>
<1>places. list \in Places /\ gone \in Places /\ list # gone
  BY DEF Places
<1>1. CASE Quiet
  <2>1. \A w \in Places : F[w] = E[w]
    BY <1>1, WhatIsWhere, PlaceKinds DEF Quiet
  <2> HIDE DEF E, F
  <2>2. count' = count
    BY <1>1 DEF Quiet
  <2>3. Spread(F, count)
    BY <1>0, <2>1 DEF Spread, E
  <2> QED BY <2>2, <2>3 DEF F
<1>2. CASE Adds
  <2>1. F[list] = E[list] \cup {count + 1}
    <3>1. \A i \in DOMAIN dbg_log : dbg_log[i] < count + 1
      BY <1>0 DEF Order
    <3>2. count + 1 \in Nat
      BY <1>0
    <3>3. ToSet(Append(dbg_log, count + 1)) = ToSet(dbg_log) \cup {count + 1}
      BY <1>0, <3>1, <3>2, AppendLarger DEF Order
    <3> QED BY <1>2, <3>3, WhatIsWhere DEF Adds
  <2>2. \A w \in Places : w # list => F[w] = E[w]
    BY <1>2, WhatIsWhere, PlaceKinds DEF Adds
  <2>3. count' = count + 1
    BY <1>2 DEF Adds
  <2> HIDE DEF E, F, list
  <2>4. Spread(F, count + 1)
    BY <1>0, <1>places, <2>1, <2>2, NewKeepsSpread DEF E
  <2> QED BY <2>3, <2>4 DEF F
<1>3. ASSUME NEW t \in Threads, Takes(t) PROVE Spread(Everywhere', count')
  <2> DEFINE u == <<"thread", t>>
  <2>1. u \in Places /\ u # list
    BY DEF Places
  <2>2. F[list] = E[list] \ E[list] /\ F[u] = E[u] \cup E[list]
    BY <1>0, <1>3, WhatIsWhere DEF Takes
  <2>3. \A w \in Places : w # list /\ w # u => F[w] = E[w]
    BY <1>3, WhatIsWhere, PlaceKinds DEF Takes, OthersKeep
  <2>4. count' = count
    BY <1>3 DEF Takes
  <2> HIDE DEF E, F, list, u
  <2>5. Spread(F, count)
    <3>1. Spread(E, count)
      BY <1>0 DEF E
    <3> QED BY <1>places, <2>1, <2>2, <2>3, <3>1, MoveKeepsSpread, SMTT(30)
  <2> QED BY <2>4, <2>5 DEF F
<1>4. ASSUME NEW t \in Threads, Loses(t) PROVE Spread(Everywhere', count')
  <2> DEFINE u == <<"thread", t>>
  <2>1. u \in Places /\ u # gone
    BY DEF Places
  <2>2. F[u] = E[u] \ E[u] /\ F[gone] = E[gone] \cup E[u]
    BY <1>0, <1>4, WhatIsWhere DEF Loses
  <2>3. \A w \in Places : w # u /\ w # gone => F[w] = E[w]
    BY <1>4, WhatIsWhere, PlaceKinds DEF Loses, OthersKeep
  <2>4. count' = count
    BY <1>4 DEF Loses
  <2> HIDE DEF E, F, gone, u
  <2>5. Spread(F, count)
    <3>1. Spread(E, count)
      BY <1>0 DEF E
    <3> QED BY <1>places, <2>1, <2>2, <2>3, <3>1, MoveKeepsSpread, SMTT(30)
  <2> QED BY <2>4, <2>5 DEF F
<1>5. ASSUME NEW t \in Threads, Writes(t) PROVE Spread(Everywhere', count')
  <2> DEFINE u == <<"thread", t>>
             v == <<"file", log_path>>
             old == th[t].old_dbg_log
             X == {Head(old)}
  <2>1. u \in Places /\ v \in Places /\ u # v
    BY <1>5 DEF Places, Writes
  <2>2. /\ Head(old) \in Nat /\ Head(old) \in ToSet(old)
        /\ ToSet(Tail(old)) = ToSet(old) \ X
    BY <1>0, <1>5, HeadSmaller DEF Writes, Order
  <2>3. ToSet(Append(file[log_path], Head(old))) = ToSet(file[log_path]) \cup X
    <3>1. PICK h \in DOMAIN old : Head(old) = old[h]
      BY <2>2 DEF ToSet
    <3>2. \A i \in DOMAIN file[log_path] : file[log_path][i] < Head(old)
      BY <1>5, <3>1 DEF Before, Order, Writes
    <3> QED BY <1>0, <1>5, <2>2, <3>2, AppendLarger DEF Writes, Order
  <2>4. X \subseteq E[u] /\ F[u] = E[u] \ X
    BY <1>5, <2>2, WhatIsWhere DEF Writes
  <2>5. \A p \in Paths :
          file'[p] = IF p = log_path THEN Append(file[log_path], Head(old)) ELSE file[p]
    BY <1>5 DEF Writes, Control, Types
  <2>6. F[v] = E[v] \cup X
    BY <1>5, <2>3, <2>5, WhatIsWhere DEF Writes
  <2>7. \A w \in Places : w # u /\ w # v => F[w] = E[w]
    BY <1>5, <2>5, WhatIsWhere, PlaceKinds DEF Writes, OthersKeep
  <2>8. count' = count
    BY <1>5 DEF Writes
  <2> HIDE DEF E, F, u, v, X
  <2>9. Spread(F, count)
    <3>1. Spread(E, count)
      BY <1>0 DEF E
    <3> QED BY <2>1, <2>4, <2>6, <2>7, <3>1, MoveKeepsSpread, SMTT(30)
  <2> QED BY <2>8, <2>9 DEF F
<1> QED BY <1>1, <1>2, <1>3, <1>4, <1>5, DataSteps

-----------------------------------------------------------------------------
(* The two events of dbg.c do serve as locks: at every place at which the  *)
(* list, or the log's path and file, are used, the thread has the lock,    *)
(* and it has given it back everywhere else, for any number of threads     *)
(* that log, flush and set the path in whatever order.                     *)
THEOREM LocksExclude == Spec => []Exclusive
BY InitControl, NextControl, PTL DEF Spec, Control

(* Each log file has the messages in the order in which they were logged,  *)
(* none twice: what a flush has taken off the list is written before any   *)
(* other flush can write.                                                  *)
THEOREM FilesStayInOrder == Spec => []FilesInOrder
<1>1. Order => FilesInOrder
  BY DEF Order, FilesInOrder
<1> QED BY <1>1, InitControl, NextControl, InitOrder, NextOrder, PTL DEF Spec

(* Every message that was accepted is in the list, on its way, in one      *)
(* file or lost, and at one of these places only, whichever threads flush  *)
(* and set the path.                                                       *)
THEOREM MessagesKeptOnce == Spec => []EveryMessageOnce
BY InitControl, NextControl, InitOrder, NextOrder, InitSpread, NextSpread, PTL DEF Spec
=============================================================================
