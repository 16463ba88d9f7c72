----------------------------- MODULE FileTools -----------------------------
(***************************************************************************)
(* The file tools of the agents: read, write, edit and patch, run by       *)
(* several worker processes in one workspace.  filetime.json remembers the *)
(* modification time of each file when a tool last read or wrote it; a     *)
(* file under .openmate/locks is a lock.  A version of a file stands for   *)
(* its content and for its modification time; 0 is a file that is absent.  *)
(***************************************************************************)
EXTENDS Integers, Sequences, FiniteSets

CONSTANTS Agent,    \* the worker processes
          File,     \* the files, numbered in the order of their paths
          LockOf,   \* the name of the lock of a file; paths may share one
          Calls,    \* the calls of tools an agent may make
          Outside,  \* whoever edits files without the tools
          Faults,   \* which of "crash", "outside" and "io" happen
          MaxCalls, \* bound on the calls of an agent
          MaxEdits  \* bound on the edits from outside

Tools == {"read", "write", "edit", "patch"}

ASSUME FileAssumption ==
  /\ File \subseteq Nat \ {0} /\ IsFiniteSet(File) /\ DOMAIN LockOf = File
  /\ Outside \notin Agent
  /\ \A c \in Calls : /\ c.tool \in Tools /\ c.files \in Seq(File) \ {<<>>}
                      /\ c.tool # "patch" => Len(c.files) = 1
  /\ MaxCalls \in Nat /\ MaxEdits \in Nat

VARIABLES disk, editor,   \* the version of a file, and who made it
          edits,          \* how many edits came from outside
          filetime, torn, \* filetime.json, and whether it cannot be parsed
          locks,          \* the lock files
          pc, call,       \* where an agent stands, and in which call
          calls,          \* how many calls it has begun
          entered,        \* the files whose with_lock it is in
          todo,           \* the files it has yet to write
          copy,           \* what it is about to save as filetime.json
          seen            \* the versions its call has read

world == <<disk, editor, edits>>
baselines == <<filetime, torn>>
vars == <<world, baselines, locks, pc, call, calls, entered, todo, copy, seen>>

NoCall == [tool |-> "none", files |-> <<>>]
None == [f \in File |-> 0]
FilesOf(a) == {call[a].files[i] : i \in DOMAIN call[a].files}
LocksOf(a) == {LockOf[f] : f \in entered[a]}

(* Earlier processes may have left baselines.                              *)
Init ==
  /\ disk \in [File -> {0, 1}] /\ editor = [f \in File |-> Outside] /\ edits = 0
  /\ filetime \in {None, disk} /\ torn = FALSE /\ locks = {}
  /\ pc = [a \in Agent |-> "idle"] /\ call = [a \in Agent |-> NoCall]
  /\ calls = [a \in Agent |-> 0] /\ entered = [a \in Agent |-> {}]
  /\ todo = [a \in Agent |-> <<>>] /\ copy = [a \in Agent |-> None]
  /\ seen = [a \in Agent |-> None]

Goto(a, l) == pc' = [pc EXCEPT ![a] = l]

Reads(a, F) == seen' = [seen EXCEPT ![a] = [f \in File |-> IF f \in F THEN disk[f] ELSE @[f]]]

(* A fault: leaving also unlinks the locks that were not had.              *)
FaultReturn(a) ==
  /\ Goto(a, "idle")
  /\ locks' = locks \ {LockOf[f] : f \in FilesOf(a)}
  /\ entered' = [entered EXCEPT ![a] = {}]
  /\ copy' = [copy EXCEPT ![a] = None]
  /\ call' = [call EXCEPT ![a] = NoCall] /\ seen' = [seen EXCEPT ![a] = None]
  /\ UNCHANGED <<world, calls>>

(* The blocks of with_lock are left, and each unlinks its file.            *)
Return(a) ==
  /\ Goto(a, "idle")
  /\ locks' = locks \ LocksOf(a)
  /\ entered' = [entered EXCEPT ![a] = {}]
  /\ copy' = [copy EXCEPT ![a] = None]
  /\ call' = [call EXCEPT ![a] = NoCall] /\ seen' = [seen EXCEPT ![a] = None]
  /\ UNCHANGED <<world, calls>>

Fail(a) ==
  /\ Return(a)
  /\ todo' = [todo EXCEPT ![a] = <<>>]
  /\ UNCHANGED baselines

-----------------------------------------------------------------------------
(* The files are looked at before they are locked: read takes the text,    *)
(* patch what its operations work on, write what it shows the difference   *)
(* from.  edit and read want a file that exists.                           *)
Begin(a) ==
  /\ pc[a] = "idle" /\ calls[a] < MaxCalls
  /\ \E c \in Calls :
       LET F == {c.files[i] : i \in DOMAIN c.files} IN
       /\ c.tool \in {"read", "edit"} => \A f \in F : disk[f] # 0
       /\ call' = [call EXCEPT ![a] = c]
       /\ todo' = [todo EXCEPT ![a] = IF c.tool = "read" THEN <<>> ELSE c.files]
       /\ Reads(a, F)
       /\ Goto(a, IF c.tool = "read" THEN "stat" ELSE "lock")
  /\ calls' = [calls EXCEPT ![a] = @ + 1]
  /\ UNCHANGED <<world, baselines, locks, entered, copy>>

(* A fault: the locks are entered in the order of the operations.          *)
FaultNextLock(a) ==
  LET files == call[a].files
      i == CHOOSE j \in DOMAIN files : files[j] \notin entered[a] /\ \A k \in 1..j - 1 : files[k] \in entered[a]
  IN files[i]

(* patch sorts the paths before it enters the locks.                       *)
NextLock(a) == CHOOSE f \in FilesOf(a) \ entered[a] : \A g \in FilesOf(a) \ entered[a] : f <= g
Waits(a) == pc[a] = "lock" /\ LockOf[NextLock(a)] \in locks

EnterLock(a) ==
  LET f == NextLock(a) IN
  /\ pc[a] = "lock" /\ ~Waits(a)
  /\ locks' = locks \cup {LockOf[f]}
  /\ entered' = [entered EXCEPT ![a] = @ \cup {f}]
  /\ Goto(a, IF entered'[a] = FilesOf(a) THEN "check" ELSE "lock")
  /\ UNCHANGED <<world, baselines, call, calls, todo, copy, seen>>

(* A fault: the time is taken for the first lock only.                     *)
FaultLockTimeout(a) == Waits(a) /\ entered[a] = {} /\ Fail(a)

LockTimeout(a) == Waits(a) /\ Fail(a)

(* A fault: a file without a baseline is saved with a mark.                *)
FaultBaseline(f) == IF torn \/ filetime[f] = 0 THEN -1 ELSE filetime[f]

(* assert_fresh.  A filetime.json that cannot be parsed counts as empty.   *)
Baseline(f) == IF torn THEN 0 ELSE filetime[f]
Fresh(f) == disk[f] # 0 => Baseline(f) = disk[f]

(* patch asks only about the files that were there when it read them.      *)
Accepts(a, f) == Fresh(f) \/ (call[a].tool = "patch" /\ seen[a][f] = 0)

CheckFreshness(a) ==
  /\ pc[a] = "check" /\ \A f \in FilesOf(a) : Accepts(a, f)
  /\ Goto(a, IF call[a].tool = "write" THEN "write" ELSE "apply")
  /\ UNCHANGED <<world, baselines, locks, call, calls, entered, todo, copy, seen>>

RefuseStale(a) == pc[a] = "check" /\ (\E f \in FilesOf(a) : ~Accepts(a, f)) /\ Fail(a)

(* A fault: edit works on what it read before it had the lock.             *)
FaultApplyOperations(a) ==
  /\ pc[a] = "apply"
  /\ Goto(a, "write")
  /\ UNCHANGED <<world, baselines, locks, call, calls, entered, todo, copy, seen>>

(* The replacements are worked out: edit reads the file for it.            *)
ApplyOperations(a) ==
  /\ pc[a] = "apply"
  /\ IF call[a].tool = "edit" THEN Reads(a, FilesOf(a)) ELSE UNCHANGED seen
  /\ Goto(a, "write")
  /\ UNCHANGED <<world, baselines, locks, call, calls, entered, todo, copy>>

(* A fault: each operation is matched just before its file is written.     *)
FaultMatchFails(a) == pc[a] \in {"apply", "write"} /\ Fail(a)

MatchFails(a) == pc[a] = "apply" /\ Fail(a)

WriteFile(a) ==
  LET f == Head(todo[a]) IN
  /\ pc[a] = "write"
  /\ disk' = [disk EXCEPT ![f] = @ + 1]
  /\ editor' = [editor EXCEPT ![f] = a]
  /\ todo' = [todo EXCEPT ![a] = Tail(@)]
  /\ Goto(a, "stat")
  /\ UNCHANGED <<edits, baselines, locks, call, calls, entered, copy, seen>>

-----------------------------------------------------------------------------
(* FileTimeStore.set: it loads filetime.json, changes the entry of the     *)
(* file just read or written, and writes the whole of it, which begins     *)
(* with an empty file.  Nothing locks it.                                  *)
LoadBaselines(a) ==
  LET f == call[a].files[Len(call[a].files) - Len(todo[a])] IN
  /\ pc[a] = "stat"
  /\ copy' = [copy EXCEPT ![a] = [g \in File |-> IF g = f THEN disk[f] ELSE Baseline(g)]]
  /\ Goto(a, "truncate")
  /\ UNCHANGED <<world, baselines, locks, call, calls, entered, todo, seen>>

TruncateBaselines(a) ==
  /\ pc[a] = "truncate"
  /\ torn' = TRUE
  /\ Goto(a, "save")
  /\ UNCHANGED <<world, filetime, locks, call, calls, entered, todo, copy, seen>>

(* A fault: patch leaves its locks after each file.                        *)
FaultSaveBaselines(a) ==
  /\ pc[a] = "save"
  /\ filetime' = copy[a] /\ torn' = FALSE
  /\ IF todo[a] # <<>>
       THEN /\ Goto(a, "write")
            /\ locks' = locks \ LocksOf(a) /\ entered' = [entered EXCEPT ![a] = {}]
            /\ UNCHANGED <<world, call, calls, copy, seen>>
       ELSE Return(a)
  /\ UNCHANGED todo

(* Another write since the file was emptied may have left a longer text,   *)
(* the end of which stays behind this one.                                 *)
SaveBaselines(a) ==
  /\ pc[a] = "save"
  /\ filetime' = copy[a]
  /\ torn' \in IF torn THEN {FALSE} ELSE BOOLEAN
  /\ IF todo[a] # <<>>
       THEN Goto(a, "write") /\ UNCHANGED <<world, locks, call, calls, entered, copy, seen>>
       ELSE Return(a)
  /\ UNCHANGED todo

-----------------------------------------------------------------------------
(* A file that may not be written.                                         *)
WriteFails(a) == "io" \in Faults /\ pc[a] \in {"write", "stat", "truncate", "save"} /\ Fail(a)

(* The process dies: its locks stay, and another takes its place.          *)
Crash(a) ==
  /\ "crash" \in Faults /\ pc[a] # "idle"
  /\ Goto(a, "idle")
  /\ call' = [call EXCEPT ![a] = NoCall]
  /\ entered' = [entered EXCEPT ![a] = {}]
  /\ todo' = [todo EXCEPT ![a] = <<>>]
  /\ copy' = [copy EXCEPT ![a] = None]
  /\ seen' = [seen EXCEPT ![a] = None]
  /\ UNCHANGED <<world, baselines, locks, calls>>

EditOutside(f) ==
  /\ "outside" \in Faults /\ edits < MaxEdits
  /\ disk' = [disk EXCEPT ![f] = @ + 1]
  /\ editor' = [editor EXCEPT ![f] = Outside]
  /\ edits' = edits + 1
  /\ UNCHANGED <<baselines, locks, pc, call, calls, entered, todo, copy, seen>>

CallStep(a) ==
  \/ EnterLock(a) \/ LockTimeout(a)
  \/ CheckFreshness(a) \/ RefuseStale(a)
  \/ ApplyOperations(a) \/ MatchFails(a) \/ WriteFile(a)
  \/ LoadBaselines(a) \/ TruncateBaselines(a) \/ SaveBaselines(a)

Next ==
  \/ \E a \in Agent : Begin(a) \/ CallStep(a) \/ WriteFails(a) \/ Crash(a)
  \/ \E f \in File : EditOutside(f)

(* A process that runs goes on; with_lock gives up after ten seconds.      *)
Spec == Init /\ [][Next]_vars /\ \A a \in Agent : WF_vars(CallStep(a))

-----------------------------------------------------------------------------
TypeOK ==
  /\ disk \in [File -> Nat] /\ editor \in [File -> Agent \cup {Outside}] /\ edits \in 0..MaxEdits
  /\ filetime \in [File -> Nat] /\ torn \in BOOLEAN
  /\ locks \subseteq {LockOf[f] : f \in File}
  /\ pc \in [Agent -> {"idle", "lock", "check", "apply", "write", "stat", "truncate", "save"}]
  /\ call \in [Agent -> Calls \cup {NoCall}] /\ calls \in [Agent -> 0..MaxCalls]
  /\ entered \in [Agent -> SUBSET File] /\ todo \in [Agent -> Seq(File)]
  /\ copy \in [Agent -> [File -> Nat]] /\ seen \in [Agent -> [File -> Nat]]

(* No two calls are in the block of one lock, and a lock somebody is in    *)
(* has its file: leaving blocks, also by an error halfway through the      *)
(* locks of a patch, unlinks no lock of another.                           *)
LocksExclude ==
  /\ \A a \in Agent : \A f \in entered[a] : LockOf[f] \in locks
  /\ \A a, b \in Agent : \A f \in entered[a], g \in entered[b] :
       LockOf[f] = LockOf[g] => a = b /\ f = g

(* Each call in S waits for the lock of a file that another one in S has.  *)
WaitInCircle(S) ==
  \A a \in S : Waits(a) /\ \E b \in S \ {a} : NextLock(a) \in entered[b]

(* Patches over several files never wait for each other's files in a       *)
(* circle, from which only the timeout would free them.  Paths whose locks *)
(* have one name may still wait in one: the order is that of the paths.    *)
NoCircularWait == \A S \in (SUBSET Agent) \ {{}} : ~WaitInCircle(S)

(* What an edit replaces is what it read: between the two no tool of       *)
(* another agent has changed the file, however they crash or time out.     *)
EditsKeepOthers ==
  [][\A a \in Agent : \A f \in File :
       disk'[f] # disk[f] /\ editor'[f] = a /\ call[a].tool = "edit" =>
         seen[a][f] = disk[f] \/ editor[f] = Outside]_vars

(* A patch that is refused, for a lock, a stale file or an operation that  *)
(* does not match, has changed none of its files.                          *)
PatchesAreAtomic ==
  [][\A a \in Agent : LockTimeout(a) \/ RefuseStale(a) \/ MatchFails(a) => todo[a] = call[a].files]_vars

(* The tools implement FileLocks: in particular a lock that a process died *)
(* with is never entered again, and every write of a tool, the later ones  *)
(* of a patch included, is made by the one call that is in the block of    *)
(* that lock.                                                              *)
Locking == INSTANCE FileLocks WITH
  held <- [a \in Agent |-> LocksOf(a)],
  lost <- locks \ UNION {LocksOf(a) : a \in Agent}
ImplementsLocking == Locking!Spec

(* Every call of a tool ends, also when a process died with a lock.        *)
ToolCallsEnd == \A a \in Agent : pc[a] # "idle" ~> pc[a] = "idle"
=============================================================================
