-------------------------- MODULE FileToolsProofs --------------------------
(***************************************************************************)
(* Proofs about FileTools, for any agents, files, names of locks and calls *)
(* and every fault.                                                        *)
(***************************************************************************)
EXTENDS FileTools, FiniteSetTheorems, SequenceTheorems, WellFoundedInduction, TLAPS

Unlocked(a) == FilesOf(a) \ entered[a]

(* What a call has yet to write at each of its steps.                      *)
TodoInv(a) ==
  /\ pc[a] = "idle" => todo[a] = <<>>
  /\ pc[a] \in {"lock", "check", "apply"} => todo[a] = call[a].files
  /\ pc[a] \in {"lock", "check", "apply", "write"} => todo[a] # <<>> /\ call[a] \in Calls
  /\ pc[a] \in {"stat", "truncate", "save"} /\ call[a].tool # "patch" => todo[a] = <<>>
  /\ call[a].tool # "patch" => Len(todo[a]) <= 1
  /\ \A i \in DOMAIN todo[a] : todo[a][i] \in FilesOf(a)

(* The locks of a call are a beginning of its files in their order, and    *)
(* all of them from the check to its last write.                           *)
OrderInv(a) ==
  /\ pc[a] = "idle" => entered[a] = {}
  /\ pc[a] = "lock" => Unlocked(a) # {}
  /\ entered[a] \subseteq FilesOf(a)
  /\ pc[a] \in {"check", "apply", "write"} => Unlocked(a) = {}
  /\ todo[a] # <<>> /\ pc[a] # "lock" => Unlocked(a) = {}
  /\ \A f \in entered[a], g \in Unlocked(a) : f < g

(* An edit about to write has read what is there, or somebody outside has  *)
(* changed it since.                                                       *)
ReadInv(a) ==
  pc[a] = "write" /\ call[a].tool = "edit" =>
    \A f \in FilesOf(a) : seen[a][f] = disk[f] \/ editor[f] = Outside

CallInv(a) == TodoInv(a) /\ OrderInv(a) /\ ReadInv(a)
ToolInv == TypeOK /\ LocksExclude /\ \A a \in Agent : CallInv(a)

-----------------------------------------------------------------------------
(* Finite sets of numbers.                                                 *)

LEMMA Least ==
  ASSUME NEW S \in SUBSET Nat, S # {}
  PROVE  \E x \in S : \A y \in S : x <= y
<1>1. PICK x \in S : \A y \in S : <<y, x>> \notin OpToRel(<, Nat)
  BY NatLessThanWellFounded, WFMin
<1>2. \A y \in S : ~ (y < x)
  BY <1>1 DEF OpToRel
<1> QED
  BY <1>2

LEMMA Greatest ==
  ASSUME NEW S \in SUBSET Nat, S # {}, IsFiniteSet(S)
  PROVE  \E x \in S : \A y \in S : y <= x
<1> DEFINE Above(x) == {y \in S : x < y}
           Sizes == {Cardinality(Above(x)) : x \in S}
<1>0. \A y \in S : y \in Nat
  OBVIOUS
<1>1. \A x \in S : IsFiniteSet(Above(x)) /\ Cardinality(Above(x)) \in Nat
  BY FS_Subset, FS_CardinalityType
<1>2. Sizes \in SUBSET Nat /\ Sizes # {}
  BY <1>1
<1>3. PICK n \in Sizes : \A m \in Sizes : n <= m
  BY <1>2, Least
<1>4. PICK x \in S : n = Cardinality(Above(x))
  BY <1>3
<1>5. ASSUME NEW y \in S, ~ (y <= x) PROVE FALSE
  <2>1. x < y
    BY <1>0, <1>5
  <2>2. ASSUME NEW z \in Above(y) PROVE z \in Above(x)
    <3>1. z \in S /\ y < z /\ x \in Nat /\ y \in Nat /\ z \in Nat
      BY <1>0
    <3> QED
      BY <2>1, <3>1
  <2>5. y \in Above(x) /\ y \notin Above(y)
    BY <1>0, <2>1
  <2>3. /\ Cardinality(Above(y)) <= Cardinality(Above(x))
        /\ Cardinality(Above(y)) = Cardinality(Above(x)) => Above(y) = Above(x)
    <3>1. Above(y) \in SUBSET Above(x)
      BY <2>2
    <3> HIDE DEF Above
    <3> QED
      BY <1>1, <3>1, FS_Subset
  <2>4. Cardinality(Above(x)) <= Cardinality(Above(y))
    BY <1>3, <1>4
  <2> QED
    BY <1>1, <2>3, <2>4, <2>5
<1> QED
  BY <1>5

LEMMA NoElement ==
  ASSUME NEW S, NEW s \in Seq(S), Len(s) = 0
  PROVE  s = <<>>
  BY EmptySeq

LEMMA CallFiles ==
  ASSUME TypeOK, NEW a \in Agent
  PROVE  FilesOf(a) \subseteq File /\ call[a].files \in Seq(File)
<1>1. call[a] \in Calls \/ call[a] = NoCall
  BY DEF TypeOK
<1>2. call[a].files \in Seq(File)
  <2>1. CASE call[a] \in Calls
    BY <2>1, FileAssumption
  <2>2. CASE call[a] = NoCall
    BY <2>2 DEF NoCall
  <2> QED
    BY <1>1, <2>1, <2>2
<1>3. \A i \in DOMAIN call[a].files : call[a].files[i] \in File
  BY <1>2
<1> QED
  BY <1>2, <1>3 DEF FilesOf

(* The lock that comes next is that of the first file without one.         *)
LEMMA NextIsLeast ==
  ASSUME TypeOK, NEW a \in Agent, Unlocked(a) # {}
  PROVE  /\ NextLock(a) \in Unlocked(a) /\ NextLock(a) \in File
         /\ \A g \in Unlocked(a) : NextLock(a) <= g
<1>1. FilesOf(a) \subseteq File
  BY CallFiles
<1>2. Unlocked(a) \in SUBSET Nat
  BY <1>1, FileAssumption DEF Unlocked
<1>3. \E f \in Unlocked(a) : \A g \in Unlocked(a) : f <= g
  BY <1>2, Least
<1>4. NextLock(a) \in Unlocked(a) /\ \A g \in Unlocked(a) : NextLock(a) <= g
  BY <1>3 DEF NextLock, Unlocked
<1> QED
  BY <1>1, <1>4 DEF Unlocked
-----------------------------------------------------------------------------
(* The variables of a call by itself.                                      *)

LEMMA OtherCall ==
  ASSUME NEW a \in Agent, CallInv(a),
         pc'[a] = pc[a], call'[a] = call[a], entered'[a] = entered[a], todo'[a] = todo[a],
         seen'[a] = seen[a],
         \A f \in entered[a] :
           (disk'[f] = disk[f] /\ editor'[f] = editor[f]) \/ editor'[f] = Outside
  PROVE  CallInv(a)'
<1>1. FilesOf(a)' = FilesOf(a) /\ Unlocked(a)' = Unlocked(a)
  BY DEF FilesOf, Unlocked
<1>2. TodoInv(a)' /\ OrderInv(a)'
  BY <1>1 DEF CallInv, TodoInv, OrderInv
<1>3. pc[a] = "write" => FilesOf(a) = entered[a]
  BY DEF CallInv, OrderInv, Unlocked
<1>4. ReadInv(a)'
  BY <1>1, <1>3 DEF CallInv, ReadInv
<1> QED
  BY <1>2, <1>4 DEF CallInv

(* A step of a that keeps the files keeps what is said of the others.      *)
LEMMA OtherCalls ==
  ASSUME TypeOK, NEW a \in Agent, NEW b \in Agent, b # a, CallInv(b), UNCHANGED world,
         \E x : pc' = [pc EXCEPT ![a] = x],
         call' = call \/ \E x : call' = [call EXCEPT ![a] = x],
         entered' = entered \/ \E x : entered' = [entered EXCEPT ![a] = x],
         todo' = todo \/ \E x : todo' = [todo EXCEPT ![a] = x],
         seen' = seen \/ \E x : seen' = [seen EXCEPT ![a] = x]
  PROVE  CallInv(b)'
<1>1. /\ pc'[b] = pc[b] /\ call'[b] = call[b] /\ entered'[b] = entered[b]
      /\ todo'[b] = todo[b] /\ seen'[b] = seen[b]
  BY DEF TypeOK
<1>2. disk' = disk /\ editor' = editor
  BY DEF world
<1> QED
  BY <1>1, <1>2, OtherCall

(* Leaving the blocks of the locks.                                        *)
LEMMA ReturnStep ==
  ASSUME ToolInv, NEW a \in Agent, Return(a), filetime' \in [File -> Nat], torn' \in BOOLEAN,
         todo' = [todo EXCEPT ![a] = <<>>]
  PROVE  ToolInv'
<1>1. TypeOK /\ LocksExclude /\ \A b \in Agent : CallInv(b)
  BY DEF ToolInv
<1>2. None \in [File -> Nat]
  BY DEF None
<1>3. todo' \in [Agent -> Seq(File)]
  <2>1. <<>> \in Seq(File)
    OBVIOUS
  <2> QED
    BY <1>1, <2>1 DEF TypeOK
<1>4. TypeOK'
  BY <1>1, <1>2, <1>3 DEF TypeOK, Return, Goto, world
<1>5. LocksExclude'
  <2>1. \A b \in Agent : entered'[b] = IF b = a THEN {} ELSE entered[b]
    BY <1>1 DEF Return, TypeOK
  <2>2. \A b \in Agent : \A f \in entered'[b] : LockOf[f] \in locks'
    <3> SUFFICES ASSUME NEW b \in Agent, b # a, NEW f \in entered[b]
                 PROVE  LockOf[f] \in locks'
      BY <2>1
    <3>1. LockOf[f] \in locks /\ \A g \in entered[a] : LockOf[g] # LockOf[f]
      BY <1>1 DEF LocksExclude
    <3> QED
      BY <3>1 DEF Return, LocksOf
  <2> QED
    BY <1>1, <2>1, <2>2 DEF LocksExclude
<1>6. CallInv(a)'
  <2>1. pc'[a] = "idle" /\ entered'[a] = {} /\ todo'[a] = <<>>
    BY <1>1 DEF Return, Goto, TypeOK
  <2> QED
    BY <2>1 DEF CallInv, TodoInv, OrderInv, ReadInv
<1>7. ASSUME NEW b \in Agent, b # a PROVE CallInv(b)'
  BY <1>1, <1>7, OtherCalls DEF Return, Goto
<1> QED
  BY <1>4, <1>5, <1>6, <1>7 DEF ToolInv

LEMMA FailStep ==
  ASSUME ToolInv, NEW a \in Agent, Fail(a)
  PROVE  ToolInv'
<1>1. Return(a) /\ todo' = [todo EXCEPT ![a] = <<>>] /\ UNCHANGED baselines
  BY DEF Fail
<1>2. filetime' \in [File -> Nat] /\ torn' \in BOOLEAN
  BY <1>1 DEF ToolInv, TypeOK, baselines
<1> QED
  BY <1>1, <1>2, ReturnStep

-----------------------------------------------------------------------------
(* The steps of a call.                                                    *)

LEMMA BeginStep ==
  ASSUME ToolInv, NEW a \in Agent, Begin(a)
  PROVE  ToolInv'
<1>1. TypeOK /\ LocksExclude /\ \A b \in Agent : CallInv(b)
  BY DEF ToolInv
<1>2. PICK c \in Calls :
        /\ call' = [call EXCEPT ![a] = c]
        /\ todo' = [todo EXCEPT ![a] = IF c.tool = "read" THEN <<>> ELSE c.files]
        /\ Reads(a, {c.files[i] : i \in DOMAIN c.files})
        /\ Goto(a, IF c.tool = "read" THEN "stat" ELSE "lock")
  BY DEF Begin
<1>3. c.files \in Seq(File) /\ c.files # <<>> /\ (c.tool # "patch" => Len(c.files) = 1)
  BY FileAssumption
<1>4. pc[a] = "idle" /\ entered[a] = {}
  BY <1>1 DEF Begin, CallInv, OrderInv
<1>5. /\ call'[a] = c /\ todo'[a] = (IF c.tool = "read" THEN <<>> ELSE c.files)
      /\ pc'[a] = (IF c.tool = "read" THEN "stat" ELSE "lock")
      /\ entered'[a] = {}
  BY <1>1, <1>2, <1>4 DEF TypeOK, Goto, Begin
<1>6. TypeOK'
  <2>1. seen' \in [Agent -> [File -> Nat]]
    BY <1>1, <1>2 DEF TypeOK, Reads
  <2>2. todo' \in [Agent -> Seq(File)]
    <3>1. <<>> \in Seq(File)
      OBVIOUS
    <3> QED
      BY <1>1, <1>2, <1>3, <3>1 DEF TypeOK
  <2>3. calls' \in [Agent -> 0..MaxCalls]
    BY <1>1, FileAssumption DEF TypeOK, Begin
  <2> QED
    BY <1>1, <1>2, <2>1, <2>2, <2>3 DEF TypeOK, Begin, Goto, world, baselines
<1>7. LocksExclude'
  BY <1>1 DEF LocksExclude, Begin
<1>8. CallInv(a)'
  <2>1. FilesOf(a)' = {c.files[i] : i \in DOMAIN c.files}
    BY <1>5 DEF FilesOf
  <2>2. FilesOf(a)' # {}
    <3>1. 1 \in DOMAIN c.files
      BY <1>3
    <3> QED
      BY <2>1, <3>1
  <2>3. TodoInv(a)'
    BY <1>3, <1>5, <2>1 DEF TodoInv
  <2>4. OrderInv(a)'
    BY <1>5, <2>2 DEF OrderInv, Unlocked
  <2>5. ReadInv(a)'
    BY <1>5 DEF ReadInv
  <2> QED
    BY <2>3, <2>4, <2>5 DEF CallInv
<1>9. ASSUME NEW b \in Agent, b # a PROVE CallInv(b)'
  BY <1>1, <1>2, <1>9, OtherCalls DEF Begin, Goto, Reads
<1> QED
  BY <1>6, <1>7, <1>8, <1>9 DEF ToolInv

LEMMA EnterStep ==
  ASSUME ToolInv, NEW a \in Agent, EnterLock(a)
  PROVE  ToolInv'
<1> DEFINE f == NextLock(a)
<1>1. TypeOK /\ LocksExclude /\ \A b \in Agent : CallInv(b)
  BY DEF ToolInv
<1>2. /\ pc[a] = "lock" /\ LockOf[f] \notin locks
      /\ locks' = locks \cup {LockOf[f]} /\ entered' = [entered EXCEPT ![a] = @ \cup {f}]
      /\ Goto(a, IF entered'[a] = FilesOf(a) THEN "check" ELSE "lock")
      /\ UNCHANGED <<world, baselines, call, calls, todo, copy, seen>>
  BY DEF EnterLock, Waits
<1>3. /\ f \in Unlocked(a) /\ f \in File /\ \A g \in Unlocked(a) : f <= g
  BY <1>1, <1>2, NextIsLeast DEF CallInv, OrderInv
<1> HIDE DEF f
<1>4. entered'[a] = entered[a] \cup {f} /\ \A b \in Agent \ {a} : entered'[b] = entered[b]
  BY <1>1, <1>2 DEF TypeOK
<1>5. TypeOK'
  BY <1>1, <1>2, <1>3 DEF TypeOK, Goto, world, baselines
<1>6. LocksExclude'
  <2>1. \A b \in Agent : \A g \in entered[b] : LockOf[g] # LockOf[f]
    BY <1>1, <1>2 DEF LocksExclude
  <2>2. \A b \in Agent : \A g \in entered'[b] : LockOf[g] \in locks'
    BY <1>1, <1>2, <1>4 DEF LocksExclude
  <2>3. ASSUME NEW b \in Agent, NEW d \in Agent, NEW g \in entered'[b], NEW h \in entered'[d],
               LockOf[g] = LockOf[h]
        PROVE  b = d /\ g = h
    <3>1. g \in entered[b] \/ (b = a /\ g = f)
      BY <1>4
    <3>2. h \in entered[d] \/ (d = a /\ h = f)
      BY <1>4
    <3> QED
      BY <1>1, <2>1, <2>3, <3>1, <3>2 DEF LocksExclude
  <2> QED
    BY <2>2, <2>3 DEF LocksExclude
<1>7. CallInv(a)'
  <2>1. FilesOf(a)' = FilesOf(a) /\ Unlocked(a)' = Unlocked(a) \ {f}
    BY <1>2, <1>4 DEF FilesOf, Unlocked
  <2>2. pc'[a] = (IF entered'[a] = FilesOf(a) THEN "check" ELSE "lock")
    BY <1>1, <1>2 DEF Goto, TypeOK
  <2>3. entered'[a] \subseteq FilesOf(a)
    BY <1>1, <1>3, <1>4 DEF CallInv, OrderInv, Unlocked
  <2>4. ASSUME NEW g \in entered'[a], NEW h \in Unlocked(a) \ {f} PROVE g < h
    <3>1. CASE g = f
      <4>1. f <= h /\ f # h
        BY <1>3
      <4>2. f \in Nat /\ h \in Nat
        BY <1>1, <1>3, CallFiles, FileAssumption DEF Unlocked
      <4> QED
        BY <3>1, <4>1, <4>2
    <3>2. CASE g \in entered[a]
      BY <1>1, <3>2 DEF CallInv, OrderInv
    <3> QED
      BY <1>4, <3>1, <3>2
  <2>5. OrderInv(a)'
    BY <2>1, <2>2, <2>3, <2>4 DEF OrderInv, Unlocked
  <2>6. TodoInv(a)'
    BY <1>1, <1>2, <2>1, <2>2 DEF CallInv, TodoInv
  <2>7. ReadInv(a)'
    BY <2>2 DEF ReadInv
  <2> QED
    BY <2>5, <2>6, <2>7 DEF CallInv
<1>8. ASSUME NEW b \in Agent, b # a PROVE CallInv(b)'
  BY <1>1, <1>2, <1>8, OtherCalls DEF Goto
<1> QED
  BY <1>5, <1>6, <1>7, <1>8 DEF ToolInv

(* Steps that only go on with the call.                                    *)
LEMMA CheckStep ==
  ASSUME ToolInv, NEW a \in Agent, CheckFreshness(a) \/ ApplyOperations(a)
  PROVE  ToolInv'
<1>1. TypeOK /\ LocksExclude /\ \A b \in Agent : CallInv(b)
  BY DEF ToolInv
<1>2. /\ pc[a] \in {"check", "apply"} /\ pc'[a] \in {"write", "apply"}
      /\ \E x \in {"write", "apply"} : pc' = [pc EXCEPT ![a] = x]
      /\ UNCHANGED <<world, baselines, locks, call, calls, entered, todo, copy>>
  BY <1>1 DEF CheckFreshness, ApplyOperations, Goto, TypeOK
<1>3. seen' = seen \/ Reads(a, FilesOf(a))
  BY DEF CheckFreshness, ApplyOperations
<1>4. pc'[a] = "write" /\ call[a].tool = "edit" => Reads(a, FilesOf(a))
  BY <1>1 DEF CheckFreshness, ApplyOperations, Goto, TypeOK
<1>5. TypeOK'
  <2>1. seen' \in [Agent -> [File -> Nat]]
    <3>1. CASE seen' = seen
      BY <1>1, <3>1 DEF TypeOK
    <3>2. CASE Reads(a, FilesOf(a))
      BY <1>1, <3>2 DEF TypeOK, Reads
    <3> QED
      BY <1>3, <3>1, <3>2
  <2>2. pc' \in [Agent -> {"idle", "lock", "check", "apply", "write", "stat", "truncate", "save"}]
    BY <1>1, <1>2 DEF TypeOK
  <2> QED
    BY <1>1, <1>2, <2>1, <2>2 DEF TypeOK, world, baselines
<1>6. LocksExclude'
  BY <1>1, <1>2 DEF LocksExclude
<1>7. CallInv(a)'
  <2>1. FilesOf(a)' = FilesOf(a) /\ Unlocked(a)' = Unlocked(a)
    BY <1>2 DEF FilesOf, Unlocked
  <2>2. TodoInv(a)' /\ OrderInv(a)'
    BY <1>1, <1>2, <2>1 DEF CallInv, TodoInv, OrderInv
  <2>3. ReadInv(a)'
    <3> SUFFICES ASSUME pc'[a] = "write", call[a].tool = "edit", NEW f \in FilesOf(a)
                 PROVE  seen'[a][f] = disk[f] /\ disk' = disk
      BY <1>2, <2>1 DEF ReadInv
    <3>1. f \in File
      BY <1>1, CallFiles
    <3> QED
      BY <1>1, <1>2, <1>4, <3>1 DEF Reads, TypeOK, world
  <2> QED
    BY <2>2, <2>3 DEF CallInv
<1>8. ASSUME NEW b \in Agent, b # a PROVE CallInv(b)'
  BY <1>1, <1>2, <1>3, <1>8, OtherCalls DEF Reads
<1> QED
  BY <1>5, <1>6, <1>7, <1>8 DEF ToolInv

(* Who writes a file is in the block of its lock, and nobody else is.      *)
LEMMA WriteStep ==
  ASSUME ToolInv, NEW a \in Agent, WriteFile(a)
  PROVE  ToolInv'
<1> DEFINE f == Head(todo[a])
<1>1. TypeOK /\ LocksExclude /\ \A b \in Agent : CallInv(b)
  BY DEF ToolInv
<1>2. /\ pc[a] = "write" /\ disk' = [disk EXCEPT ![f] = @ + 1]
      /\ editor' = [editor EXCEPT ![f] = a] /\ todo' = [todo EXCEPT ![a] = Tail(@)]
      /\ Goto(a, "stat")
      /\ UNCHANGED <<edits, baselines, locks, call, calls, entered, copy, seen>>
  BY DEF WriteFile
<1>3. /\ todo[a] \in Seq(File) /\ todo[a] # <<>> /\ call[a] \in Calls
      /\ \A i \in DOMAIN todo[a] : todo[a][i] \in FilesOf(a)
      /\ entered[a] = FilesOf(a)
  BY <1>1, <1>2 DEF TypeOK, CallInv, TodoInv, OrderInv, Unlocked
<1>4. f \in File /\ f \in entered[a]
  <2>1. 1 \in DOMAIN todo[a] /\ f = todo[a][1]
    BY <1>3
  <2> QED
    BY <1>1, <1>3, <2>1 DEF TypeOK
<1>5. /\ Tail(todo[a]) \in Seq(File) /\ Len(Tail(todo[a])) = Len(todo[a]) - 1
      /\ \A i \in DOMAIN Tail(todo[a]) : Tail(todo[a])[i] \in FilesOf(a)
  BY <1>3
<1> HIDE DEF f
<1>6. TypeOK'
  <2>1. pc' = [pc EXCEPT ![a] = "stat"] /\ UNCHANGED <<filetime, torn>>
    BY <1>2 DEF Goto, baselines
  <2>2. disk' \in [File -> Nat] /\ editor' \in [File -> Agent \cup {Outside}]
    <3>1. disk \in [File -> Nat] /\ editor \in [File -> Agent \cup {Outside}]
      BY <1>1 DEF TypeOK
    <3>2. disk' = [disk EXCEPT ![f] = disk[f] + 1] /\ editor' = [editor EXCEPT ![f] = a]
      BY <1>2
    <3>3. disk[f] + 1 \in Nat
      BY <1>4, <3>1
    <3> QED
      BY <3>1, <3>2, <3>3
  <2>3. todo' \in [Agent -> Seq(File)]
    <3>1. PICK rest \in Seq(File) : rest = Tail(todo[a])
      BY <1>5
    <3>2. todo' = [todo EXCEPT ![a] = rest] /\ todo \in [Agent -> Seq(File)]
      BY <1>1, <1>2, <3>1 DEF TypeOK
    <3> QED
      BY <3>2
  <2>4. pc' \in [Agent -> {"idle", "lock", "check", "apply", "write", "stat", "truncate", "save"}]
    BY <1>1, <2>1 DEF TypeOK
  <2> QED
    BY <1>1, <1>2, <2>1, <2>2, <2>3, <2>4 DEF TypeOK
<1>7. LocksExclude'
  BY <1>1, <1>2 DEF LocksExclude
<1>8. CallInv(a)'
  <2>1. FilesOf(a)' = FilesOf(a) /\ Unlocked(a)' = Unlocked(a) /\ Unlocked(a) = {}
    BY <1>2, <1>3 DEF FilesOf, Unlocked
  <2>2. pc'[a] = "stat" /\ todo'[a] = Tail(todo[a])
    BY <1>1, <1>2 DEF Goto, TypeOK
  <2>3. call[a].tool # "patch" => Tail(todo[a]) = <<>>
    <3> SUFFICES ASSUME call[a].tool # "patch" PROVE Tail(todo[a]) = <<>>
      OBVIOUS
    <3>1. Len(todo[a]) <= 1
      BY <1>1, <1>2 DEF CallInv, TodoInv
    <3>2. Len(todo[a]) \in Nat
      BY <1>3, LenProperties
    <3>3. Len(Tail(todo[a])) = Len(todo[a]) - 1 /\ Len(Tail(todo[a])) \in Nat
      BY <1>5, LenProperties
    <3>4. \A k, l \in Nat : l = k - 1 /\ k <= 1 => l = 0
      OBVIOUS
    <3>5. Len(Tail(todo[a])) = 0
      BY <3>1, <3>2, <3>3, <3>4
    <3> QED
      BY <1>5, <3>5, NoElement
  <2>4. TodoInv(a)'
    <3>1. call'[a].tool # "patch" => todo'[a] = <<>> /\ Len(todo'[a]) <= 1
      <4>1. call' = call
        BY <1>2
      <4>2. Len(<<>>) <= 1
        OBVIOUS
      <4> QED
        BY <2>2, <2>3, <4>1, <4>2
    <3>2. \A i \in DOMAIN todo'[a] : todo'[a][i] \in FilesOf(a)'
      BY <1>5, <2>1, <2>2
    <3> QED
      BY <2>2, <3>1, <3>2 DEF TodoInv
  <2>5. OrderInv(a)' /\ ReadInv(a)'
    BY <1>1, <1>2, <2>1, <2>2 DEF CallInv, OrderInv, ReadInv
  <2> QED
    BY <2>4, <2>5 DEF CallInv
<1>9. ASSUME NEW b \in Agent, b # a PROVE CallInv(b)'
  <2>1. \A g \in entered[b] : g # f /\ g \in File
    BY <1>1, <1>4, <1>9 DEF LocksExclude, TypeOK
  <2>2. \A g \in entered[b] : disk'[g] = disk[g] /\ editor'[g] = editor[g]
    BY <1>1, <1>2, <2>1 DEF TypeOK
  <2>3. /\ pc'[b] = pc[b] /\ call'[b] = call[b] /\ entered'[b] = entered[b]
        /\ todo'[b] = todo[b] /\ seen'[b] = seen[b]
    BY <1>1, <1>2, <1>9 DEF TypeOK, Goto
  <2> QED
    BY <1>1, <2>2, <2>3, OtherCall
<1> QED
  BY <1>6, <1>7, <1>8, <1>9 DEF ToolInv

LEMMA LoadStep ==
  ASSUME ToolInv, NEW a \in Agent, LoadBaselines(a) \/ TruncateBaselines(a)
  PROVE  ToolInv'
<1>1. TypeOK /\ LocksExclude /\ \A b \in Agent : CallInv(b)
  BY DEF ToolInv
<1>2. /\ pc[a] \in {"stat", "truncate"} /\ pc'[a] \in {"truncate", "save"}
      /\ \E x \in {"truncate", "save"} : pc' = [pc EXCEPT ![a] = x]
      /\ UNCHANGED <<world, filetime, locks, call, calls, entered, todo, seen>>
  BY <1>1 DEF LoadBaselines, TruncateBaselines, Goto, TypeOK, baselines
<1>3. torn' \in BOOLEAN /\ copy' \in [Agent -> [File -> Nat]]
  <2>1. CASE LoadBaselines(a)
    <3>1. \A g \in File : Baseline(g) \in Nat /\ disk[g] \in Nat
      BY <1>1 DEF TypeOK, Baseline
    <3>2. PICK f : copy' = [copy EXCEPT ![a] = [g \in File |-> IF g = f THEN disk[f] ELSE Baseline(g)]]
      BY <2>1 DEF LoadBaselines
    <3>3. [g \in File |-> IF g = f THEN disk[f] ELSE Baseline(g)] \in [File -> Nat]
      BY <3>1
    <3> QED
      BY <1>1, <2>1, <3>2, <3>3 DEF TypeOK, LoadBaselines, baselines
  <2>2. CASE TruncateBaselines(a)
    BY <1>1, <2>2 DEF TypeOK, TruncateBaselines
  <2> QED
    BY <2>1, <2>2
<1>4. TypeOK'
  <2>1. pc' \in [Agent -> {"idle", "lock", "check", "apply", "write", "stat", "truncate", "save"}]
    BY <1>1, <1>2 DEF TypeOK
  <2> QED
    BY <1>1, <1>2, <1>3, <2>1 DEF TypeOK, world
<1>5. LocksExclude'
  BY <1>1, <1>2 DEF LocksExclude
<1>6. CallInv(a)'
  <2>1. FilesOf(a)' = FilesOf(a) /\ Unlocked(a)' = Unlocked(a)
    BY <1>2 DEF FilesOf, Unlocked
  <2> QED
    BY <1>1, <1>2, <2>1 DEF CallInv, TodoInv, OrderInv, ReadInv
<1>7. ASSUME NEW b \in Agent, b # a PROVE CallInv(b)'
  BY <1>1, <1>2, <1>7, OtherCalls
<1> QED
  BY <1>4, <1>5, <1>6, <1>7 DEF ToolInv

LEMMA SaveStep ==
  ASSUME ToolInv, NEW a \in Agent, SaveBaselines(a)
  PROVE  ToolInv'
<1>1. TypeOK /\ LocksExclude /\ \A b \in Agent : CallInv(b)
  BY DEF ToolInv
<1>2. /\ pc[a] = "save" /\ filetime' = copy[a] /\ torn' \in BOOLEAN /\ todo' = todo
      /\ IF todo[a] # <<>>
           THEN Goto(a, "write") /\ UNCHANGED <<world, locks, call, calls, entered, copy, seen>>
           ELSE Return(a)
  BY DEF SaveBaselines
<1>3. filetime' \in [File -> Nat]
  BY <1>1, <1>2 DEF TypeOK
<1>4. CASE todo[a] = <<>>
  <2>1. todo' = [todo EXCEPT ![a] = <<>>]
    BY <1>1, <1>2, <1>4 DEF TypeOK
  <2> QED
    BY <1>2, <1>3, <1>4, <2>1, ReturnStep
<1>5. CASE todo[a] # <<>>
  <2>1. /\ Goto(a, "write") /\ UNCHANGED <<world, locks, call, calls, entered, copy, seen, todo>>
        /\ pc'[a] = "write"
    BY <1>1, <1>2, <1>5 DEF Goto, TypeOK
  <2>2. TypeOK'
    BY <1>1, <1>2, <1>3, <2>1 DEF TypeOK, Goto, world
  <2>3. LocksExclude'
    BY <1>1, <2>1 DEF LocksExclude
  <2>4. CallInv(a)'
    <3>1. FilesOf(a)' = FilesOf(a) /\ Unlocked(a)' = Unlocked(a)
      BY <2>1 DEF FilesOf, Unlocked
    <3>2. call[a].tool = "patch" /\ Unlocked(a) = {} /\ call[a] \in Calls
      <4>1. FilesOf(a) # {}
        <5>1. 1 \in DOMAIN todo[a]
          BY <1>1, <1>5 DEF TypeOK
        <5> QED
          BY <1>1, <5>1 DEF CallInv, TodoInv
      <4>2. call[a] # NoCall
        BY <4>1 DEF FilesOf, NoCall
      <4> QED
        BY <1>1, <1>2, <1>5, <4>2 DEF CallInv, TodoInv, OrderInv, TypeOK
    <3> QED
      BY <1>1, <1>5, <2>1, <3>1, <3>2 DEF CallInv, TodoInv, OrderInv, ReadInv
  <2>5. ASSUME NEW b \in Agent, b # a PROVE CallInv(b)'
    BY <1>1, <2>1, <2>5, OtherCalls DEF Goto
  <2> QED
    BY <2>2, <2>3, <2>4, <2>5 DEF ToolInv
<1> QED
  BY <1>4, <1>5

(* A lock that is left behind keeps everybody out.                         *)
LEMMA CrashStep ==
  ASSUME ToolInv, NEW a \in Agent, Crash(a)
  PROVE  ToolInv'
<1>1. TypeOK /\ LocksExclude /\ \A b \in Agent : CallInv(b)
  BY DEF ToolInv
<1>2. None \in [File -> Nat]
  BY DEF None
<1>3. TypeOK'
  <2>1. <<>> \in Seq(File)
    OBVIOUS
  <2> QED
    BY <1>1, <1>2, <2>1 DEF TypeOK, Crash, Goto, world, baselines
<1>4. \A b \in Agent : entered'[b] = IF b = a THEN {} ELSE entered[b]
  BY <1>1 DEF Crash, TypeOK
<1>5. LocksExclude'
  BY <1>1, <1>4 DEF LocksExclude, Crash
<1>6. CallInv(a)'
  <2>1. pc'[a] = "idle" /\ entered'[a] = {} /\ todo'[a] = <<>>
    BY <1>1 DEF Crash, Goto, TypeOK
  <2> QED
    BY <2>1 DEF CallInv, TodoInv, OrderInv, ReadInv
<1>7. ASSUME NEW b \in Agent, b # a PROVE CallInv(b)'
  BY <1>1, <1>7, OtherCalls DEF Crash, Goto
<1> QED
  BY <1>3, <1>5, <1>6, <1>7 DEF ToolInv

LEMMA EditStep ==
  ASSUME ToolInv, NEW f \in File, EditOutside(f)
  PROVE  ToolInv'
<1>1. TypeOK /\ LocksExclude /\ \A b \in Agent : CallInv(b)
  BY DEF ToolInv
<1>2. TypeOK'
  <2>1. edits' \in 0..MaxEdits
    BY <1>1, FileAssumption DEF TypeOK, EditOutside
  <2> QED
    BY <1>1, <2>1 DEF TypeOK, EditOutside, baselines
<1>3. LocksExclude'
  BY <1>1 DEF LocksExclude, EditOutside
<1>4. ASSUME NEW b \in Agent PROVE CallInv(b)'
  <2>1. \A g \in File : (disk'[g] = disk[g] /\ editor'[g] = editor[g]) \/ editor'[g] = Outside
    BY <1>1 DEF EditOutside, TypeOK
  <2>2. entered[b] \subseteq File
    BY <1>1 DEF TypeOK
  <2> QED
    BY <1>1, <2>1, <2>2, OtherCall DEF EditOutside
<1> QED
  BY <1>2, <1>3, <1>4 DEF ToolInv

LEMMA InitTools == Init => ToolInv
<1> SUFFICES ASSUME Init PROVE ToolInv
  OBVIOUS
<1>1. None \in [File -> Nat] /\ disk \in [File -> Nat] /\ <<>> \in Seq(File)
  BY DEF Init, None
<1>2. edits \in 0..MaxEdits /\ calls \in [Agent -> 0..MaxCalls]
  BY FileAssumption DEF Init
<1>3. TypeOK
  BY <1>1, <1>2 DEF Init, TypeOK
<1>4. LocksExclude
  BY DEF Init, LocksExclude
<1>5. ASSUME NEW a \in Agent PROVE CallInv(a)
  BY DEF Init, CallInv, TodoInv, OrderInv, ReadInv
<1> QED
  BY <1>3, <1>4, <1>5 DEF ToolInv

LEMMA SameState ==
  ASSUME ToolInv, UNCHANGED vars, \A a \in Agent : CallInv(a)'
  PROVE  ToolInv'
<1>1. TypeOK' /\ LocksExclude'
  <2>1. TypeOK'
    BY DEF ToolInv, TypeOK, vars, world, baselines
  <2>2. LocksExclude'
    BY DEF ToolInv, LocksExclude, vars, world, baselines
  <2> QED
    BY <2>1, <2>2
<1> QED
  BY <1>1 DEF ToolInv

LEMMA ToolStep == ToolInv /\ [Next]_vars => ToolInv'
<1> SUFFICES ASSUME ToolInv, [Next]_vars PROVE ToolInv'
  OBVIOUS
<1>1. ASSUME NEW a \in Agent, CallStep(a) PROVE ToolInv'
  <2>1. ASSUME LockTimeout(a) \/ RefuseStale(a) \/ MatchFails(a) PROVE ToolInv'
    BY <2>1, FailStep DEF LockTimeout, RefuseStale, MatchFails
  <2> QED
    BY <1>1, <2>1, EnterStep, CheckStep, WriteStep, LoadStep, SaveStep DEF CallStep
<1>2. ASSUME NEW a \in Agent, WriteFails(a) PROVE ToolInv'
  BY <1>2, FailStep DEF WriteFails
<1>3. CASE UNCHANGED vars
  <2>1. ASSUME NEW a \in Agent PROVE CallInv(a)'
    BY <1>3, OtherCall DEF ToolInv, vars, world
  <2> QED
    BY <1>3, <2>1, SameState
<1> QED
  BY <1>1, <1>2, <1>3, BeginStep, CrashStep, EditStep DEF Next

LEMMA ToolsHold == Spec => []ToolInv
  BY InitTools, ToolStep, PTL DEF Spec

-----------------------------------------------------------------------------
(* Files, baselines, locks and calls keep their types, for any agents,     *)
(* files and calls and every fault.                                        *)
THEOREM ToolTypes == Spec => []TypeOK
<1>1. ToolInv => TypeOK
  BY DEF ToolInv
<1> QED
  BY <1>1, ToolsHold, PTL

(* with_lock excludes, also when paths share a name, when a patch leaves   *)
(* halfway through its locks and when a process dies in one.               *)
THEOREM LocksHold == Spec => []LocksExclude
<1>1. ToolInv => LocksExclude
  BY DEF ToolInv
<1> QED
  BY <1>1, ToolsHold, PTL

(* Of calls that wait for each other one waits for the greatest file, which *)
(* the one that has it must have locked before a greater one.              *)
THEOREM PatchesNeverCircle == Spec => []NoCircularWait
<1>1. ToolInv => NoCircularWait
  <2> SUFFICES ASSUME ToolInv, NEW S \in SUBSET Agent, S # {}, WaitInCircle(S)
               PROVE  FALSE
    BY DEF NoCircularWait
  <2>1. ASSUME NEW a \in S
        PROVE  /\ pc[a] = "lock" /\ NextLock(a) \in Unlocked(a) /\ NextLock(a) \in File
               /\ \E b \in S : NextLock(a) \in entered[b]
    <3>1. pc[a] = "lock" /\ \E b \in S : NextLock(a) \in entered[b]
      BY DEF WaitInCircle, Waits
    <3>2. TypeOK /\ a \in Agent /\ Unlocked(a) # {}
      BY <3>1 DEF ToolInv, CallInv, OrderInv
    <3> QED
      BY <3>1, <3>2, NextIsLeast
  <2> DEFINE W == {NextLock(a) : a \in S}
  <2>2. W \in SUBSET File /\ W # {}
    BY <2>1
  <2>3. W \in SUBSET Nat /\ IsFiniteSet(W)
    BY <2>2, FileAssumption, FS_Subset
  <2> HIDE DEF W
  <2>4. PICK f \in W : \A g \in W : g <= f
    BY <2>2, <2>3, Greatest
  <2>5. PICK b \in S : f \in entered[b]
    BY <2>1, <2>4 DEF W
  <2>6. NextLock(b) \in Unlocked(b) /\ NextLock(b) \in W
    BY <2>1 DEF W
  <2>7. f < NextLock(b)
    BY <2>5, <2>6 DEF ToolInv, CallInv, OrderInv
  <2>8. NextLock(b) <= f
    BY <2>4, <2>6
  <2>9. f \in Nat /\ NextLock(b) \in Nat
    BY <2>3, <2>4, <2>6
  <2> QED
    BY <2>7, <2>8, <2>9
<1> QED
  BY <1>1, ToolsHold, PTL

(* A patch is refused before its first write, by any of its checks.        *)
THEOREM RefusedBeforeWriting == Spec => PatchesAreAtomic
<1>1. ToolInv => \A a \in Agent : LockTimeout(a) \/ RefuseStale(a) \/ MatchFails(a) =>
                                   todo[a] = call[a].files
  BY DEF ToolInv, CallInv, TodoInv, LockTimeout, Waits, RefuseStale, MatchFails
<1> QED
  BY <1>1, ToolsHold, PTL DEF PatchesAreAtomic

(* What edit replaces it has read while it had the lock, so that only an    *)
(* editor that knows no locks can have come between.                       *)
THEOREM EditsKeep == Spec => EditsKeepOthers
<1> DEFINE Kept ==
      \A a \in Agent : \A f \in File :
        disk'[f] # disk[f] /\ editor'[f] = a /\ call[a].tool = "edit" =>
          seen[a][f] = disk[f] \/ editor[f] = Outside
<1>1. ToolInv /\ [Next]_vars => Kept \/ UNCHANGED vars
  <2> SUFFICES ASSUME ToolInv, Next, NEW a \in Agent, NEW f \in File,
                      disk'[f] # disk[f], editor'[f] = a, call[a].tool = "edit"
               PROVE  seen[a][f] = disk[f] \/ editor[f] = Outside
    OBVIOUS
  <2>1. TypeOK /\ CallInv(a)
    BY DEF ToolInv
  <2>2. CASE \E b \in Agent : WriteFile(b)
    <3>1. PICK b \in Agent : WriteFile(b)
      BY <2>2
    <3>2. f = Head(todo[b]) /\ editor'[f] = b /\ pc[b] = "write"
      BY <2>1, <3>1 DEF WriteFile, TypeOK
    <3>3. b = a /\ todo[a] \in Seq(File) /\ todo[a] # <<>>
      BY <2>1, <3>2 DEF CallInv, TodoInv, TypeOK
    <3>4. f \in FilesOf(a)
      <4>1. 1 \in DOMAIN todo[a] /\ f = todo[a][1]
        BY <3>2, <3>3
      <4> QED
        BY <2>1, <4>1 DEF CallInv, TodoInv
    <3> QED
      BY <2>1, <3>2, <3>3, <3>4 DEF CallInv, ReadInv
  <2>3. CASE \E g \in File : EditOutside(g)
    <3>1. editor'[f] = Outside
      BY <2>1, <2>3 DEF EditOutside, TypeOK
    <3> QED
      BY <3>1, FileAssumption
  <2>4. CASE UNCHANGED world
    BY <2>4 DEF world
  <2>5. \/ \E b \in Agent : WriteFile(b)
        \/ \E g \in File : EditOutside(g)
        \/ UNCHANGED world
    <3>1. ASSUME NEW b \in Agent, CallStep(b), ~WriteFile(b) PROVE UNCHANGED world
      BY <3>1 DEF CallStep, EnterLock, LockTimeout, CheckFreshness, RefuseStale, ApplyOperations,
                  MatchFails, LoadBaselines, TruncateBaselines, SaveBaselines, Fail, Return
    <3>2. ASSUME NEW b \in Agent, Begin(b) \/ WriteFails(b) \/ Crash(b) PROVE UNCHANGED world
      BY <3>2 DEF Begin, WriteFails, Crash, Fail, Return
    <3> QED
      BY <3>1, <3>2 DEF Next
  <2> QED
    BY <2>2, <2>3, <2>4, <2>5
<1>2. ToolInv /\ [Next]_vars => [Kept]_vars
  BY <1>1
<1> QED
  BY <1>2, ToolsHold, PTL DEF Spec, EditsKeepOthers
-----------------------------------------------------------------------------
(* FileLocks: what agents hold, and what was lost.                         *)
Held == [a \in Agent |-> LocksOf(a)]
Lost == locks \ UNION {LocksOf(a) : a \in Agent}

(* Locks that somebody holds have their file, and one holder.              *)
LEMMA HeldLocks ==
  ASSUME LocksExclude
  PROVE  /\ \A a \in Agent : LocksOf(a) \subseteq locks
         /\ \A a, b \in Agent : a # b => LocksOf(a) \cap LocksOf(b) = {}
BY DEF LocksExclude, LocksOf

LEMMA HeldSame ==
  ASSUME entered' = entered, locks' = locks
  PROVE  Held' = Held /\ Lost' = Lost
BY DEF Held, Lost, LocksOf

(* Leaving the blocks of the locks, by the end of a call or by death.      *)
LEMMA HeldLeft ==
  ASSUME TypeOK, NEW a \in Agent, entered' = [entered EXCEPT ![a] = {}]
  PROVE  /\ Held' = [Held EXCEPT ![a] = {}]
         /\ UNION {LocksOf(b)' : b \in Agent} = UNION {LocksOf(b) : b \in Agent \ {a}}
<1>1. LocksOf(a)' = {} /\ \A b \in Agent \ {a} : LocksOf(b)' = LocksOf(b)
  BY DEF TypeOK, LocksOf
<1>2. Held' = [Held EXCEPT ![a] = {}]
  BY <1>1 DEF Held
<1>3. UNION {LocksOf(b)' : b \in Agent} = UNION {LocksOf(b) : b \in Agent \ {a}}
  BY <1>1
<1>. QED BY <1>2, <1>3

LEMMA ReturnGivesUp ==
  ASSUME ToolInv, NEW a \in Agent, Return(a)
  PROVE  [Locking!Next]_(Locking!vars)
<1>1. TypeOK /\ LocksExclude
  BY DEF ToolInv
<1>2. /\ entered' = [entered EXCEPT ![a] = {}] /\ locks' = locks \ LocksOf(a)
      /\ disk' = disk /\ editor' = editor
  BY DEF Return, world
<1>3. /\ Held' = [Held EXCEPT ![a] = {}]
      /\ UNION {LocksOf(b)' : b \in Agent} = UNION {LocksOf(b) : b \in Agent \ {a}}
  BY <1>1, <1>2, HeldLeft
<1>4. Lost' = Lost
  BY <1>2, <1>3 DEF Lost
<1>5. CASE LocksOf(a) = {}
  <2>1. Held' = Held
    BY <1>3, <1>5 DEF Held
  <2>. QED BY <1>2, <1>4, <2>1 DEF Locking!vars, Held, Lost
<1>6. CASE LocksOf(a) # {}
  <2>1. Locking!GiveUp(a)
    BY <1>2, <1>3, <1>4, <1>6 DEF Locking!GiveUp, Held, Lost
  <2>. QED BY <2>1 DEF Locking!Next
<1>. QED BY <1>5, <1>6

LEMMA CrashLoses ==
  ASSUME ToolInv, NEW a \in Agent, Crash(a)
  PROVE  [Locking!Next]_(Locking!vars)
<1>1. TypeOK /\ LocksExclude
  BY DEF ToolInv
<1>2. /\ entered' = [entered EXCEPT ![a] = {}] /\ locks' = locks
      /\ disk' = disk /\ editor' = editor
  BY DEF Crash, world
<1>3. /\ Held' = [Held EXCEPT ![a] = {}]
      /\ UNION {LocksOf(b)' : b \in Agent} = UNION {LocksOf(b) : b \in Agent \ {a}}
  BY <1>1, <1>2, HeldLeft
<1>4. Lost' = Lost \cup LocksOf(a)
  BY <1>1, <1>2, <1>3, HeldLocks DEF Lost
<1>5. CASE LocksOf(a) = {}
  <2>1. Held' = Held /\ Lost' = Lost
    BY <1>3, <1>4, <1>5 DEF Held
  <2>. QED BY <1>2, <2>1 DEF Locking!vars, Held, Lost
<1>6. CASE LocksOf(a) # {}
  <2>1. Locking!Die(a)
    BY <1>2, <1>3, <1>4, <1>6 DEF Locking!Die, Held, Lost
  <2>. QED BY <2>1 DEF Locking!Next
<1>. QED BY <1>5, <1>6

LEMMA EnterTakes ==
  ASSUME ToolInv, NEW a \in Agent, EnterLock(a)
  PROVE  Locking!Next
<1>. DEFINE f == NextLock(a)
            l == LockOf[f]
<1>1. TypeOK /\ LocksExclude /\ CallInv(a)
  BY DEF ToolInv
<1>2. /\ pc[a] = "lock" /\ l \notin locks /\ locks' = locks \cup {l}
      /\ entered' = [entered EXCEPT ![a] = @ \cup {f}] /\ disk' = disk /\ editor' = editor
  BY DEF EnterLock, Waits, world
<1>3. f \in File
  BY <1>1, <1>2, NextIsLeast DEF CallInv, OrderInv
<1>. HIDE DEF f
<1>4. LocksOf(a)' = LocksOf(a) \cup {l} /\ \A b \in Agent \ {a} : LocksOf(b)' = LocksOf(b)
  BY <1>1, <1>2 DEF TypeOK, LocksOf
<1>. HIDE DEF l
<1>5. Held' = [Held EXCEPT ![a] = @ \cup {l}]
  BY <1>4 DEF Held
<1>6. \A x : (\E b \in Agent : x \in LocksOf(b)') <=> (x = l \/ \E b \in Agent : x \in LocksOf(b))
  BY <1>4
<1>7. Lost' = Lost
  <2>1. \A x : x \in Lost <=> x \in locks /\ ~ \E b \in Agent : x \in LocksOf(b)
    BY DEF Lost
  <2>2. \A x : x \in Lost' <=> x \in locks' /\ ~ \E b \in Agent : x \in LocksOf(b)'
    BY DEF Lost
  <2>3. \A x : x \in Lost' <=> x \in Lost
    BY <1>2, <1>6, <2>1, <2>2
  <2>. QED BY <2>3 DEF Lost
<1>8. l \in Locking!Lock
  BY <1>3 DEF l, Locking!Lock
<1>9. l \notin Lost /\ \A b \in Agent : l \notin LocksOf(b)
  BY <1>1, <1>2, HeldLocks DEF Lost
<1>10. Locking!Take(a)
  BY <1>2, <1>5, <1>7, <1>8, <1>9 DEF Locking!Take, Locking!Free, Held, Lost
<1>. QED BY <1>10 DEF Locking!Next

LEMMA WriteChanges ==
  ASSUME ToolInv, NEW a \in Agent, WriteFile(a)
  PROVE  Locking!Next
<1>. DEFINE f == Head(todo[a])
<1>1. TypeOK /\ CallInv(a)
  BY DEF ToolInv
<1>2. /\ pc[a] = "write" /\ disk' = [disk EXCEPT ![f] = @ + 1] /\ editor' = [editor EXCEPT ![f] = a]
      /\ entered' = entered /\ locks' = locks
  BY DEF WriteFile
<1>3. /\ todo[a] \in Seq(File) /\ todo[a] # <<>>
      /\ \A i \in DOMAIN todo[a] : todo[a][i] \in FilesOf(a)
      /\ entered[a] = FilesOf(a)
  BY <1>1, <1>2 DEF TypeOK, CallInv, TodoInv, OrderInv, Unlocked
<1>4. f \in File /\ f \in entered[a]
  <2>1. 1 \in DOMAIN todo[a] /\ f = todo[a][1]
    BY <1>3
  <2>. QED BY <1>1, <1>3, <2>1 DEF TypeOK
<1>5. Held' = Held /\ Lost' = Lost
  BY <1>2, HeldSame
<1>6. LockOf[f] \in LocksOf(a)
  BY <1>4 DEF LocksOf
<1>. HIDE DEF f
<1>7. Locking!Change(a)
  BY <1>2, <1>4, <1>5, <1>6 DEF Locking!Change, Locking!Changed, Held, Lost
<1>. QED BY <1>7 DEF Locking!Next

(* Any other step leaves files and locks alone.                            *)
LEMMA LockingStutters ==
  ASSUME UNCHANGED <<disk, editor, entered, locks>>
  PROVE  UNCHANGED Locking!vars
<1>1. Held' = Held /\ Lost' = Lost
  BY HeldSame
<1>. QED BY <1>1 DEF Locking!vars, Held, Lost

LEMMA LockingStep == ToolInv /\ [Next]_vars => [Locking!Next]_(Locking!vars)
<1>. SUFFICES ASSUME ToolInv, [Next]_vars PROVE [Locking!Next]_(Locking!vars)
  OBVIOUS
<1>1. CASE UNCHANGED vars
  BY <1>1, LockingStutters DEF vars, world
<1>2. ASSUME NEW a \in Agent, Begin(a) PROVE [Locking!Next]_(Locking!vars)
  BY <1>2, LockingStutters DEF Begin, world
<1>3. ASSUME NEW a \in Agent, CallStep(a) PROVE [Locking!Next]_(Locking!vars)
  <2>1. CASE EnterLock(a)
    BY <2>1, EnterTakes
  <2>2. CASE LockTimeout(a) \/ RefuseStale(a) \/ MatchFails(a)
    BY <2>2, ReturnGivesUp DEF LockTimeout, RefuseStale, MatchFails, Fail
  <2>3. CASE CheckFreshness(a) \/ ApplyOperations(a) \/ LoadBaselines(a) \/ TruncateBaselines(a)
    BY <2>3, LockingStutters DEF CheckFreshness, ApplyOperations, LoadBaselines, TruncateBaselines, world
  <2>4. CASE WriteFile(a)
    BY <2>4, WriteChanges
  <2>5. CASE SaveBaselines(a)
    <3>1. Return(a) \/ UNCHANGED <<disk, editor, entered, locks>>
      BY <2>5 DEF SaveBaselines, world
    <3>. QED BY <3>1, ReturnGivesUp, LockingStutters
  <2>. QED BY <1>3, <2>1, <2>2, <2>3, <2>4, <2>5 DEF CallStep
<1>4. ASSUME NEW a \in Agent, WriteFails(a) \/ Crash(a) PROVE [Locking!Next]_(Locking!vars)
  BY <1>4, ReturnGivesUp, CrashLoses DEF WriteFails, Fail
<1>5. ASSUME NEW f \in File, EditOutside(f) PROVE [Locking!Next]_(Locking!vars)
  <2>1. Held' = Held /\ Lost' = Lost
    BY <1>5, HeldSame DEF EditOutside
  <2>2. Locking!ChangeOutside
    BY <1>5, <2>1 DEF EditOutside, Locking!ChangeOutside, Locking!Changed, Held, Lost
  <2>. QED BY <2>2 DEF Locking!Next
<1>. QED BY <1>1, <1>2, <1>3, <1>4, <1>5 DEF Next

(* The tools share a workspace as FileLocks says: who changes a file holds *)
(* its lock then, and what a dead process held is never taken again.       *)
THEOREM ImplementsLocks == Spec => ImplementsLocking
<1>1. Init => Locking!Init
  BY DEF Init, Locking!Init, LocksOf
<1>. QED BY <1>1, LockingStep, ToolsHold, PTL DEF Spec, ImplementsLocking, Locking!Spec
=============================================================================
