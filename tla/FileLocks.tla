----------------------------- MODULE FileLocks -----------------------------
(***************************************************************************)
(* What the lock files promise the agents that work on one workspace: a    *)
(* file is changed by the agent that holds its lock or by an editor that   *)
(* knows of none.  A lock has one holder at a time, who gives up all it    *)
(* holds at once; if it dies instead, what it held is lost: nobody gets    *)
(* that lock again, and no tool changes its files any more.                *)
(***************************************************************************)
EXTENDS Naturals

CONSTANTS Agent, File, LockOf, Outside

Lock == {LockOf[f] : f \in File}

VARIABLES disk, editor, \* the version of a file, and who made it
          held,         \* the locks of an agent
          lost          \* the locks of agents that died

vars == <<disk, editor, held, lost>>

Init ==
  /\ disk \in [File -> Nat] /\ editor = [f \in File |-> Outside]
  /\ held = [a \in Agent |-> {}] /\ lost = {}

Free(l) == l \notin lost /\ \A a \in Agent : l \notin held[a]

Take(a) ==
  /\ \E l \in Lock : Free(l) /\ held' = [held EXCEPT ![a] = @ \cup {l}]
  /\ UNCHANGED <<disk, editor, lost>>

GiveUp(a) ==
  /\ held[a] # {} /\ held' = [held EXCEPT ![a] = {}]
  /\ UNCHANGED <<disk, editor, lost>>

Die(a) ==
  /\ held[a] # {} /\ held' = [held EXCEPT ![a] = {}]
  /\ lost' = lost \cup held[a]
  /\ UNCHANGED <<disk, editor>>

Changed(f, by) == disk' = [disk EXCEPT ![f] = @ + 1] /\ editor' = [editor EXCEPT ![f] = by]

Change(a) ==
  /\ \E f \in File : LockOf[f] \in held[a] /\ Changed(f, a)
  /\ UNCHANGED <<held, lost>>

ChangeOutside == (\E f \in File : Changed(f, Outside)) /\ UNCHANGED <<held, lost>>

Next == (\E a \in Agent : Take(a) \/ GiveUp(a) \/ Die(a) \/ Change(a)) \/ ChangeOutside

Spec == Init /\ [][Next]_vars
=============================================================================
