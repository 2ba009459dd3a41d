---------------------------- MODULE SessionProofs ---------------------------
(***************************************************************************)
(* For every number of lanes: a process that ends leaves nothing behind    *)
(* but what could not be removed, the worktree the user wants kept is      *)
(* usable, and a checkpoint is removed only with an outcome.               *)
(***************************************************************************)
EXTENDS Session, TLAPS

---------------------------------------------------------------------------
(* The inductive invariant, in parts. *)

(* Worktrees are set up one after the other. *)
LanesInOrder ==
    /\ Len(dirs) <= Lanes
    /\ \A i \in 1..Len(dirs) : dirs[i] = i

(* Until the bisection has ended there is nothing to remove. *)
NothingYet ==
    /\ pc \in {"preflight", "store", "mkdir"} => dirs = << >> /\ disk = {} /\ entries = {}
    /\ pc \in {"preflight", "store", "mkdir", "add", "bisect"} => todo = << >> /\ stuck = {}
    /\ pc \in {"add", "bisect"} => disk = 1..Len(dirs) /\ entries = 1..Len(dirs)
    /\ pc = "bisect" => Len(dirs) = Lanes

(* While worktrees are removed, each entry is of one that is still to be   *)
(* removed, or of the one to be kept; at last the directories are as well. *)
Accounted ==
    /\ pc \in {"remove", "rmdir", "prune", "report", "exited"} =>
          \A l \in entries : \/ l \in stuck
                             \/ Keeps /\ l = 1
                             \/ \E i \in 1..Len(todo) : todo[i] = l
    /\ pc \in {"rmdir", "prune"} => todo # << >>
    /\ pc = "prune" => Head(todo) \in stuck \/ Head(todo) \notin disk
    /\ pc \in {"report", "exited"} => todo = << >>
    /\ pc \in {"report", "exited"} /\ ~Keeps => disk \subseteq stuck

(* The worktree that is kept is never one to remove. *)
KeptSpared ==
    pc \in {"remove", "rmdir", "prune", "report", "exited"} /\ Keeps =>
        /\ 1 \in disk /\ 1 \in entries
        /\ \A i \in 1..Len(todo) : todo[i] # 1

(* This run's checkpoint comes after the earlier run's. *)
OpenedLate == pc \in {"preflight", "store"} => checkpoint \in {"none", "kept"}

IInv ==
    /\ TypeOK
    /\ LanesInOrder
    /\ NothingYet
    /\ Accounted
    /\ KeptSpared
    /\ OpenedLate

LEMMA InitIInv == Init => IInv
  <1> SUFFICES ASSUME Init PROVE IInv
    OBVIOUS
  <1>1. TypeOK
    <2>1. << >> \in Seq(Lane) /\ {} \subseteq Lane
      OBVIOUS
    <2> QED BY <2>1 DEF Init, TypeOK
  <1>2. LanesInOrder
    BY LanesAssumption DEF Init, LanesInOrder
  <1> QED BY <1>1, <1>2 DEF Init, IInv, NothingYet, Accounted, KeptSpared, OpenedLate

---------------------------------------------------------------------------
(* Types. *)

LEMMA NextTypeOK ==
    ASSUME IInv, Next
    PROVE  TypeOK'
  <1> USE DEF Fail, Finish, worktrees
  <1>1. TypeOK /\ LanesInOrder
    BY DEF IInv
  <1>2. CASE Preflight \/ OpenCheckpoint \/ MakeParent \/ LanesReady \/ Report \/ Cancel \/ Kill
    BY <1>1, <1>2
    DEF TypeOK, Preflight, OpenCheckpoint, MakeParent, LanesReady, Report, Cancel, Kill
  <1>3. CASE AddWorktree \/ AddFails
    <2>1. Len(dirs) + 1 \in Lane
      BY <1>1, <1>3, LanesAssumption DEF TypeOK, Lane, AddWorktree, AddFails
    <2>2. CASE AddWorktree
      BY <1>1, <2>1, <2>2 DEF TypeOK, AddWorktree
    <2>3. CASE AddFails
      BY <1>1, <2>1, <2>3 DEF TypeOK, AddFails
    <2> QED BY <1>3, <2>2, <2>3
  <1>4. CASE Bisect
    <2>1. ToRemove \in Seq(Lane)
      <3>1. dirs # << >>
        BY <1>4, LanesAssumption DEF IInv, NothingYet, Bisect
      <3> QED BY <1>1, <3>1 DEF TypeOK, ToRemove
    <2> QED BY <1>1, <1>4, <2>1 DEF TypeOK, Bisect
  <1>5. CASE GitRemoves \/ GitRefuses \/ DeleteDir \/ Prune
    <2>1. todo # << >>
      BY <1>5 DEF IInv, Accounted, GitRemoves, GitRefuses, DeleteDir, Prune
    <2> todo \in Seq(Lane) /\ Head(todo) \in Lane /\ Tail(todo) \in Seq(Lane)
      BY <1>1, <2>1 DEF TypeOK
    <2>2. CASE GitRemoves
      BY <1>1, <2>1, <2>2 DEF TypeOK, GitRemoves, Removed
    <2>3. CASE GitRefuses
      BY <1>1, <2>1, <2>3 DEF TypeOK, GitRefuses
    <2>4. CASE DeleteDir
      BY <1>1, <2>1, <2>4 DEF TypeOK, DeleteDir
    <2>5. CASE Prune
      BY <1>1, <2>1, <2>5 DEF TypeOK, Prune, Removed
    <2> QED BY <1>5, <2>2, <2>3, <2>4, <2>5
  <1>6. CASE RemoveParent
    BY <1>1, <1>6 DEF TypeOK, RemoveParent
  <1>7. CASE Ended
    BY <1>1, <1>7 DEF TypeOK, Ended, vars
  <1> QED BY <1>2, <1>3, <1>4, <1>5, <1>6, <1>7 DEF Next, Step

---------------------------------------------------------------------------
(* Setting up. *)

LEMMA NextInOrder ==
    ASSUME IInv, Next
    PROVE  LanesInOrder'
  <1>1. TypeOK /\ LanesInOrder
    BY DEF IInv
  <1>2. CASE AddWorktree
    <2>1. dirs' = Append(dirs, Len(dirs) + 1) /\ Len(dirs) < Lanes /\ Len(dirs) \in Nat
      BY <1>1, <1>2 DEF AddWorktree, TypeOK
    <2>2. /\ Len(dirs') = Len(dirs) + 1
          /\ \A i \in 1..Len(dirs) : dirs'[i] = dirs[i]
          /\ dirs'[Len(dirs) + 1] = Len(dirs) + 1
      BY <1>1, <2>1 DEF TypeOK
    <2> QED BY <1>1, <2>1, <2>2, LanesAssumption DEF LanesInOrder
  <1>3. CASE ~AddWorktree
    <2>1. UNCHANGED dirs
      BY <1>3
      DEF Next, Step, Preflight, OpenCheckpoint, MakeParent, AddFails, LanesReady, Bisect,
          GitRemoves, GitRefuses, DeleteDir, Prune, RemoveParent, Report, Cancel, Kill, Ended,
          vars, worktrees
    <2> QED BY <1>1, <2>1 DEF LanesInOrder
  <1> QED BY <1>2, <1>3

LEMMA NextNothingYet ==
    ASSUME IInv, Next
    PROVE  NothingYet' /\ OpenedLate'
  <1>1. TypeOK /\ LanesInOrder /\ NothingYet /\ OpenedLate
    BY DEF IInv
  <1>2. CASE Preflight \/ OpenCheckpoint
    BY <1>1, <1>2 DEF NothingYet, OpenedLate, Preflight, OpenCheckpoint, Fail, Finish, worktrees
  <1>3. CASE MakeParent
    <2>1. 1..Len(<< >>) = {}
      OBVIOUS
    <2> QED BY <1>1, <1>3, <2>1 DEF NothingYet, OpenedLate, MakeParent
  <1>4. CASE AddWorktree
    <2>1. /\ dirs' = Append(dirs, Len(dirs) + 1) /\ Len(dirs) \in Nat
          /\ disk' = disk \cup {Len(dirs) + 1} /\ entries' = entries \cup {Len(dirs) + 1}
          /\ pc = "add" /\ pc' = "add" /\ UNCHANGED <<todo, stuck>>
      BY <1>1, <1>4 DEF AddWorktree, TypeOK
    <2>2. 1..Len(dirs') = 1..Len(dirs) \cup {Len(dirs) + 1}
      BY <1>1, <2>1 DEF TypeOK
    <2> QED BY <1>1, <2>1, <2>2 DEF NothingYet, OpenedLate
  <1>5. CASE LanesReady
    BY <1>1, <1>5 DEF NothingYet, OpenedLate, LanesReady, worktrees
  <1>6. CASE AddFails \/ Bisect \/ GitRemoves \/ GitRefuses \/ DeleteDir \/ Prune \/ RemoveParent
             \/ Report \/ Kill
    <2>1. pc' \in {"remove", "rmdir", "prune", "report", "exited", "killed"}
      BY <1>6 DEF AddFails, Bisect, GitRemoves, GitRefuses, DeleteDir, Prune, RemoveParent,
                  Report, Kill, Removed
    <2> QED BY <2>1 DEF NothingYet, OpenedLate
  <1>7. CASE Cancel \/ Ended
    BY <1>1, <1>7 DEF NothingYet, OpenedLate, Cancel, Ended, vars, worktrees
  <1> QED BY <1>2, <1>3, <1>4, <1>5, <1>6, <1>7 DEF Next, Step

---------------------------------------------------------------------------
(* Cleaning up. *)

(* What is left of todo behind its head. *)
LEMMA TailOf ==
    ASSUME NEW s \in Seq(Lane), s # << >>
    PROVE  /\ Head(s) = s[1] /\ 1 \in 1..Len(s)
           /\ Len(Tail(s)) = Len(s) - 1 /\ Len(s) \in Nat
           /\ \A i \in 1..Len(Tail(s)) : i + 1 \in 1..Len(s) /\ Tail(s)[i] = s[i + 1]
           /\ \A j \in 2..Len(s) : j - 1 \in 1..Len(Tail(s)) /\ Tail(s)[j - 1] = s[j]
  OBVIOUS

LEMMA CleanUpBegins ==
    ASSUME IInv, AddFails \/ Bisect
    PROVE  Accounted' /\ KeptSpared'
  <1>1. TypeOK /\ LanesInOrder /\ NothingYet
    BY DEF IInv
  <1>2. pc' = "remove" /\ UNCHANGED <<keep, dirs>>
    BY DEF AddFails, Bisect
  <1>3. dirs \in Seq(Lane) /\ Len(dirs) \in Nat /\ \A i \in 1..Len(dirs) : dirs[i] = i
    BY <1>1 DEF TypeOK, LanesInOrder
  <1>4. CASE AddFails
    <2>1. /\ todo' = dirs /\ Len(dirs) # Lanes
          /\ \A l \in entries' : l \in entries \/ l \in stuck'
      BY <1>4, <1>1, LanesAssumption DEF AddFails, TypeOK
    <2>2. ~Keeps'
      BY <1>2, <2>1 DEF Keeps
    <2>3. entries = 1..Len(dirs)
      BY <1>1, <1>4 DEF NothingYet, AddFails
    <2> QED BY <1>2, <1>3, <2>1, <2>2, <2>3 DEF Accounted, KeptSpared
  <1>5. CASE Bisect
    <2>1. /\ todo' = ToRemove /\ UNCHANGED <<disk, entries, stuck>>
          /\ disk = 1..Lanes /\ entries = 1..Lanes /\ Len(dirs) = Lanes
      BY <1>1, <1>5 DEF NothingYet, Bisect
    <2>2. CASE keep
      <3>1. todo' = Tail(dirs) /\ Keeps' /\ dirs # << >>
        BY <1>2, <2>1, <2>2, LanesAssumption DEF ToRemove, Keeps
      <3>2. \A l \in entries' : l = 1 \/ \E i \in 1..Len(todo') : todo'[i] = l
        <4> SUFFICES ASSUME NEW l \in entries', l # 1
                     PROVE  \E i \in 1..Len(todo') : todo'[i] = l
          OBVIOUS
        <4>1. l \in 2..Len(dirs)
          BY <2>1, LanesAssumption
        <4>2. l - 1 \in 1..Len(todo') /\ todo'[l - 1] = dirs[l] /\ dirs[l] = l
          BY <1>3, <3>1, <4>1, TailOf
        <4> QED BY <4>2
      <3>3. \A i \in 1..Len(todo') : todo'[i] # 1
        <4> SUFFICES ASSUME NEW i \in 1..Len(todo') PROVE todo'[i] # 1
          OBVIOUS
        <4>1. i + 1 \in 1..Len(dirs) /\ todo'[i] = dirs[i + 1] /\ i >= 1
          BY <1>3, <3>1, TailOf
        <4> QED BY <1>3, <4>1
      <3>4. 1 \in disk' /\ 1 \in entries'
        BY <2>1, LanesAssumption
      <3> QED BY <1>2, <3>1, <3>2, <3>3, <3>4 DEF Accounted, KeptSpared
    <2>3. CASE ~keep
      <3>1. todo' = dirs /\ ~Keeps'
        BY <1>2, <2>1, <2>3 DEF ToRemove, Keeps
      <3> QED BY <1>2, <1>3, <2>1, <3>1 DEF Accounted, KeptSpared
    <2> QED BY <2>2, <2>3
  <1> QED BY <1>4, <1>5

LEMMA CleanUpGoesOn ==
    ASSUME IInv, GitRemoves \/ GitRefuses \/ DeleteDir \/ Prune
    PROVE  Accounted' /\ KeptSpared'
  <1>1. TypeOK /\ Accounted /\ KeptSpared
    BY DEF IInv
  <1>2. /\ pc \in {"remove", "rmdir", "prune"} /\ pc' \in {"remove", "rmdir", "prune"}
        /\ todo # << >> /\ UNCHANGED <<keep, dirs>>
    BY <1>1 DEF GitRemoves, GitRefuses, DeleteDir, Prune, Removed, Accounted
  <1>3. Keeps' <=> Keeps
    BY <1>2 DEF Keeps
  <1>4. /\ \A l \in entries : \/ l \in stuck
                              \/ Keeps /\ l = 1
                              \/ \E i \in 1..Len(todo) : todo[i] = l
        /\ Keeps => 1 \in disk /\ 1 \in entries /\ \A i \in 1..Len(todo) : todo[i] # 1
    BY <1>1, <1>2 DEF Accounted, KeptSpared
  <1>5. /\ todo \in Seq(Lane) /\ Head(todo) = todo[1] /\ 1 \in 1..Len(todo)
        /\ Len(Tail(todo)) = Len(todo) - 1 /\ Len(todo) \in Nat
        /\ \A i \in 1..Len(Tail(todo)) : i + 1 \in 1..Len(todo) /\ Tail(todo)[i] = todo[i + 1]
        /\ \A j \in 2..Len(todo) : j - 1 \in 1..Len(Tail(todo)) /\ Tail(todo)[j - 1] = todo[j]
    BY <1>1, <1>2, TailOf DEF TypeOK
  <1>6. /\ Keeps => Head(todo) # 1
        /\ Keeps => \A i \in 1..Len(Tail(todo)) : Tail(todo)[i] # 1
    BY <1>4, <1>5
  <1>7. \A l \in entries : \/ l \in stuck
                           \/ Keeps /\ l = 1
                           \/ l = Head(todo)
                           \/ \E i \in 1..Len(Tail(todo)) : Tail(todo)[i] = l
    <2> SUFFICES ASSUME NEW l \in entries, NEW j \in 1..Len(todo), todo[j] = l, j # 1
                 PROVE  \E i \in 1..Len(Tail(todo)) : Tail(todo)[i] = l
      BY <1>4, <1>5
    <2>1. j \in 2..Len(todo)
      BY <1>5
    <2> QED BY <1>5, <2>1
  <1>8. CASE GitRemoves
    <2>1. /\ todo' = Tail(todo) /\ pc' = "remove" /\ UNCHANGED stuck
          /\ disk' = disk \ {Head(todo)} /\ entries' = entries \ {Head(todo)}
      BY <1>8 DEF GitRemoves, Removed
    <2>2. \A l \in entries' : \/ l \in stuck'
                              \/ Keeps' /\ l = 1
                              \/ \E i \in 1..Len(todo') : todo'[i] = l
      BY <1>3, <1>7, <2>1
    <2>3. Keeps' => 1 \in disk' /\ 1 \in entries' /\ \A i \in 1..Len(todo') : todo'[i] # 1
      BY <1>3, <1>4, <1>6, <2>1
    <2> QED BY <2>1, <2>2, <2>3 DEF Accounted, KeptSpared
  <1>9. CASE GitRefuses
    <2>1. /\ UNCHANGED <<todo, stuck, entries>> /\ pc' = "rmdir"
          /\ disk' \in {disk, disk \ {Head(todo)}}
      BY <1>9 DEF GitRefuses
    <2> QED BY <1>2, <1>3, <1>4, <1>6, <2>1 DEF Accounted, KeptSpared
  <1>10. CASE DeleteDir
    <2>1. /\ UNCHANGED <<todo, entries>> /\ pc' = "prune"
          /\ stuck \subseteq stuck' /\ disk \ {Head(todo)} \subseteq disk'
          /\ Head(todo) \in stuck' \/ Head(todo) \notin disk'
      BY <1>10 DEF DeleteDir
    <2> QED BY <1>2, <1>3, <1>4, <1>6, <2>1 DEF Accounted, KeptSpared
  <1>11. CASE Prune
    <2>1. /\ UNCHANGED disk /\ todo' = Tail(todo) /\ pc' = "remove" /\ stuck \subseteq stuck'
          /\ \/ entries' = entries \cap disk
             \/ entries' = entries /\ Head(todo) \in stuck'
      BY <1>11 DEF Prune, Removed
    <2>2. Head(todo) \in entries' => Head(todo) \in stuck'
      BY <1>1, <1>11, <2>1 DEF Accounted, Prune
    <2>3. \A l \in entries' : \/ l \in stuck'
                              \/ Keeps' /\ l = 1
                              \/ \E i \in 1..Len(todo') : todo'[i] = l
      BY <1>3, <1>7, <2>1, <2>2
    <2>4. Keeps' => 1 \in disk' /\ 1 \in entries' /\ \A i \in 1..Len(todo') : todo'[i] # 1
      BY <1>3, <1>4, <1>6, <2>1
    <2> QED BY <2>1, <2>3, <2>4 DEF Accounted, KeptSpared
  <1> QED BY <1>8, <1>9, <1>10, <1>11

LEMMA NextAccounted ==
    ASSUME IInv, Next
    PROVE  Accounted' /\ KeptSpared'
  <1>1. TypeOK /\ NothingYet /\ Accounted /\ KeptSpared
    BY DEF IInv
  <1>2. CASE Preflight \/ OpenCheckpoint \/ MakeParent
    <2>1. CASE pc' = "report"
      <3>1. dirs' = << >> /\ disk' = {} /\ entries' = {} /\ todo' = << >>
        BY <1>1, <1>2, <2>1 DEF NothingYet, Preflight, OpenCheckpoint, MakeParent, worktrees
      <3>2. ~Keeps'
        BY <3>1, LanesAssumption DEF Keeps
      <3> QED BY <2>1, <3>1, <3>2 DEF Accounted, KeptSpared
    <2>2. CASE pc' \in {"store", "mkdir", "add"}
      BY <2>2 DEF Accounted, KeptSpared
    <2> QED BY <1>2, <2>1, <2>2 DEF Preflight, OpenCheckpoint, MakeParent
  <1>3. CASE AddWorktree \/ LanesReady \/ Kill
    <2>1. pc' \in {"add", "bisect", "killed"}
      BY <1>3 DEF AddWorktree, LanesReady, Kill
    <2> QED BY <2>1 DEF Accounted, KeptSpared
  <1>4. CASE AddFails \/ Bisect
    BY <1>4, CleanUpBegins
  <1>5. CASE GitRemoves \/ GitRefuses \/ DeleteDir \/ Prune
    BY <1>5, CleanUpGoesOn
  <1>6. CASE RemoveParent
    <2>1. /\ pc = "remove" /\ pc' = "report" /\ todo = << >>
          /\ UNCHANGED <<keep, dirs, todo, entries>>
          /\ \/ Keeps /\ UNCHANGED <<disk, stuck>>
             \/ ~Keeps /\ stuck \subseteq stuck' /\ disk' \subseteq stuck'
      BY <1>6 DEF RemoveParent
    <2>2. Keeps' <=> Keeps
      BY <2>1 DEF Keeps
    <2> QED BY <1>1, <2>1, <2>2 DEF Accounted, KeptSpared
  <1>7. CASE Report \/ Cancel \/ Ended
    <2>1. /\ UNCHANGED <<keep, dirs, disk, entries, todo, stuck>>
          /\ pc' = pc \/ (pc = "report" /\ pc' = "exited")
      BY <1>7 DEF Report, Cancel, Ended, vars, worktrees
    <2>2. Keeps' <=> Keeps
      BY <2>1 DEF Keeps
    <2> QED BY <1>1, <2>1, <2>2 DEF Accounted, KeptSpared
  <1> QED BY <1>2, <1>3, <1>4, <1>5, <1>6, <1>7 DEF Next, Step

---------------------------------------------------------------------------
(* The invariant. *)

LEMMA NextIInv == IInv /\ [Next]_vars => IInv'
  <1>1. ASSUME IInv, Next PROVE IInv'
    BY <1>1, NextTypeOK, NextInOrder, NextNothingYet, NextAccounted DEF IInv
  <1>2. ASSUME IInv, UNCHANGED vars PROVE IInv'
    BY <1>2 DEF vars, worktrees, IInv, TypeOK, LanesInOrder, NothingYet, Accounted, KeptSpared,
                OpenedLate, Keeps
  <1> QED BY <1>1, <1>2

(* The parts of the invariant hold in every state of every run. *)
THEOREM Invariance == Spec => []IInv
  <1>1. Init => IInv
    BY InitIInv
  <1>2. IInv /\ [Next]_vars => IInv'
    BY NextIInv
  <1> QED BY <1>1, <1>2, PTL DEF Spec

(* Every variable keeps to its type, for every number of lanes. *)
THEOREM TypeCorrect == Spec => []TypeOK
  <1>1. IInv => TypeOK
    BY DEF IInv
  <1> QED BY <1>1, Invariance, PTL

(* However the process comes to its own end, no directory and no entry of  *)
(* any lane is left but those nothing could remove.                        *)
THEOREM CleanUpCorrect == Spec => []CleanedUp
  <1>1. IInv => CleanedUp
    <2> SUFFICES ASSUME IInv, pc = "exited", ~Keeps
                 PROVE  disk \cup entries \subseteq stuck
      BY DEF CleanedUp
    <2>1. todo = << >> /\ disk \subseteq stuck
      BY DEF IInv, Accounted
    <2>2. 1..Len(todo) = {}
      BY <2>1
    <2>3. entries \subseteq stuck
      BY <2>2 DEF IInv, Accounted
    <2> QED BY <2>1, <2>3
  <1> QED BY <1>1, Invariance, PTL

(* The worktree the user wants kept is there afterwards, and git knows it. *)
THEOREM KeptCorrect == Spec => []KeptWorktreeUsable
  <1>1. IInv => KeptWorktreeUsable
    BY DEF IInv, KeptSpared, KeptWorktreeUsable
  <1> QED BY <1>1, Invariance, PTL

(* No step but one that has the outcome removes this run's checkpoint.     *)
THEOREM CheckpointCorrect == Spec => CheckpointKept
  <1>1. ASSUME IInv, [Next]_vars
        PROVE  [checkpoint = "opened" /\ checkpoint' # "opened" => result' = "outcome"]_vars
    <2> SUFFICES ASSUME Next, checkpoint = "opened", checkpoint' # "opened"
                 PROVE  result' = "outcome"
      BY <1>1
    <2>1. pc \notin {"preflight", "store"}
      BY <1>1 DEF IInv, OpenedLate
    <2> QED BY <2>1
      DEF Next, Step, Preflight, OpenCheckpoint, MakeParent, AddWorktree, AddFails, LanesReady,
          Bisect, GitRemoves, GitRefuses, DeleteDir, Prune, RemoveParent, Report, Cancel, Kill,
          Ended, vars, Fail, Finish
  <1> QED BY <1>1, Invariance, PTL DEF Spec, CheckpointKept
=============================================================================
