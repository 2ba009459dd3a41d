------------------------------ MODULE Session -------------------------------
(***************************************************************************)
(* One process of depbisect, from engine.Run's first look at the           *)
(* repository to the command line's report: which worktrees, directories   *)
(* and checkpoint it creates and removes, in which order, and what each    *)
(* way to end leaves behind.  The bisection between set-up and clean-up    *)
(* is one action here (Executor has its steps), and so is the reading of   *)
(* revisions and manifests, which leaves nothing.                          *)
(*                                                                         *)
(* git is modelled by what its worktree commands do to the directories     *)
(* below the run's temporary directory and to the administrative entries   *)
(* in the repository.                                                      *)
(***************************************************************************)
EXTENDS Integers, Sequences, SequencesExt

CONSTANT Lanes      \* number of worktrees the run sets up

ASSUME LanesAssumption == Lanes \in Nat \ {0}

VARIABLES
    keep,           \* --keep-worktrees
    pc,             \* where the process is
    ctx,            \* the signal context: "live" or "canceled"
    parent,         \* the temporary directory exists
    dirs,           \* the worktrees created so far, in order
    disk,           \* lanes whose directory exists
    entries,        \* lanes with an administrative entry in the repository
    todo,           \* the worktrees clean-up has yet to remove
    checkpoint,     \* the checkpoint file: "none", "kept" of an earlier run, in use
                    \* by this one ("opened"), or "removed" by it
    result,         \* what engine.Run will return: "none", "error" or "outcome"
    reported,       \* the command line has shown it
    stuck           \* history: lanes whose entry or directory nothing could remove

worktrees == <<parent, dirs, disk, entries, todo, stuck>>
vars == <<keep, pc, ctx, checkpoint, result, reported, worktrees>>

Lane == 1..Lanes

TypeOK ==
    /\ keep \in BOOLEAN
    /\ pc \in {"preflight", "store", "mkdir", "add", "bisect", "remove", "rmdir", "prune",
               "parent", "report", "exited", "killed"}
    /\ ctx \in {"live", "canceled"}
    /\ parent \in BOOLEAN
    /\ dirs \in Seq(Lane) /\ todo \in Seq(Lane)
    /\ disk \subseteq Lane /\ entries \subseteq Lane /\ stuck \subseteq Lane
    /\ checkpoint \in {"none", "kept", "opened", "removed"}
    /\ result \in {"none", "error", "outcome"}
    /\ reported \in BOOLEAN

(* An earlier run may have left its checkpoint. *)
Init ==
    /\ keep \in BOOLEAN
    /\ pc = "preflight"
    /\ ctx = "live"
    /\ parent = FALSE
    /\ dirs = << >>
    /\ disk = {}
    /\ entries = {}
    /\ todo = << >>
    /\ checkpoint \in {"none", "kept"}
    /\ result = "none"
    /\ reported = FALSE
    /\ stuck = {}

---------------------------------------------------------------------------
(* Mutant: a failed run takes its checkpoint along. *)
FailClearing ==
    /\ result' = "error"
    /\ checkpoint' = IF checkpoint = "opened" THEN "removed" ELSE checkpoint

(* engine.fail leaves the checkpoint to a later run. *)
Fail ==
    /\ result' = "error"
    /\ UNCHANGED checkpoint

(* engine.finish removes the checkpoint this run has opened, or fails to.  *)
Finish ==
    /\ result' = "outcome"
    /\ \/ checkpoint' = IF checkpoint = "opened" THEN "removed" ELSE checkpoint
       \/ UNCHANGED checkpoint

(* Revisions are resolved, the manager detected, manifests read and        *)
(* compared: an error, nothing to bisect (or a dry run), or on to work.    *)
Preflight ==
    /\ pc = "preflight"
    /\ \/ Fail /\ pc' = "report"
       \/ ctx = "live" /\ Finish /\ pc' = "report"
       \/ ctx = "live" /\ pc' = "store" /\ UNCHANGED <<result, checkpoint>>
    /\ UNCHANGED <<keep, ctx, reported, worktrees>>

(* Load and validation of the checkpoint to resume from, or a new one;     *)
(* neither when checkpointing is off.  If Start fails the file may exist.   *)
OpenCheckpoint ==
    /\ pc = "store"
    /\ \/ /\ pc' = "mkdir"
          /\ checkpoint' \in {"opened", checkpoint}
          /\ UNCHANGED result
       \/ /\ pc' = "report"
          /\ result' = "error"
          /\ checkpoint' \in {"kept", checkpoint}
    /\ UNCHANGED <<keep, ctx, reported, worktrees>>

MakeParent ==
    /\ pc = "mkdir"
    /\ \/ pc' = "add" /\ parent' = TRUE /\ UNCHANGED <<result, checkpoint>>
       \/ pc' = "report" /\ Fail /\ UNCHANGED parent
    /\ UNCHANGED <<keep, ctx, reported, dirs, disk, entries, todo, stuck>>

(* Mutant: "i <= laneCount". *)
AddWorktreeOneMore ==
    /\ pc = "add"
    /\ ctx = "live"
    /\ Len(dirs) <= Lanes
    /\ LET l == Len(dirs) + 1 IN
       /\ dirs' = Append(dirs, l)
       /\ disk' = disk \cup {l}
       /\ entries' = entries \cup {l}
    /\ UNCHANGED <<keep, pc, ctx, parent, todo, checkpoint, result, reported, stuck>>

(* git worktree add of the next lane; exec.CommandContext starts no        *)
(* command under a context that is canceled.                               *)
AddWorktree ==
    /\ pc = "add"
    /\ ctx = "live"
    /\ Len(dirs) < Lanes
    /\ LET l == Len(dirs) + 1 IN
       /\ dirs' = Append(dirs, l)
       /\ disk' = disk \cup {l}
       /\ entries' = entries \cup {l}
    /\ UNCHANGED <<keep, pc, ctx, parent, todo, checkpoint, result, reported, stuck>>

(* It fails or is cut off, and may leave its directory and its entry.  The *)
(* worktrees before it are removed, and the temporary directory with them. *)
AddFails ==
    /\ pc = "add"
    /\ Len(dirs) < Lanes
    /\ LET l == Len(dirs) + 1 IN
       \E left \in {{}, {"dir"}, {"entry"}, {"dir", "entry"}} :
          /\ disk' = IF "dir" \in left THEN disk \cup {l} ELSE disk
          /\ entries' = IF "entry" \in left THEN entries \cup {l} ELSE entries
          /\ stuck' = IF "entry" \in left THEN stuck \cup {l} ELSE stuck
    /\ todo' = dirs
    /\ pc' = "remove"
    /\ Fail
    /\ UNCHANGED <<keep, ctx, parent, dirs, reported>>

LanesReady ==
    /\ pc = "add"
    /\ Len(dirs) = Lanes
    /\ pc' = "bisect"
    /\ UNCHANGED <<keep, ctx, checkpoint, result, reported, worktrees>>

(* Mutant: clean-up forgets that the first worktree is to be kept. *)
ToRemoveAll == dirs

(* What the deferred clean-up removes. *)
ToRemove == IF keep THEN Tail(dirs) ELSE dirs

(* Baselines, bisection, minimality check; the deferred clean-up follows.  *)
(* A cancellation that no trial meets any more is one after this step.     *)
Bisect ==
    /\ pc = "bisect"
    /\ \/ Fail
       \/ ctx = "live" /\ Finish
    /\ todo' = ToRemove
    /\ pc' = "remove"
    /\ UNCHANGED <<keep, ctx, reported, parent, dirs, disk, entries, stuck>>

---------------------------------------------------------------------------
(* removeWorktree, in a context of its own: git removes the worktree, or   *)
(* the directory is deleted and the entry pruned.                          *)

Removed ==
    /\ todo' = Tail(todo)
    /\ pc' = "remove"

GitRemoves ==
    /\ pc = "remove"
    /\ todo # << >>
    /\ disk' = disk \ {Head(todo)}
    /\ entries' = entries \ {Head(todo)}
    /\ Removed
    /\ UNCHANGED <<keep, ctx, parent, dirs, checkpoint, result, reported, stuck>>

(* Mutant: its refusal is ignored. *)
GitRefusesIgnored ==
    /\ pc = "remove"
    /\ todo # << >>
    /\ Removed
    /\ UNCHANGED <<keep, ctx, parent, dirs, disk, entries, checkpoint, result, reported, stuck>>

GitRefuses ==
    /\ pc = "remove"
    /\ todo # << >>
    /\ disk' \in {disk, disk \ {Head(todo)}}
    /\ pc' = "rmdir"
    /\ UNCHANGED <<keep, ctx, parent, dirs, entries, todo, checkpoint, result, reported, stuck>>

DeleteDir ==
    /\ pc = "rmdir"
    /\ \/ disk' = disk \ {Head(todo)} /\ UNCHANGED stuck
       \/ UNCHANGED disk /\ stuck' = stuck \cup {Head(todo)}
    /\ pc' = "prune"
    /\ UNCHANGED <<keep, ctx, parent, dirs, entries, todo, checkpoint, result, reported>>

(* git worktree prune drops each entry whose directory is gone. *)
Prune ==
    /\ pc = "prune"
    /\ \/ entries' = entries \cap disk /\ UNCHANGED stuck
       \/ UNCHANGED entries /\ stuck' = stuck \cup {Head(todo)}
    /\ Removed
    /\ UNCHANGED <<keep, ctx, parent, dirs, disk, checkpoint, result, reported>>

(* The first worktree outlives the run: the bisection was reached.         *)
Keeps == keep /\ Len(dirs) = Lanes

(* At last the temporary directory with all that is left in it; not when a *)
(* worktree in it is kept, which an error before the bisection overrules.  *)
RemoveParent ==
    /\ pc = "remove"
    /\ todo = << >>
    /\ pc' = "report"
    /\ IF Keeps
       THEN UNCHANGED <<parent, disk, stuck>>
       ELSE \/ parent' = FALSE /\ disk' = {} /\ UNCHANGED stuck
            \/ UNCHANGED <<parent, disk>> /\ stuck' = stuck \cup disk
    /\ UNCHANGED <<keep, ctx, dirs, entries, todo, checkpoint, result, reported>>

(* The command line writes the reports and the summary, or the error. *)
Report ==
    /\ pc = "report"
    /\ pc' = "exited"
    /\ reported' = TRUE
    /\ UNCHANGED <<keep, ctx, checkpoint, result, worktrees>>

---------------------------------------------------------------------------
Alive == pc \notin {"exited", "killed"}

(* The first Ctrl-C.  The overall timeout needs no action here: it is an   *)
(* error of the step it hits.                                              *)
Cancel ==
    /\ Alive
    /\ ctx = "live"
    /\ ctx' = "canceled"
    /\ UNCHANGED <<keep, pc, checkpoint, result, reported, worktrees>>

(* A second Ctrl-C ends the process at once. *)
Kill ==
    /\ Alive
    /\ ctx = "canceled"
    /\ pc' = "killed"
    /\ UNCHANGED <<keep, ctx, checkpoint, result, reported, worktrees>>

Step ==
    \/ Preflight \/ OpenCheckpoint \/ MakeParent
    \/ AddWorktree \/ AddFails \/ LanesReady \/ Bisect
    \/ GitRemoves \/ GitRefuses \/ DeleteDir \/ Prune \/ RemoveParent
    \/ Report

Ended == ~Alive /\ UNCHANGED vars

Next == Step \/ Cancel \/ Kill \/ Ended

Spec == Init /\ [][Next]_vars

---------------------------------------------------------------------------
(* "The worktree is removed and pruned afterward, even on Ctrl-C"          *)
(* (README.md:216): whichever way the process comes to its own end, no     *)
(* directory and no entry is left but those that both ways of removal      *)
(* failed for, and the entry of a worktree git did not finish adding.      *)
CleanedUp ==
    pc = "exited" /\ ~Keeps => disk \cup entries \subseteq stuck

(* With --keep-worktrees the first worktree is there afterwards, and git   *)
(* still knows it: removing and pruning the other lanes spares it.         *)
KeptWorktreeUsable ==
    pc = "exited" /\ Keeps => 1 \in disk /\ 1 \in entries

(* The checkpoint is removed by a run that has its outcome, and by no      *)
(* other: an interrupted or failed one leaves it to --resume.              *)
CheckpointKept ==
    [][checkpoint = "opened" /\ checkpoint' # "opened" => result' = "outcome"]_vars

(* The checkpoint is "removed after a successful run and kept after an     *)
(* interruption" (README.md:293): a run the user ends with a second Ctrl-C *)
(* has either shown its result or left what --resume needs to reach it.    *)
ResultOrCheckpoint ==
    pc = "killed" => reported \/ checkpoint # "removed"
=============================================================================
