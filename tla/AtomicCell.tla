----------------------------- MODULE AtomicCell -----------------------------
(***************************************************************************)
(* What write_file_atomic (paths.hpp) promises its callers: the file is a  *)
(* cell that holds one whole value.  A write either throws and leaves the  *)
(* cell alone, or replaces the value in one step (it "lands") and then     *)
(* returns, with or without the warning that the directory could not be    *)
(* synced.  A kill forgets the writer, never half of the value.  A power   *)
(* cut may undo landed writes, but none that returned without a warning.   *)
(***************************************************************************)
CONSTANTS
    Writers,     \* processes that call write_file_atomic on this path
    Values,      \* whole file contents
    NoValue      \* the path does not exist, or a writer is writing nothing

VARIABLES
    val,         \* what a reader of the path gets now
    stable,      \* the values a power cut may leave at the path
    writing,     \* [Writers -> value being written, or NoValue]
    outcome      \* [Writers -> how the writer's last call stands]

cellVars == <<val, stable, writing, outcome>>

Outcomes == {"none", "landed", "ok", "warned", "threw", "killed"}

CellTypeOK ==
    /\ val \in Values \cup {NoValue}
    /\ stable \subseteq Values \cup {NoValue}
    /\ writing \in [Writers -> Values \cup {NoValue}]
    /\ outcome \in [Writers -> Outcomes]

CellInit ==
    /\ val \in Values \cup {NoValue}
    /\ stable = {val}
    /\ writing = [w \in Writers |-> NoValue]
    /\ outcome = [w \in Writers |-> "none"]

Start(w, c) ==
    /\ writing[w] = NoValue
    /\ writing' = [writing EXCEPT ![w] = c]
    /\ outcome' = [outcome EXCEPT ![w] = "none"]
    /\ UNCHANGED <<val, stable>>

Land(w) ==
    /\ writing[w] # NoValue
    /\ outcome[w] = "none"
    /\ val' = writing[w]
    /\ stable' = stable \cup {writing[w]}
    /\ outcome' = [outcome EXCEPT ![w] = "landed"]
    /\ UNCHANGED writing

\* Mutant: the directory is never synced.
ReturnUnsynced(w) ==
    /\ outcome[w] = "landed"
    /\ writing' = [writing EXCEPT ![w] = NoValue]
    /\ outcome' = [outcome EXCEPT ![w] = "ok"]
    /\ UNCHANGED <<val, stable>>

\* Success: a synced directory leaves one value for a power cut to find.
Return(w) ==
    /\ outcome[w] = "landed"
    /\ writing' = [writing EXCEPT ![w] = NoValue]
    /\ \/ outcome' = [outcome EXCEPT ![w] = "ok"] /\ stable' = {val}
       \/ outcome' = [outcome EXCEPT ![w] = "warned"] /\ UNCHANGED stable
    /\ UNCHANGED val

Throw(w) ==
    /\ writing[w] # NoValue
    /\ outcome[w] = "none"
    /\ writing' = [writing EXCEPT ![w] = NoValue]
    /\ outcome' = [outcome EXCEPT ![w] = "threw"]
    /\ UNCHANGED <<val, stable>>

CellKill(w) ==
    /\ writing[w] # NoValue
    /\ writing' = [writing EXCEPT ![w] = NoValue]
    /\ outcome' = [outcome EXCEPT ![w] = "killed"]
    /\ UNCHANGED <<val, stable>>

CellPowerCut ==
    /\ val' \in stable
    /\ stable' = {val'}
    /\ writing' = [w \in Writers |-> NoValue]
    /\ outcome' = [w \in Writers |->
                     IF writing[w] = NoValue THEN outcome[w] ELSE "killed"]

CellNext ==
    \/ \E w \in Writers, c \in Values : Start(w, c)
    \/ \E w \in Writers : Land(w) \/ Return(w) \/ Throw(w) \/ CellKill(w)
    \/ CellPowerCut

CellSpec == CellInit /\ [][CellNext]_cellVars
=============================================================================
