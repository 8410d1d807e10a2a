---------------------------- MODULE ConfManProofs ----------------------------
(***************************************************************************)
(* A configuration with one saver: the file can always be loaded and holds *)
(* the last value saved, whenever the program is killed.                   *)
(***************************************************************************)
EXTENDS ConfMan, TLAPS

(* A blank file is empty: what is written to it leaves nothing behind.     *)
BlankIsEmpty == \A i \in Inodes : data[i].reads = Blank => data[i].len = 0

(* The temporary file is never the configuration.                          *)
TmpApart == dir["tmp"] # NoInode => dir["tmp"] # dir["config"]

(* Only a running program saves, and once it runs it has a configuration.  *)
SaveWhileRunning ==
  /\ \A s \in Savers : step[s] # "idle" => phase = "running"
  /\ phase # "down" => dir["config"] # NoInode
  /\ phase = "blank" => Stored = Blank

(* From open to rename the temporary file is the one the saver has open.   *)
SaverOwnsTmp ==
  \A s \in Savers : step[s] \in {"opened", "serialized", "written"} =>
    /\ dir["tmp"] # NoInode
    /\ handle[s] = dir["tmp"]
    /\ step[s] # "written" => data[dir["tmp"]].reads = Blank
    /\ step[s] = "written" => data[dir["tmp"]].reads = text[s]

(* What is serialized is what is in memory, but for from_json.             *)
TextIsMemory ==
  \A s \in Savers :
    phase = "running" /\ step[s] \in {"serialized", "written"} /\ ~unsaved
      => text[s] = memory

IInv == /\ TypeOK /\ BlankIsEmpty /\ TmpApart /\ SaveWhileRunning
        /\ SaverOwnsTmp /\ TextIsMemory
        /\ Loadable /\ KeepsLastSave /\ SettledIsSaved

(* There is one saver, or none.                                            *)
OneSaver == \A s, t \in Savers : s = t

-----------------------------------------------------------------------------
(* What write_all leaves in a file: never nothing, and the value alone     *)
(* when the file was empty.                                                *)
LEMMA OverwriteFacts ==
  ASSUME NEW c \in Contents, NEW v \in Values
  PROVE  /\ Overwrite(c, v) \in Contents
         /\ Overwrite(c, v).reads # Blank
         /\ c.len = 0 => Overwrite(c, v).reads = v
<1>1. Size[v] \in Nat \ {0}
  BY ValuesAssumption
<1>2. CASE Size[v] >= c.len
  BY <1>1, <1>2, ContentAssumption DEF Overwrite, Contents
<1>3. CASE ~(Size[v] >= c.len)
  <2>1. c.len \in Nat
    BY DEF Contents
  <2>2. c.len # 0
    BY <1>1, <1>3, <2>1
  <2> QED
    BY <1>3, <2>1, <2>2, ContentAssumption DEF Overwrite, Contents
<1> QED
  BY <1>2, <1>3

(* The empty file reads as nothing.                                        *)
LEMMA EmptyFacts == Empty \in Contents /\ Empty.reads = Blank /\ Empty.len = 0
BY DEF Empty, Contents

-----------------------------------------------------------------------------
(* Types.                                                                  *)

(* The types hold before the program starts.                               *)
LEMMA TypeInit == Init => TypeOK
<1> SUFFICES ASSUME Init PROVE TypeOK
  OBVIOUS
<1>1. dir \in [Paths -> Inodes \union {NoInode}] /\ data \in [Inodes -> Contents] /\ acked \in Values
  <2>1. CASE dir = [p \in Paths |-> NoInode] /\ data = [i \in Inodes |-> Empty] /\ acked = Default
    BY <2>1, EmptyFacts, ValuesAssumption
  <2>2. ASSUME NEW i \in Inodes, NEW v \in Values,
               dir  = [p \in Paths |-> IF p = "config" THEN i ELSE NoInode],
               data = [j \in Inodes |-> IF j = i THEN [reads |-> v, len |-> Size[v]] ELSE Empty],
               acked = v
        PROVE  dir \in [Paths -> Inodes \union {NoInode}] /\ data \in [Inodes -> Contents] /\ acked \in Values
    <3>1. [reads |-> v, len |-> Size[v]] \in Contents
      BY ValuesAssumption DEF Contents
    <3> QED
      BY <2>2, <3>1, EmptyFacts
  <2> QED
    BY <2>1, <2>2 DEF Init
<1> QED
  BY <1>1, ValuesAssumption DEF Init, TypeOK, Steps

(* One step per action.                                                    *)
LEMMA TypeStep == TypeOK /\ [Next]_vars => TypeOK'
<1> SUFFICES ASSUME TypeOK, [Next]_vars PROVE TypeOK'
  OBVIOUS
<1> USE DEF TypeOK
<1>1. CASE Start
  BY <1>1, EmptyFacts DEF Start, files, savers, Unused, Paths
<1>2. CASE Load
  BY <1>2 DEF Load, files, savers
<1>3. CASE WriteDefault
  <2>1. dir["config"] \in Inodes => Overwrite(data[dir["config"]], Default) \in Contents
    BY OverwriteFacts, ValuesAssumption
  <2> QED
    BY <1>3, <2>1, ValuesAssumption DEF WriteDefault, savers
<1>4. CASE Crash
  BY <1>4 DEF Crash, files, Steps
<1>5. ASSUME NEW v \in Values, FromJson(v) PROVE TypeOK'
  BY <1>5 DEF FromJson, files, savers
<1>6. ASSUME NEW s \in Savers, NEW v \in Values, Set(s, v) PROVE TypeOK'
  BY <1>6 DEF Set, files, Steps
<1>7. ASSUME NEW s \in Savers, Open(s) PROVE TypeOK'
  BY <1>7, EmptyFacts DEF Open, Unused, Steps, Paths
<1>8. ASSUME NEW s \in Savers, Serialize(s) PROVE TypeOK'
  BY <1>8 DEF Serialize, files, Steps
<1>9. ASSUME NEW s \in Savers, WriteAll(s) PROVE TypeOK'
  <2>1. handle[s] \in Inodes => Overwrite(data[handle[s]], text[s]) \in Contents
    BY OverwriteFacts
  <2> QED
    BY <1>9, <2>1 DEF WriteAll, Steps
<1>10. ASSUME NEW s \in Savers, Rename(s) PROVE TypeOK'
  BY <1>10 DEF Rename, Steps, Paths
<1>11. CASE UNCHANGED vars
  BY <1>11 DEF vars
<1> QED
  BY <1>1, <1>2, <1>3, <1>4, <1>5, <1>6, <1>7, <1>8, <1>9, <1>10, <1>11 DEF Next, Save

(* Every variable keeps its type, with any number of savers.               *)
THEOREM TypeCorrect == Spec => []TypeOK
BY TypeInit, TypeStep, PTL DEF Spec

-----------------------------------------------------------------------------
(* One saver.                                                              *)

(* With one saver, the invariant holds before the program starts.          *)
LEMMA InvInit == Init => IInv
<1> SUFFICES ASSUME Init PROVE IInv
  OBVIOUS
<1>1. TypeOK
  BY TypeInit
<1>2. BlankIsEmpty /\ TmpApart /\ Loadable /\ KeepsLastSave
  <2>1. CASE dir = [p \in Paths |-> NoInode] /\ data = [i \in Inodes |-> Empty]
    BY <2>1, EmptyFacts DEF Init, BlankIsEmpty, TmpApart, Loadable, KeepsLastSave, Paths
  <2>2. ASSUME NEW i \in Inodes, NEW v \in Values,
               dir  = [p \in Paths |-> IF p = "config" THEN i ELSE NoInode],
               data = [j \in Inodes |-> IF j = i THEN [reads |-> v, len |-> Size[v]] ELSE Empty],
               acked = v
        PROVE  BlankIsEmpty /\ TmpApart /\ Loadable /\ KeepsLastSave
    <3>1. dir["config"] = i /\ dir["tmp"] = NoInode /\ data[i].reads = v
      BY <2>2 DEF Paths
    <3>2. BlankIsEmpty
      BY <2>2, EmptyFacts, ContentAssumption DEF BlankIsEmpty
    <3> QED
      BY <2>2, <3>1, <3>2, ContentAssumption
         DEF Init, TmpApart, Loadable, KeepsLastSave, Stored
  <2> QED
    BY <2>1, <2>2 DEF Init
<1>3. SaveWhileRunning /\ SaverOwnsTmp /\ TextIsMemory /\ SettledIsSaved
  BY DEF Init, SaveWhileRunning, SaverOwnsTmp, TextIsMemory, SettledIsSaved
<1> QED
  BY <1>1, <1>2, <1>3 DEF IInv

(* One step per action.                                                    *)
LEMMA InvStep ==
  ASSUME OneSaver, IInv, [Next]_vars
  PROVE  IInv'
<1>1. TypeOK'
  BY TypeStep DEF IInv
<1> USE DEF IInv, TypeOK, Stored
<1>2. CASE Start
  <2>1. CASE dir["config"] # NoInode
    BY <1>1, <1>2, <2>1 DEF Start, files, savers, BlankIsEmpty, TmpApart, SaveWhileRunning,
                       SaverOwnsTmp, TextIsMemory, Loadable, KeepsLastSave, SettledIsSaved
  <2>2. ASSUME NEW i \in Unused, dir["config"] = NoInode,
               dir' = [dir EXCEPT !["config"] = i], data' = [data EXCEPT ![i] = Empty]
        PROVE  IInv'
    <3>1. /\ i \in Inodes /\ i # NoInode /\ i # dir["tmp"]
          /\ phase = "down" /\ \A s \in Savers : step[s] = "idle"
      BY <1>2, <2>2, InodesAssumption DEF Start, Unused, Paths, SaveWhileRunning
    <3>2. /\ dir'["config"] = i /\ dir'["tmp"] = dir["tmp"]
          /\ data'[i] = Empty /\ \A j \in Inodes \ {i} : data'[j] = data[j]
          /\ phase' = "opened" /\ step' = step
      BY <1>2, <2>2, <3>1 DEF Start, savers, Paths
    <3> QED
      BY <1>1, <3>1, <3>2, EmptyFacts, ContentAssumption
         DEF BlankIsEmpty, TmpApart, SaveWhileRunning,
             SaverOwnsTmp, TextIsMemory, Loadable, KeepsLastSave, SettledIsSaved
  <2> QED
    BY <1>2, <2>1, <2>2 DEF Start
<1>3. CASE Load
  BY <1>1, <1>3, ContentAssumption
     DEF Load, files, savers, BlankIsEmpty, TmpApart, SaveWhileRunning,
         SaverOwnsTmp, TextIsMemory, Loadable, KeepsLastSave, SettledIsSaved
<1>4. CASE WriteDefault
  <2> DEFINE c == dir["config"]
  <2>1. /\ c \in Inodes /\ data[c] \in Contents /\ data[c].len = 0
        /\ \A s \in Savers : step[s] = "idle"
    BY <1>4 DEF WriteDefault, Paths, SaveWhileRunning, BlankIsEmpty
  <2>2. /\ data'[c] = Overwrite(data[c], Default) /\ dir' = dir /\ step' = step
        /\ \A j \in Inodes \ {c} : data'[j] = data[j]
        /\ phase' = "running" /\ memory' = Default /\ acked' = Default
    BY <1>4, <2>1 DEF WriteDefault, savers
  <2>3. data'[c].reads = Default
    BY <2>1, <2>2, OverwriteFacts, ValuesAssumption
  <2> QED
    BY <1>1, <2>1, <2>2, <2>3, ContentAssumption, ValuesAssumption, InodesAssumption
       DEF BlankIsEmpty, TmpApart, SaveWhileRunning,
           SaverOwnsTmp, TextIsMemory, Loadable, KeepsLastSave, SettledIsSaved
<1>5. CASE Crash
  BY <1>1, <1>5
     DEF Crash, files, BlankIsEmpty, TmpApart, SaveWhileRunning,
         SaverOwnsTmp, TextIsMemory, Loadable, KeepsLastSave, SettledIsSaved
<1>6. ASSUME NEW v \in Values, FromJson(v) PROVE IInv'
  BY <1>1, <1>6
     DEF FromJson, files, savers, BlankIsEmpty, TmpApart, SaveWhileRunning,
         SaverOwnsTmp, TextIsMemory, Loadable, KeepsLastSave, SettledIsSaved
<1>7. ASSUME NEW s \in Savers, NEW v \in Values, Set(s, v) PROVE IInv'
  BY <1>1, <1>7
     DEF OneSaver, Set, files, BlankIsEmpty, TmpApart, SaveWhileRunning,
         SaverOwnsTmp, TextIsMemory, Loadable, KeepsLastSave, SettledIsSaved
<1>8. ASSUME NEW s \in Savers, Open(s) PROVE IInv'
  BY <1>1, <1>8, EmptyFacts, InodesAssumption
     DEF OneSaver, Open, Unused, Paths, BlankIsEmpty, TmpApart, SaveWhileRunning,
         SaverOwnsTmp, TextIsMemory, Loadable, KeepsLastSave, SettledIsSaved
<1>9. ASSUME NEW s \in Savers, Serialize(s) PROVE IInv'
  BY <1>1, <1>9
     DEF OneSaver, Serialize, files, BlankIsEmpty, TmpApart, SaveWhileRunning,
         SaverOwnsTmp, TextIsMemory, Loadable, KeepsLastSave, SettledIsSaved
<1>10. ASSUME NEW s \in Savers, WriteAll(s) PROVE IInv'
  <2> DEFINE t == dir["tmp"]
  <2>1. /\ t \in Inodes /\ handle[s] = t /\ t # dir["config"] /\ dir["config"] # NoInode
        /\ data[t] \in Contents /\ data[t].len = 0 /\ text[s] \in Values
        /\ step[s] = "serialized" /\ phase = "running"
    BY <1>10 DEF WriteAll, Paths, SaverOwnsTmp, TmpApart, BlankIsEmpty, SaveWhileRunning
  <2>2. /\ data'[t] = Overwrite(data[t], text[s])
        /\ \A j \in Inodes \ {t} : data'[j] = data[j]
        /\ step'[s] = "written" /\ \A r \in Savers : r = s
    BY <1>10, <2>1 DEF WriteAll, OneSaver
  <2>3. data'[t].reads = text[s] /\ data'[t].reads # Blank
    BY <2>1, <2>2, OverwriteFacts
  <2> QED
    BY <1>1, <1>10, <2>1, <2>2, <2>3
       DEF WriteAll, Paths, BlankIsEmpty, TmpApart, SaveWhileRunning,
           SaverOwnsTmp, TextIsMemory, Loadable, KeepsLastSave, SettledIsSaved
<1>11. ASSUME NEW s \in Savers, Rename(s) PROVE IInv'
  BY <1>1, <1>11, ContentAssumption
     DEF OneSaver, Rename, Paths, BlankIsEmpty, TmpApart, SaveWhileRunning,
         SaverOwnsTmp, TextIsMemory, Loadable, KeepsLastSave, SettledIsSaved
<1>12. CASE UNCHANGED vars
  BY <1>1, <1>12
     DEF vars, BlankIsEmpty, TmpApart, SaveWhileRunning,
         SaverOwnsTmp, TextIsMemory, Loadable, KeepsLastSave, SettledIsSaved
<1> QED
  BY <1>2, <1>3, <1>4, <1>5, <1>6, <1>7, <1>8, <1>9, <1>10, <1>11, <1>12 DEF Next, Save

(* With one saver, it always holds.                                        *)
LEMMA Invariant == ASSUME OneSaver PROVE Spec => []IInv
<1>1. IInv /\ [Next]_vars => IInv'
  BY InvStep
<1> QED
  BY <1>1, InvInit, PTL DEF Spec

(* With one saver a restart always finds a configuration it can load.      *)
THEOREM FileLoads == ASSUME OneSaver PROVE Spec => []Loadable
<1>1. IInv => Loadable
  BY DEF IInv
<1> QED
  BY <1>1, Invariant, PTL

(* With one saver no write but a rename reaches the configuration: a saved *)
(* value survives every crash.                                             *)
THEOREM SavesAreKept == ASSUME OneSaver PROVE Spec => []KeepsLastSave
<1>1. IInv => KeepsLastSave
  BY DEF IInv
<1> QED
  BY <1>1, Invariant, PTL

(* With one saver the file and the memory agree when nobody is saving.     *)
THEOREM FileFollowsMemory == ASSUME OneSaver PROVE Spec => []SettledIsSaved
<1>1. IInv => SettledIsSaved
  BY DEF IInv
<1> QED
  BY <1>1, Invariant, PTL
==============================================================================
