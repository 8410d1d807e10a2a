------------------------------- MODULE ConfMan -------------------------------
(***************************************************************************)
(* One configuration of a program (src/confman.rs): its value in memory,   *)
(* the file it is kept in, and the two parties that change it.  The owner  *)
(* changes it through write(), whose Change saves when it is dropped; the  *)
(* D-Bus executor, a thread of its own, changes it through set_value.      *)
(* Both save the same way: truncate a temporary file next to the           *)
(* configuration, write the serialized value to it and rename it over the  *)
(* configuration.  The program may be killed at any moment and started     *)
(* again.                                                                  *)
(*                                                                         *)
(* A path names an inode.  A saver writes to the inode it opened, whatever *)
(* the path names by then; a rename moves whatever the path names then.    *)
(***************************************************************************)
EXTENDS Integers

CONSTANTS
  Values,     (* values of the configuration                               *)
  Default,    (* the value of T::default()                                 *)
  Size,       (* [Values -> Nat] the length of a value as JSON             *)
  Inodes,     (* bound: the inodes the file system may use for the files   *)
  NoInode,    (* what a path names when there is no such file              *)
  Blank,      (* the content of an empty file                              *)
  Torn,       (* content serde_json refuses                                *)
  Savers      (* who changes the configuration: "owner", "dbus"            *)

ASSUME ValuesAssumption == Default \in Values /\ Size \in [Values -> Nat \ {0}]
ASSUME ContentAssumption == Blank # Torn /\ Blank \notin Values /\ Torn \notin Values
ASSUME InodesAssumption == NoInode \notin Inodes
ASSUME SaversAssumption == Savers \subseteq {"owner", "dbus"}

VARIABLES
  phase,     (* "down", "opened", "blank" (while starting) or "running"    *)
  memory,    (* FileStorage.value                                          *)
  dir,       (* the inode each path names                                  *)
  data,      (* content of each inode: what it reads as, and its length    *)
  step,      (* how far each saver is: see Steps                           *)
  handle,    (* the inode each saver has open                              *)
  text,      (* what each saver has serialized                             *)
  acked,     (* history: the value of the last save that succeeded         *)
  unsaved    (* history: from_json has changed the value without saving    *)

files  == <<dir, data>>
savers == <<step, handle, text>>
vars == <<phase, memory, dir, data, step, handle, text, acked, unsaved>>

Paths    == {"config", "tmp"}
Steps    == {"idle", "changed", "opened", "serialized", "written"}
Contents == [reads : Values \union {Blank, Torn}, len : Nat]
Empty    == [reads |-> Blank, len |-> 0]

(* write_all at offset 0 of a file that holds c: a value shorter than what *)
(* is there leaves the old end of the file behind it.                      *)
Overwrite(c, v) ==
  IF Size[v] >= c.len THEN [reads |-> v,    len |-> Size[v]]
                      ELSE [reads |-> Torn, len |-> c.len]

(* What the configuration file reads as.                                   *)
Stored == data[dir["config"]].reads

(* create: the path names an inode nothing else uses.                      *)
Unused == Inodes \ ({dir[p] : p \in Paths} \union {handle[s] : s \in Savers})

-----------------------------------------------------------------------------
(* The program is not running.  Either it never ran here, or it left a     *)
(* configuration file.                                                     *)
Init ==
  /\ phase   = "down"
  /\ memory  = Default
  /\ \/ /\ dir   = [p \in Paths |-> NoInode]
        /\ data  = [i \in Inodes |-> Empty]
        /\ acked = Default
     \/ \E i \in Inodes, v \in Values :
          /\ dir   = [p \in Paths |-> IF p = "config" THEN i ELSE NoInode]
          /\ data  = [j \in Inodes |-> IF j = i THEN [reads |-> v, len |-> Size[v]]
                                                ELSE Empty]
          /\ acked = v
  /\ step    = [s \in Savers |-> "idle"]
  /\ handle  = [s \in Savers |-> NoInode]
  /\ text    = [s \in Savers |-> Default]
  /\ unsaved = FALSE

-----------------------------------------------------------------------------
(* FileStorage::new.                                                       *)

(* open with create(true).                                                 *)
Start ==
  /\ phase = "down"
  /\ phase' = "opened"
  /\ IF dir["config"] # NoInode THEN UNCHANGED files
     ELSE \E i \in Unused : /\ dir'  = [dir EXCEPT !["config"] = i]
                            /\ data' = [data EXCEPT ![i] = Empty]
  /\ UNCHANGED <<memory, savers, acked, unsaved>>

(* An empty file is given the default value; anything else must parse, or  *)
(* the program panics.                                                     *)
Load ==
  /\ phase = "opened"
  /\ phase' = CASE Stored = Blank -> "blank" [] Stored = Torn -> "down" [] OTHER -> "running"
  /\ memory' = IF Stored \in Values THEN Stored ELSE memory
  /\ unsaved' = FALSE
  /\ UNCHANGED <<files, savers, acked>>

WriteDefault ==
  /\ phase = "blank"
  /\ phase'  = "running"
  /\ data'   = [data EXCEPT ![dir["config"]] = Overwrite(@, Default)]
  /\ memory' = Default
  /\ acked'  = Default
  /\ UNCHANGED <<dir, savers, unsaved>>

(* The process is killed; what the files hold stays.                       *)
Crash ==
  /\ phase # "down"
  /\ phase'  = "down"
  /\ step'   = [s \in Savers |-> "idle"]
  /\ handle' = [s \in Savers |-> NoInode]
  /\ UNCHANGED <<memory, files, text, acked, unsaved>>

-----------------------------------------------------------------------------
(* Changing the value, under its write lock.                               *)

(* Mutant: the change is not saved.                                        *)
MutSet(s, v) ==
  /\ phase = "running" /\ step[s] = "idle"
  /\ memory' = v
  /\ UNCHANGED <<phase, files, savers, acked, unsaved>>

(* The owner's write() and value_mut(), or set_value of the D-Bus object.  *)
Set(s, v) ==
  /\ phase = "running" /\ step[s] = "idle"
  /\ memory' = v
  /\ step'   = [step EXCEPT ![s] = "changed"]
  /\ UNCHANGED <<phase, files, handle, text, acked, unsaved>>

(* from_json of the owner changes the value and does not save it.          *)
FromJson(v) ==
  /\ phase = "running"
  /\ "owner" \in Savers => step["owner"] = "idle"
  /\ memory'  = v
  /\ unsaved' = TRUE
  /\ UNCHANGED <<phase, files, savers, acked>>

-----------------------------------------------------------------------------
(* save_to_file.                                                           *)

(* Mutant: the temporary file is not truncated.                            *)
MutOpenKeeping(s) ==
  /\ step[s] = "changed"
  /\ step' = [step EXCEPT ![s] = "opened"]
  /\ IF dir["tmp"] # NoInode
     THEN handle' = [handle EXCEPT ![s] = dir["tmp"]] /\ UNCHANGED files
     ELSE \E i \in Unused : /\ handle' = [handle EXCEPT ![s] = i]
                            /\ dir'    = [dir EXCEPT !["tmp"] = i]
                            /\ data'   = [data EXCEPT ![i] = Empty]
  /\ UNCHANGED <<phase, memory, text, acked, unsaved>>

(* Mutant: the configuration itself is opened and truncated.               *)
MutOpenInPlace(s) ==
  /\ step[s] = "changed"
  /\ step'   = [step EXCEPT ![s] = "opened"]
  /\ handle' = [handle EXCEPT ![s] = dir["config"]]
  /\ data'   = [data EXCEPT ![dir["config"]] = Empty]
  /\ dir'    = [dir EXCEPT !["tmp"] = dir["config"]]
  /\ UNCHANGED <<phase, memory, text, acked, unsaved>>

(* open with create(true) and truncate(true).                              *)
Open(s) ==
  /\ step[s] = "changed"
  /\ step' = [step EXCEPT ![s] = "opened"]
  /\ \E i \in IF dir["tmp"] # NoInode THEN {dir["tmp"]} ELSE Unused :
       /\ handle' = [handle EXCEPT ![s] = i]
       /\ dir'    = [dir EXCEPT !["tmp"] = i]
       /\ data'   = [data EXCEPT ![i] = Empty]
  /\ UNCHANGED <<phase, memory, text, acked, unsaved>>

(* to_json under the read lock.                                            *)
Serialize(s) ==
  /\ step[s] = "opened"
  /\ step'    = [step EXCEPT ![s] = "serialized"]
  /\ text'    = [text EXCEPT ![s] = memory]
  /\ unsaved' = FALSE
  /\ UNCHANGED <<phase, memory, files, handle, acked>>

WriteAll(s) ==
  /\ step[s] = "serialized"
  /\ step' = [step EXCEPT ![s] = "written"]
  /\ data' = [data EXCEPT ![handle[s]] = Overwrite(@, text[s])]
  /\ UNCHANGED <<phase, memory, dir, handle, text, acked, unsaved>>

(* Renaming a file that is no longer there fails; the error is logged or   *)
(* returned and the value in memory stays.                                 *)
Rename(s) ==
  /\ step[s] = "written"
  /\ step'   = [step EXCEPT ![s] = "idle"]
  /\ handle' = [handle EXCEPT ![s] = NoInode]
  /\ IF dir["tmp"] = NoInode THEN UNCHANGED <<dir, acked>>
     ELSE /\ dir'   = [p \in Paths |-> IF p = "config" THEN dir["tmp"] ELSE NoInode]
          /\ acked' = text[s]
  /\ UNCHANGED <<phase, memory, data, text, unsaved>>

Save(s) == Open(s) \/ Serialize(s) \/ WriteAll(s) \/ Rename(s)

Next ==
  \/ Start \/ Load \/ WriteDefault \/ Crash
  \/ \E v \in Values : FromJson(v)
  \/ \E s \in Savers : Save(s) \/ \E v \in Values : Set(s, v)

Spec == Init /\ [][Next]_vars

-----------------------------------------------------------------------------
(* Types of the value, the files and the progress of the savers.           *)
TypeOK ==
  /\ phase   \in {"down", "opened", "blank", "running"}
  /\ memory  \in Values
  /\ dir     \in [Paths -> Inodes \union {NoInode}]
  /\ data    \in [Inodes -> Contents]
  /\ step    \in [Savers -> Steps]
  /\ handle  \in [Savers -> Inodes \union {NoInode}]
  /\ text    \in [Savers -> Values]
  /\ acked   \in Values
  /\ unsaved \in BOOLEAN

(* The file a start finds can be loaded: it is never torn, and once the    *)
(* program runs it is not empty either, so that a restart neither panics   *)
(* nor falls back to the default.  This is what the temporary file, its    *)
(* truncation and the rename are for.                                      *)
Loadable ==
  /\ dir["config"] # NoInode => Stored # Torn
  /\ phase = "running" => dir["config"] # NoInode /\ Stored \in Values

(* The file holds the value of the last save that succeeded, from one      *)
(* rename to the next, killed or not: no other write reaches it.           *)
KeepsLastSave ==
  dir["config"] # NoInode /\ Stored # Blank => Stored = acked

(* When nobody is changing the configuration, the file holds the value in  *)
(* memory, unless from_json put it there.                                  *)
SettledIsSaved ==
  phase = "running" /\ (\A s \in Savers : step[s] = "idle") /\ ~unsaved
    => Stored = memory
==============================================================================
