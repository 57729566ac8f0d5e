------------------------------ MODULE Commands ------------------------------
(* The shell around its input loop: what shell_start sets up before it, the    *)
(* commands it calls, and the memory and files they hold.  Any allocation, and *)
(* any access to the device, may fail.                                         *)
(*                                                                             *)
(* A name is one character, so is "root", the name the shell has for the       *)
(* directory it starts in.  The two dot entries of directories are left out.   *)
(* Splitting a line and looking up the command are in Text; commands that only *)
(* print (help, echo, chstat, compdate, whereami, pl, clear) change nothing    *)
(* here, and some end without a return value, which may then be any.           *)
EXTENDS Text, Functions

CONSTANTS Tree,       \* the volume: for each path, a sequence of names, "dir" or "file"
          Arguments,  \* the paths typed
          Numbers,    \* the numbers typed
          PathSize    \* size of full_path, currentDir and dest, with the final zero

VARIABLES
  running,      \* the loop that runs, of all programs; "overwritten" after a write past an array
  currentDir,   \* as the shell writes it
  s_fat_fs,     \* whether there is a filesystem
  font,         \* whether there is a font
  held,         \* for each kind of block, how many are allocated
  task,         \* the function at work, where it is, and on which file
  keys          \* keys pressed, in all programs

commandVars == <<currentDir, s_fat_fs, font, held, task>>

Root == <<114>>
DotDot == <<Dot, Dot>>
Blocks == {"sector_buffer", "fat_sector_buffer", "filesystem", "file", "font", "header", "glyphs",
           "names", "name"}
Allocated(h, kinds) == [k \in Blocks |-> h[k] + IF k \in kinds THEN 1 ELSE 0]
Freed(h, kinds) == [k \in Blocks |-> h[k] - IF k \in kinds THEN 1 ELSE 0]

RootFile == [at |-> <<>>, kind |-> "dir"]
NULL == [at |-> <<>>, kind |-> "null"]
Idle == [in |-> "prompt", at |-> 0, file |-> NULL]

Init ==
  /\ currentDir = Root /\ s_fat_fs = FALSE /\ font = FALSE
  /\ held = [k \in Blocks |-> 0]
  /\ task = [Idle EXCEPT !.in = "FAT_Init", !.at = 1]

-----------------------------------------------------------------------------
(* Opening and closing: the outcomes, each a file and what is then held *)

FAT_Open(parent, name, h) ==
  LET at == Append(parent.at, name)
      failed == [file |-> NULL, held |-> h]
  IN IF parent.kind = "dir" /\ at \in DOMAIN Tree
       THEN {failed, [file |-> [at |-> at, kind |-> Tree[at]], held |-> Allocated(h, {"file"})]}
       ELSE {failed}

\* The root file is no block of its own.
FAT_Close(file, h) == IF file.at = <<>> THEN h ELSE Freed(h, {"file"})

\* Each directory on the way is closed when the next one was looked for, found or not.
LeavesOpen(outcome, name) == FAT_Open(outcome.file, name, outcome.held)   \* mutant
OpenNext(outcome, name) ==
  IF outcome.file = NULL THEN {outcome}
  ELSE {[o EXCEPT !.held = FAT_Close(outcome.file, @)] :
          o \in FAT_Open(outcome.file, name, outcome.held)}
FAT_OpenAbsolute(path, h) ==
  LET names == Components(path)
      opened[k \in 0 .. Len(names)] ==
        IF k = 0 THEN {[file |-> RootFile, held |-> h]}
        ELSE UNION {OpenNext(o, names[k]) : o \in opened[k - 1]}
  IN opened[Len(names)]

FAT_IsDirectory(file) == file.kind = "dir"

-----------------------------------------------------------------------------
(* Setting up: FAT_Init and LoadFont go through their steps, and give back on  *)
(* a failure what the steps before allocated.                                  *)

InitSteps == <<{"sector_buffer"}, {}, {}, {"fat_sector_buffer"}, {"filesystem"}>>
InitFrees(at) == CASE at = 1 -> {} [] at = 5 -> {"fat_sector_buffer", "sector_buffer"} [] OTHER -> {"sector_buffer"}
FAT_Init ==
  /\ running = "shell" /\ task.in = "FAT_Init"
  /\ LET h == Allocated(held, InitSteps[task.at])
         next == [Idle EXCEPT !.in = "LoadFont", !.at = 1] IN
     \/ /\ held' = Freed(held, InitFrees(task.at)) /\ task' = next /\ UNCHANGED s_fat_fs
     \/ /\ task.at < 5 /\ held' = h /\ task' = [task EXCEPT !.at = @ + 1] /\ UNCHANGED s_fat_fs
     \/ /\ task.at = 5 /\ held' = Freed(h, {"sector_buffer"}) /\ task' = next /\ s_fat_fs' = TRUE
  /\ UNCHANGED <<running, currentDir, font, keys>>
\* Without a device or a second partition the pointer to it is whatever is there.
NoDevice ==
  /\ running = "shell" /\ task.in = "FAT_Init" /\ task.at = 1
  /\ running' = "panic" /\ UNCHANGED <<commandVars, keys>>

\* The directory and the file shell_start creates come in between (Fat): without a volume, or
\* without the file, it reads through a null pointer, and what it writes is no string.
FontSteps == <<{"file"}, {"font"}, {"header"}, {}, {}, {"glyphs"}, {}>>
FontFrees(at) == UNION {FontSteps[k] : k \in 1 .. at - 1}
LoadFont ==
  /\ running = "shell" /\ task.in = "LoadFont"
  /\ LET h == Allocated(held, FontSteps[task.at]) IN
     \/ /\ held' = Freed(held, FontFrees(task.at)) /\ task' = Idle /\ UNCHANGED <<running, font>>
     \/ /\ task.at < 7 /\ s_fat_fs /\ held' = h /\ task' = [task EXCEPT !.at = @ + 1] /\ UNCHANGED <<running, font>>
     \/ /\ task.at = 7 /\ held' = Freed(h, {"file"}) /\ task' = Idle /\ font' = TRUE /\ UNCHANGED running
     \/ /\ task.at = 1 /\ running' = "panic" /\ UNCHANGED <<font, held, task>>
  /\ UNCHANGED <<currentDir, s_fat_fs, keys>>

-----------------------------------------------------------------------------
(* Commands *)

Prompt == running = "shell" /\ task.in = "prompt"

\* Up is to before the last slash, or to the root if there is none.
Parent(path) ==
  LET slash == find_last_slash(path) IN
  IF path \in {Root, <<>>} THEN path ELSE IF slash = 0 THEN Root ELSE SubSeq(path, 1, slash - 1)
cd_up ==
  /\ Prompt /\ s_fat_fs
  /\ currentDir' = Parent(currentDir)
  /\ UNCHANGED <<running, s_fat_fs, font, held, task, keys>>

\* A path is put together in an array on the stack, however long it gets: past its end it goes
\* over what the command and its caller return to.
Overruns(path) ==
  /\ Len(path) >= PathSize
  /\ running' = "overwritten" /\ UNCHANGED <<commandVars, keys>>

EntersAnything(file) == file # NULL                                  \* mutant
MayEnter(file) == FAT_IsDirectory(file)
Enters(path) ==
  /\ Len(path) < PathSize
  /\ \E o \in FAT_OpenAbsolute(path, held) :
       /\ currentDir' = IF MayEnter(o.file) THEN path ELSE currentDir
       /\ held' = FAT_Close(o.file, o.held)
  /\ UNCHANGED <<running, s_fat_fs, font, task, keys>>
cd(arg) ==
  /\ Prompt /\ s_fat_fs
  /\ LET full_path == IF currentDir = Root THEN arg ELSE currentDir \o <<Slash>> \o arg
     IN Overruns(full_path) \/ Enters(full_path)

\* The path is the directory and the argument with nothing in between.  What is read of
\* the file is in Fat.
Shows(path) ==
  /\ Len(path) < PathSize
  /\ \E o \in FAT_OpenAbsolute(path, held) : held' = FAT_Close(o.file, o.held)
  /\ UNCHANGED <<running, currentDir, s_fat_fs, font, task, keys>>
cat(arg) ==
  /\ Prompt /\ s_fat_fs
  /\ LET dest == currentDir \o arg IN Overruns(dest) \/ Shows(dest)

\* An argument is looked up from the root, wherever the shell is.
ListedPath(path) ==
  LET p == IF path \in {Root, <<Slash>>} THEN <<>> ELSE path
      prefix == Root \o <<Slash>>
  IN IF starts_with(p, prefix) THEN SubSeq(p, Len(prefix) + 1, Len(p)) ELSE p
ls(path) ==
  /\ Prompt /\ s_fat_fs
  /\ \E o \in FAT_OpenAbsolute(ListedPath(path), held) :
       /\ held' = o.held
       /\ task' = IF o.file = NULL THEN Idle ELSE [in |-> "FAT_ListFiles", at |-> 0, file |-> o.file]
  /\ UNCHANGED <<running, currentDir, s_fat_fs, font, keys>>

Children(file) == {at \in DOMAIN Tree : at # <<>> /\ Front(at) = file.at}
\* append_fat_entry_name, once for each entry: the list is copied into one longer by one.
Appended(h) ==
  IF h["names"] = 0 THEN Allocated(h, {"names", "name"}) ELSE Allocated(h, {"name"})
FAT_ListFiles ==
  /\ running = "shell" /\ task.in = "FAT_ListFiles"
  /\ \/ /\ FAT_IsDirectory(task.file) /\ task.at < Cardinality(Children(task.file))
        /\ held' = Appended(held) /\ task' = [task EXCEPT !.at = @ + 1]
     \/ task' = [task EXCEPT !.in = "ls"] /\ UNCHANGED held
  /\ UNCHANGED <<running, currentDir, s_fat_fs, font, keys>>

\* Each name is looked up in the root directory, to print what it is, and freed; then the
\* list, if there is one.
ListName ==
  /\ running = "shell" /\ task.in = "ls" /\ held["name"] > 0
  /\ \E at \in Children(task.file) : \E o \in FAT_OpenAbsolute(Last(at), held) :
       held' = Freed(IF o.file = NULL THEN o.held ELSE Freed(o.held, {"file"}), {"name"})
  /\ UNCHANGED <<running, currentDir, s_fat_fs, font, task, keys>>
ListEnd ==
  /\ running = "shell" /\ task.in = "ls" /\ held["name"] = 0
  /\ held' = FAT_Close(task.file, IF held["names"] = 0 THEN held ELSE Freed(held, {"names"}))
  /\ task' = Idle
  /\ UNCHANGED <<running, currentDir, s_fat_fs, font, keys>>

\* calc divides before it looks whether it may, beep divides by the frequency: the
\* processor's exception panics.
Faults(operation, a, b) == operation = "/" /\ (b = 0 \/ (a = -(IntSize \div 2) /\ b = -1))
calc(a, operation, b) ==
  /\ Prompt
  /\ running' = IF Faults(operation, a, b) THEN "panic" ELSE "shell"
  /\ UNCHANGED <<commandVars, keys>>
beep(frequency) == calc(1193180, "/", frequency)

\* pause looks at its first argument even if there is none, at whatever is there.
pause == Prompt /\ running' \in {"shell", "panic"} /\ UNCHANGED <<commandVars, keys>>

\* guiload and recovery go on in Desktop and Recovery, and come back from neither: the step
\* is composed in Programs.
guiload == Prompt /\ UNCHANGED keys
recovery == Prompt /\ UNCHANGED keys

Next ==
  \/ FAT_Init \/ NoDevice \/ LoadFont \/ cd_up \/ FAT_ListFiles \/ ListName \/ ListEnd \/ pause
  \/ \E arg \in Arguments : cd(arg) \/ cat(arg) \/ ls(arg)
  \/ ls(currentDir)
  \/ \E a, b \in Numbers, operation \in {"+", "-", "*", "/"} : calc(a, operation, b)
  \/ \E frequency \in Numbers : beep(frequency)

-----------------------------------------------------------------------------
(* Properties *)

\* Whichever allocation or access fails: at the prompt nothing is held but the filesystem
\* and the font that are there, each once.
NothingLeaks ==
  running = "shell" /\ task.in = "prompt" =>
    held = [k \in Blocks |->
              IF k \in {"fat_sector_buffer", "filesystem"} /\ s_fat_fs THEN 1
              ELSE IF k \in {"font", "header", "glyphs"} /\ font THEN 1 ELSE 0]

\* However one got there, in and out of directories, with slashes doubled or at the end: the
\* current directory is a directory of the volume, as long as no path was too long for
\* its array.
DirExists ==
  LET at == IF currentDir = Root THEN <<>> ELSE Components(currentDir) IN
  at = <<>> \/ (at \in DOMAIN Tree /\ Tree[at] = "dir")
CurrentDirExists == running # "overwritten" => DirExists
=============================================================================
