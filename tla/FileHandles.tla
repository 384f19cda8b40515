------------------------------ MODULE FileHandles ------------------------------
(***************************************************************************)
(* The File objects of a file system and their caches of size and position *)
(* over stdio streams, with copies, moves and files that are removed or    *)
(* renamed under them.                                                     *)
(*                                                                         *)
(* The host's file system and stdio are external: names for files, their   *)
(* lengths, and streams with an offset and bytes buffered for writing,     *)
(* which may reach the file at any moment.  Contents, directories and the  *)
(* resolution of a path below the root are left out.  One thread calls.    *)
(***************************************************************************)
EXTENDS Integers

CONSTANTS
  Objects,       (* variables of type File                                 *)
  Paths,         (* host paths of files                                    *)
  Inodes,        (* the files there can be                                 *)
  Absent,        (* no file                                                *)
  Counts,        (* sizes given to read, write and seek                    *)
  MaxLength,     (* bound: lengths and offsets                             *)
  MaxCalls       (* bound: calls in a behaviour                            *)

ASSUME FileAssumption ==
  /\ Absent \notin Inodes /\ Counts \subseteq Nat /\ MaxLength \in Nat
  /\ MaxCalls \in Nat

VARIABLES
  dirent,        (* the file of each path                                  *)
  length,        (* the length of each file                                *)
  file,          (* the File objects                                       *)
  alone,         (* the open objects whose file no other has changed, and  *)
                 (* that were not copied from unsettled ones               *)
  calls          (* number of calls so far                                 *)

file_vars == <<dirent, length, file, alone, calls>>

(* handle_ # NULL, its stream (file, mode, offset, bytes buffered), and    *)
(* host_path_, size_ and position_, which matter while it is open.         *)
Shut == [open |-> FALSE, inode |-> Absent, mode |-> "r", offset |-> 0, buffered |-> 0,
         path |-> Absent, size |-> 0, position |-> 0]

OpenModes == {"r", "w", "a", "r+"}
CanWrite(mode) == mode # "r"
CanRead(mode) == mode \in {"r", "r+"}
Larger(a, b) == IF a >= b THEN a ELSE b
Smaller(a, b) == IF a <= b THEN a ELSE b

FileInit ==
  /\ dirent = [p \in Paths |-> Absent] /\ length = [i \in Inodes |-> 0]
  /\ file = [o \in Objects |-> Shut] /\ alone = {} /\ calls = 0

(* The length of an object's file once its buffer has been written, and    *)
(* its stream then.                                                        *)
WrittenLength(o) ==
  CASE file[o].buffered = 0 -> length[file[o].inode]
    [] file[o].mode = "a" -> length[file[o].inode] + file[o].buffered
    [] OTHER -> Larger(length[file[o].inode], file[o].offset)

Flushed(o) ==
  [file[o] EXCEPT !.buffered = 0,
     !.offset = IF file[o].buffered > 0 /\ file[o].mode = "a" THEN WrittenLength(o) ELSE @]

(* The buffer of o is written, if it has a stream; a file whose length     *)
(* changes does so behind the backs of its other objects.                  *)
Flushes(o) ==
  length' = IF file[o].open THEN [length EXCEPT ![file[o].inode] = WrittenLength(o)] ELSE length

Undisturbed(o) ==
  alone \ {p \in Objects \ {o} : file[p].open /\ length'[file[p].inode] # length[file[p].inode]}
------------------------------------------------------------------------------
FreeInodes ==
  Inodes \ ({dirent[p] : p \in Paths} \cup {file[o].inode : o \in {q \in Objects : file[q].open}})

(* fs.open(path, mode) into a new File (an open one is closed by the move  *)
(* from it), where it can be opened.  size_ is read from the path after  *)
(* the open; position_ is 0, also for an append.                           *)
FileOpen(o, path, mode) ==
  \E i \in IF dirent[path] = Absent THEN FreeInodes ELSE {dirent[path]} :
    /\ ~file[o].open
    /\ mode \in {"r", "r+"} => dirent[path] # Absent
    /\ dirent' = [dirent EXCEPT ![path] = i]
    /\ length' = IF mode = "w" \/ dirent[path] = Absent THEN [length EXCEPT ![i] = 0] ELSE length
    /\ file' = [file EXCEPT ![o] = [open |-> TRUE, inode |-> i, mode |-> mode, offset |-> 0,
                                    buffered |-> 0, path |-> path, size |-> length'[i],
                                    position |-> 0]]
    /\ alone' = Undisturbed(o) \cup {o}

(* close(), and the end of the object.                                     *)
FileClose(o) ==
  /\ file[o].open
  /\ Flushes(o)
  /\ file' = [file EXCEPT ![o] = Shut]
  /\ alone' = Undisturbed(o) \ {o}
  /\ UNCHANGED dirent

Settled(p) == file[p].open /\ file[p].buffered = 0 /\ file[p].mode # "a"

(* o = p: o is closed, then the path of p is opened once more, for reading *)
(* at p's position: that is another file if p's was renamed or replaced.   *)
FileCopy(o, p) ==
  LET i == IF file[p].open THEN dirent[file[p].path] ELSE Absent IN
  /\ o # p
  /\ Flushes(o)
  /\ file' = [file EXCEPT ![o] = IF i = Absent THEN Shut
                ELSE [file[p] EXCEPT !.inode = i, !.mode = "r", !.offset = file[p].position,
                                     !.buffered = 0]]
  /\ alone' = (Undisturbed(o) \ {o})
               \cup (IF p \in Undisturbed(o) /\ Settled(p) /\ i = file[p].inode THEN {o} ELSE {})
  /\ UNCHANGED dirent

(* o = std::move(p): the stream moves as it is, with what it has buffered. *)
FileMove(o, p) ==
  /\ o # p
  /\ Flushes(o)
  /\ file' = [file EXCEPT ![o] = file[p], ![p] = Shut]
  /\ alone' = (Undisturbed(o) \ {o, p}) \cup (IF p \in Undisturbed(o) THEN {o} ELSE {})
  /\ UNCHANGED dirent
------------------------------------------------------------------------------
MutantWrite(o, n) ==
  LET to == file[o].position + n IN
  /\ file[o].open /\ CanWrite(file[o].mode) /\ n > 0
  /\ file[o].offset + n <= MaxLength /\ WrittenLength(o) + n <= MaxLength
  /\ file' = [file EXCEPT ![o].offset = @ + n, ![o].buffered = @ + n,
                          ![o].position = to, ![o].size = file[o].size + n]
  /\ UNCHANGED <<dirent, length, alone>>

(* fwrite takes all, or nothing when the stream is not for writing.        *)
FileWrite(o, n) ==
  LET to == file[o].position + n IN
  /\ file[o].open /\ CanWrite(file[o].mode) /\ n > 0
  /\ file[o].offset + n <= MaxLength /\ WrittenLength(o) + n <= MaxLength
  /\ file' = [file EXCEPT ![o].offset = @ + n, ![o].buffered = @ + n,
                          ![o].position = to, ![o].size = Larger(@, to)]
  /\ UNCHANGED <<dirent, length, alone>>

(* read() and read(buffer, size): up to the end of the file, or of what    *)
(* the stream had read ahead before another truncated it.                  *)
FileRead(o, n) ==
  /\ file[o].open /\ CanRead(file[o].mode)
  /\ Flushes(o)
  /\ \E count \in 0..n :
       /\ o \in alone => count = Smaller(n, Larger(0, WrittenLength(o) - file[o].offset))
       /\ file[o].offset + count <= MaxLength
       /\ file' = [file EXCEPT ![o] = [Flushed(o) EXCEPT !.offset = @ + count,
                                                         !.position = @ + count]]
  /\ alone' = Undisturbed(o)
  /\ UNCHANGED dirent

(* peek() reads and puts back; flush(), and stdio when its buffer is full. *)
FileFlush(o) ==
  /\ file[o].open /\ file[o].buffered > 0
  /\ Flushes(o)
  /\ file' = [file EXCEPT ![o] = Flushed(o)]
  /\ alone' = Undisturbed(o)
  /\ UNCHANGED dirent

MutantSeek(o, n, mode) ==
  LET to == (CASE mode = "set" -> 0 [] mode = "cur" -> Flushed(o).offset
               [] mode = "end" -> WrittenLength(o)) + n
  IN
  /\ file[o].open /\ to <= MaxLength
  /\ Flushes(o)
  /\ file' = [file EXCEPT ![o] = [Flushed(o) EXCEPT !.offset = to, !.position = n]]
  /\ alone' = Undisturbed(o)
  /\ UNCHANGED dirent

(* fseek flushes, and ftell tells position_; pos is unsigned, so a seek    *)
(* from the end never goes back.                                           *)
FileSeek(o, n, mode) ==
  LET to == (CASE mode = "set" -> 0 [] mode = "cur" -> Flushed(o).offset
               [] mode = "end" -> WrittenLength(o)) + n
  IN
  /\ file[o].open /\ to <= MaxLength
  /\ Flushes(o)
  /\ file' = [file EXCEPT ![o] = [Flushed(o) EXCEPT !.offset = to, !.position = to]]
  /\ alone' = Undisturbed(o)
  /\ UNCHANGED dirent

FileAvailable(o) ==
  IF ~file[o].open \/ file[o].position >= file[o].size THEN 0
  ELSE file[o].size - file[o].position
------------------------------------------------------------------------------
(* remove and rename; open streams keep their file.                        *)
FsRemove(path) ==
  /\ dirent[path] # Absent
  /\ dirent' = [dirent EXCEPT ![path] = Absent]
  /\ UNCHANGED <<length, file, alone>>

FsRename(from, to) ==
  /\ dirent[from] # Absent /\ from # to
  /\ dirent' = [dirent EXCEPT ![to] = dirent[from], ![from] = Absent]
  /\ UNCHANGED <<length, file, alone>>

FileCall ==
  \/ \E o \in Objects, path \in Paths, mode \in OpenModes : FileOpen(o, path, mode)
  \/ \E o \in Objects : FileClose(o) \/ FileFlush(o)
  \/ \E o, p \in Objects : FileCopy(o, p) \/ FileMove(o, p)
  \/ \E o \in Objects, n \in Counts : FileWrite(o, n) \/ FileRead(o, n)
  \/ \E o \in Objects, n \in Counts, mode \in {"set", "cur", "end"} : FileSeek(o, n, mode)
  \/ \E path \in Paths : FsRemove(path)
  \/ \E from, to \in Paths : FsRename(from, to)

FileNext == calls < MaxCalls /\ calls' = calls + 1 /\ FileCall

FileSpec == FileInit /\ [][FileNext]_file_vars
------------------------------------------------------------------------------
(* Every variable of the file system has its type.                         *)
FileTypeOK ==
  /\ dirent \in [Paths -> Inodes \cup {Absent}] /\ length \in [Inodes -> Nat]
  /\ file \in [Objects -> [open : BOOLEAN, inode : Inodes \cup {Absent}, mode : OpenModes,
                           offset : Nat, buffered : Nat, path : Paths \cup {Absent},
                           size : Nat, position : Nat]]
  /\ \A o \in Objects : file[o].open => file[o].inode \in Inodes
  /\ alone \subseteq {o \in Objects : file[o].open} /\ calls \in Nat

(* position_ is where the stream is, for every object but one opened for   *)
(* appending, copies and moves included; and as long as nobody else has    *)
(* changed the file, size_ is its length with what is still buffered, so   *)
(* that available() is what a read will find (FS.h:413-505).               *)
FileTellsItself ==
  \A o \in Objects :
    file[o].open /\ file[o].mode # "a" =>
      /\ file[o].position = file[o].offset
      /\ o \in alone => /\ file[o].size = WrittenLength(o)
                        /\ FileAvailable(o) = Larger(0, WrittenLength(o) - file[o].offset)
================================================================================
