-------------------------------- MODULE Single --------------------------------
(***************************************************************************)
(* The single-instance lock (package single): processes that acquire and   *)
(* release the lock of one path, and die at any moment.                    *)
(*                                                                         *)
(* On Unix the lock is a flock on the file the path leads to, taken in two *)
(* calls of the kernel; on Windows it is the open handle itself, and the   *)
(* release removes the file.  The kernel, external, closes the files of a  *)
(* dead process.  A path leads to a file (an inode), and two processes may *)
(* have opened the same path and yet different files.  The pid written to  *)
(* the file is left out: nothing reads it.                                 *)
(***************************************************************************)
CONSTANTS
  Procs,    \* processes
  Inodes,   \* files the path may lead to, one at a time
  NoFile,   \* no file
  Systems   \* "unix", "windows"

ASSUME SingleAssumption ==
  /\ NoFile \notin Inodes
  /\ Systems \subseteq {"unix", "windows"}

VARIABLES
  system,
  at,       \* the file the path leads to
  fd,       \* the file each process has open
  pc,       \* where its Acquire or Release is
  refused   \* its last Acquire returned ErrAlreadyRunning

vars == <<system, at, fd, pc, refused>>

Init ==
  /\ system \in Systems
  /\ at \in Inodes \cup {NoFile}
  /\ fd = [p \in Procs |-> NoFile]
  /\ pc = [p \in Procs |-> "idle"]
  /\ refused = [p \in Procs |-> FALSE]

-----------------------------------------------------------------------------
Goto(p, from, to) == pc[p] = from /\ pc' = [pc EXCEPT ![p] = to]

Holders == {p \in Procs : pc[p] = "held"}

\* p opens the path: the file it leads to, or a new one nobody has open.
OpenPath(p) ==
  /\ IF at = NoFile THEN at' \in {i \in Inodes : \A q \in Procs : fd[q] # i} ELSE at' = at
  /\ fd' = [fd EXCEPT ![p] = at']

Refuse(p) ==
  /\ refused' = [refused EXCEPT ![p] = TRUE]
  /\ fd' = [fd EXCEPT ![p] = NoFile]

\* OpenFile(path, O_CREATE)
Open(p) ==
  /\ system = "unix"
  /\ Goto(p, "idle", "opened")
  /\ OpenPath(p)
  /\ refused' = [refused EXCEPT ![p] = FALSE]
  /\ UNCHANGED system

\* Flock(f, LOCK_EX | LOCK_NB)
Flock(p) ==
  /\ system = "unix"
  /\ IF \E q \in Holders : fd[q] = fd[p]
     THEN Goto(p, "opened", "idle") /\ Refuse(p)
     ELSE Goto(p, "opened", "held") /\ UNCHANGED <<fd, refused>>
  /\ UNCHANGED <<system, at>>

\* Mutant: the lock file is removed with the lock.
RemoveFile == at' = NoFile

\* The file itself is left in place.
LeaveFile == at' = at

ReleaseUnix(p) ==
  /\ system = "unix"
  /\ Goto(p, "held", "idle")
  /\ fd' = [fd EXCEPT ![p] = NoFile]
  /\ LeaveFile
  /\ UNCHANGED <<system, refused>>

\* CreateFile with an empty share mode fails while anybody has the file open.
CreateFile(p) ==
  /\ system = "windows"
  /\ IF at # NoFile /\ \E q \in Procs : fd[q] = at
     THEN Goto(p, "idle", "idle") /\ Refuse(p) /\ UNCHANGED at
     ELSE /\ Goto(p, "idle", "held") /\ OpenPath(p)
          /\ refused' = [refused EXCEPT ![p] = FALSE]
  /\ UNCHANGED system

CloseHandle(p) ==
  /\ system = "windows"
  /\ Goto(p, "held", "closed")
  /\ fd' = [fd EXCEPT ![p] = NoFile]
  /\ UNCHANGED <<system, at, refused>>

\* os.Remove(path) fails while anybody has the file open.
Remove(p) ==
  /\ system = "windows"
  /\ Goto(p, "closed", "idle")
  /\ at' = IF \E q \in Procs : fd[q] = at THEN at ELSE NoFile
  /\ UNCHANGED <<system, fd, refused>>

\* p dies, wherever it is; another instance may be started in its place.
Crash(p) ==
  /\ pc' = [pc EXCEPT ![p] = "idle"]
  /\ fd' = [fd EXCEPT ![p] = NoFile]
  /\ refused' = [refused EXCEPT ![p] = FALSE]
  /\ UNCHANGED <<system, at>>

Next == \E p \in Procs :
  Open(p) \/ Flock(p) \/ ReleaseUnix(p) \/ CreateFile(p) \/ CloseHandle(p) \/ Remove(p) \/ Crash(p)

Spec == Init /\ [][Next]_vars

-----------------------------------------------------------------------------
(* Properties.                                                             *)

\* Acquire succeeds only while no other process holds the lock, so there is
\* one instance; and it refuses only while another does, so neither a crash
\* nor a file that was left behind keeps the next instance out.
AcquireIsExact ==
  [][\A p \in Procs :
       /\ pc[p] # "held" /\ pc'[p] = "held" => Holders = {}
       /\ ~refused[p] /\ refused'[p] => Holders \ {p} # {}]_vars
=============================================================================
