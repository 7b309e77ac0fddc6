---------------------------- MODULE SingleProofs ----------------------------
(***************************************************************************)
(* The lock of package single has one holder, for any number of processes. *)
(***************************************************************************)
EXTENDS Single, TLAPS

\* Everybody who has a file open has the one the path leads to, so that a
\* flock, or a share mode, of another process is met there; and on Windows an
\* open file is a held lock.
LockInv ==
  /\ system \in {"unix", "windows"}
  /\ at \in Inodes \cup {NoFile}
  /\ pc \in [Procs -> {"idle", "opened", "held", "closed"}]
  /\ fd \in [Procs -> Inodes \cup {NoFile}]
  /\ refused \in [Procs -> BOOLEAN]
  /\ \A p \in Procs : fd[p] # NoFile => fd[p] = at
  /\ \A p \in Procs : pc[p] \in {"opened", "held"} <=> fd[p] # NoFile
  /\ system = "windows" => \A p \in Procs : pc[p] # "opened"

LEMMA LockInit == Init => LockInv
  BY SingleAssumption DEF Init, LockInv

\* No step leaves anybody with a file the path does not lead to: on Unix the
\* file stays, on Windows it is removed only when nobody has it open.
LEMMA LockStep == LockInv /\ [Next]_vars => LockInv'
<1> SUFFICES ASSUME LockInv, [Next]_vars PROVE LockInv'
  OBVIOUS
<1> USE DEF LockInv
<1>1. ASSUME NEW p \in Procs, Open(p) PROVE LockInv'
  <2>1. at' \in Inodes /\ (at # NoFile => at' = at)
    BY <1>1, SingleAssumption DEF Open, OpenPath
  <2>2. \A q \in Procs : q # p /\ fd[q] # NoFile => fd[q] = at'
    BY <2>1
  <2> QED
    BY <1>1, <2>1, <2>2, SingleAssumption DEF Open, Goto, OpenPath
<1>2. ASSUME NEW p \in Procs, Flock(p) PROVE LockInv'
  BY <1>2 DEF Flock, Goto, Refuse
<1>3. ASSUME NEW p \in Procs, ReleaseUnix(p) PROVE LockInv'
  BY <1>3 DEF ReleaseUnix, Goto, LeaveFile
<1>4. ASSUME NEW p \in Procs, CreateFile(p) PROVE LockInv'
  <2>1. CASE at # NoFile /\ \E q \in Procs : fd[q] = at
    BY <1>4, <2>1 DEF CreateFile, Goto, Refuse
  <2>2. CASE ~(at # NoFile /\ \E q \in Procs : fd[q] = at)
    <3>1. \A q \in Procs : fd[q] = NoFile
      BY <2>2
    <3>2. at' \in Inodes
      BY <1>4, <2>2, SingleAssumption DEF CreateFile, OpenPath
    <3> QED
      BY <1>4, <2>2, <3>1, <3>2, SingleAssumption DEF CreateFile, Goto, OpenPath
  <2> QED
    BY <2>1, <2>2
<1>5. ASSUME NEW p \in Procs, CloseHandle(p) PROVE LockInv'
  BY <1>5 DEF CloseHandle, Goto
<1>6. ASSUME NEW p \in Procs, Remove(p) PROVE LockInv'
  BY <1>6 DEF Remove, Goto
<1>7. ASSUME NEW p \in Procs, Crash(p) PROVE LockInv'
  BY <1>7 DEF Crash
<1>8. CASE UNCHANGED vars
  BY <1>8 DEF vars
<1> QED
  BY <1>1, <1>2, <1>3, <1>4, <1>5, <1>6, <1>7, <1>8 DEF Next

\* Every file a process has open is the one the path leads to (single.go:37-53).
THEOREM OneFile == Spec => []LockInv
<1> QED
  BY LockInit, LockStep, PTL DEF Spec

\* One process at a time gets the lock, and it is refused only while held: the
\* promise of Acquire (single.go:37-39), whoever dies in between.
THEOREM AcquireExact == Spec => AcquireIsExact
<1> DEFINE Exact == \A p \in Procs :
                      /\ pc[p] # "held" /\ pc'[p] = "held" => Holders = {}
                      /\ ~refused[p] /\ refused'[p] => Holders \ {p} # {}
<1>1. ASSUME LockInv, [Next]_vars PROVE [Exact]_vars
  <2> SUFFICES ASSUME NEW r \in Procs, Next
               PROVE  /\ pc[r] # "held" /\ pc'[r] = "held" => Holders = {}
                      /\ ~refused[r] /\ refused'[r] => Holders \ {r} # {}
    BY <1>1
  <2> USE <1>1 DEF LockInv
  <2>1. ASSUME NEW p \in Procs, Flock(p)
        PROVE  /\ pc[r] # "held" /\ pc'[r] = "held" => Holders = {}
               /\ ~refused[r] /\ refused'[r] => Holders \ {r} # {}
    BY <2>1 DEF Flock, Goto, Refuse, Holders
  <2>2. ASSUME NEW p \in Procs, CreateFile(p)
        PROVE  /\ pc[r] # "held" /\ pc'[r] = "held" => Holders = {}
               /\ ~refused[r] /\ refused'[r] => Holders \ {r} # {}
    <3>1. CASE at # NoFile /\ \E q \in Procs : fd[q] = at
      BY <2>2, <3>1 DEF CreateFile, Goto, Refuse, Holders
    <3>2. CASE ~(at # NoFile /\ \E q \in Procs : fd[q] = at)
      BY <2>2, <3>2 DEF CreateFile, Goto, OpenPath, Holders
    <3> QED
      BY <3>1, <3>2
  <2>3. ASSUME NEW p \in Procs, Open(p) \/ ReleaseUnix(p) \/ CloseHandle(p) \/ Remove(p) \/ Crash(p)
        PROVE  /\ ~(pc[r] # "held" /\ pc'[r] = "held")
               /\ ~(~refused[r] /\ refused'[r])
    BY <2>3 DEF Open, ReleaseUnix, CloseHandle, Remove, Crash, Goto
  <2> QED
    BY <2>1, <2>2, <2>3 DEF Next
<1>2. AcquireIsExact <=> [][Exact]_vars
  BY PTL DEF AcquireIsExact
<1> QED
  BY <1>1, <1>2, OneFile, PTL DEF Spec
=============================================================================
