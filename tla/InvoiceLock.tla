----------------------------- MODULE InvoiceLock -----------------------------
(***************************************************************************)
(* FileInvoiceStore as several gateway processes share its file: the lock  *)
(* file each takes at boot, the Map each then holds in memory, and the     *)
(* file each rewrites wholesale.                                           *)
(*                                                                         *)
(* Boots are taken one file-system call at a time.  A lock file that was   *)
(* unlinked while its creator still had it open is written in vain.        *)
(***************************************************************************)
EXTENDS Integers, FiniteSets

CONSTANTS
  Gateway,    \* slots a process can be started in
  Pid,        \* process ids
  Invoice,    \* the invoices ever issued
  MaxStarts    \* bound: processes ever started

ASSUME PidAssumption == Pid \subseteq Nat \ {0}
ASSUME LockBoundAssumption == MaxStarts \in Nat

VARIABLES
  starts,     \* processes started so far
  pc,        \* where each process is in its constructor, or that it runs
  pid,       \* its process id; 0 = no process
  lock,      \* the lock file: absent, or its creator and the pid written in it
  holder,    \* the pid each process last read in the lock file
  invoices,  \* each process's Map
  file,      \* the invoice file
  issued     \* history: invoices some put has returned for

lockVars == <<starts, pc, pid, lock, holder, invoices, file, issued>>

Absent == [creator |-> "none", pid |-> 0]

Running(g) == pc[g] = "running"
Booting(g) == pc[g] \notin {"down", "running"}

Goto(g, label) == pc' = [pc EXCEPT ![g] = label]

-----------------------------------------------------------------------------
(***************************************************************************)
(* lock and load.                                                          *)
(***************************************************************************)

\* The system picks any pid no live process has.
Start(g) ==
  /\ pc[g] = "down"
  /\ starts < MaxStarts
  /\ starts' = starts + 1
  /\ \E p \in Pid \ {pid[h] : h \in Gateway} : pid' = [pid EXCEPT ![g] = p]
  /\ Goto(g, "create")
  /\ UNCHANGED <<lock, holder, invoices, file, issued>>

\* writeFileSync with the exclusive flag creates the file empty, or finds it.
CreateLock(g) ==
  /\ pc[g] = "create"
  /\ IF lock = Absent
       THEN lock' = [creator |-> g, pid |-> 0] /\ Goto(g, "write")
       ELSE UNCHANGED lock /\ Goto(g, "read")
  /\ UNCHANGED <<starts, pid, holder, invoices, file, issued>>

\* It writes to the file it created, which may have been unlinked since.
WriteLock(g) ==
  /\ pc[g] = "write"
  /\ lock' = IF lock.creator = g THEN [lock EXCEPT !.pid = pid[g]] ELSE lock
  /\ Goto(g, "load")
  /\ UNCHANGED <<starts, pid, holder, invoices, file, issued>>

ProcessDies(g) ==
  /\ Goto(g, "down")
  /\ pid' = [pid EXCEPT ![g] = 0]
  /\ invoices' = [invoices EXCEPT ![g] = {}]
  /\ holder' = [holder EXCEPT ![g] = 0]

\* The lock vanished since: readFileSync throws and the process exits.
ReadNoLock(g) ==
  /\ pc[g] = "read"
  /\ lock = Absent
  /\ ProcessDies(g)
  /\ UNCHANGED <<starts, lock, file, issued>>

ReadLock(g) ==
  /\ pc[g] = "read"
  /\ lock # Absent
  /\ holder' = [holder EXCEPT ![g] = lock.pid]
  /\ Goto(g, "judge")
  /\ UNCHANGED <<starts, pid, lock, invoices, file, issued>>

\* Mutant of Alive: no holder is ever found alive.
AliveNever(p) == FALSE

Alive(p) == p # 0 /\ \E g \in Gateway : pid[g] = p

\* The holder exists: refuse to start.
Refuse(g) ==
  /\ pc[g] = "judge"
  /\ Alive(holder[g])
  /\ ProcessDies(g)
  /\ UNCHANGED <<starts, lock, file, issued>>

JudgeStale(g) ==
  /\ pc[g] = "judge"
  /\ ~Alive(holder[g])
  /\ Goto(g, "reclaim")
  /\ UNCHANGED <<starts, pid, lock, holder, invoices, file, issued>>

\* Mutant of Reclaim: the stale lock stays.
ReclaimNothing(g) ==
  /\ pc[g] = "reclaim"
  /\ Goto(g, "create")
  /\ UNCHANGED <<starts, pid, lock, holder, invoices, file, issued>>

\* rmSync removes whatever lock is there by now, then the loop tries again.
Reclaim(g) ==
  /\ pc[g] = "reclaim"
  /\ lock' = Absent
  /\ Goto(g, "create")
  /\ UNCHANGED <<starts, pid, holder, invoices, file, issued>>

\* Mutant of Load: a new process starts with an empty Map.
LoadNothing(g) ==
  /\ pc[g] = "load"
  /\ Goto(g, "running")
  /\ UNCHANGED <<starts, pid, lock, holder, invoices, file, issued>>

Load(g) ==
  /\ pc[g] = "load"
  /\ invoices' = [invoices EXCEPT ![g] = file]
  /\ Goto(g, "running")
  /\ UNCHANGED <<starts, pid, lock, holder, file, issued>>

-----------------------------------------------------------------------------
(***************************************************************************)
(* A running store.                                                        *)
(***************************************************************************)

\* put, then persist: the rename swaps the whole file.
Issue(g, invoice) ==
  /\ Running(g)
  /\ invoice \notin issued
  /\ invoices' = [invoices EXCEPT ![g] = @ \cup {invoice}]
  /\ file' = invoices[g] \cup {invoice}
  /\ issued' = issued \cup {invoice}
  /\ UNCHANGED <<starts, pc, pid, lock, holder>>

\* close unlinks the lock path, and the process exits.
Close(g) ==
  /\ Running(g)
  /\ lock' = Absent
  /\ ProcessDies(g)
  /\ UNCHANGED <<starts, file, issued>>

ProcessCrash(g) ==
  /\ pc[g] # "down"
  /\ ProcessDies(g)
  /\ UNCHANGED <<starts, lock, file, issued>>

-----------------------------------------------------------------------------

LockInit ==
  /\ starts = 0
  /\ pc = [g \in Gateway |-> "down"]
  /\ pid = [g \in Gateway |-> 0]
  /\ lock = Absent
  /\ holder = [g \in Gateway |-> 0]
  /\ invoices = [g \in Gateway |-> {}]
  /\ file = {}
  /\ issued = {}

BootStep(g) ==
  \/ CreateLock(g)
  \/ WriteLock(g)
  \/ ReadNoLock(g)
  \/ ReadLock(g)
  \/ Refuse(g)
  \/ JudgeStale(g)
  \/ Reclaim(g)
  \/ Load(g)

Step(g) ==
  \/ BootStep(g)
  \/ \E invoice \in Invoice : Issue(g, invoice)
  \/ Close(g)
  \/ ProcessCrash(g)

LockNext == \E g \in Gateway : Start(g) \/ Step(g)

LockSpec == LockInit /\ [][LockNext]_lockVars

\* No process is started while another one is booting; one may be running.
SerialLockNext ==
  \E g \in Gateway :
    \/ Start(g) /\ \A h \in Gateway : ~Booting(h)
    \/ Step(g)

SerialLockSpec == LockInit /\ [][SerialLockNext]_lockVars

\* A process that is booting keeps executing.
FairLockSpec == SerialLockSpec /\ \A g \in Gateway : WF_lockVars(BootStep(g))

-----------------------------------------------------------------------------
(***************************************************************************)
(* Properties.                                                             *)
(***************************************************************************)

\* One process at most has the store open: as lock says, take an exclusive lock
\* on this store, or refuse to start.
OneStoreOpen == Cardinality({g \in Gateway : Running(g)}) <= 1

\* No invoice a buyer was quoted disappears from the file, through crashes,
\* restarts and refused replicas.
NoInvoiceErased == issued \subseteq file

\* Every boot comes to an end, running or refused, whatever the others do to the
\* lock between its steps: the retry loop of lock never spins for ever.
EveryBootEnds == \A g \in Gateway : Booting(g) ~> ~Booting(g)

=============================================================================
