----------------------- MODULE ProcessControlProofs -----------------------
(***************************************************************************)
(* What holds of the pid files, and what the commands that stop servers    *)
(* keep to, for any number of commands, servers, pid files and events.     *)
(***************************************************************************)
EXTENDS ProcessControl, FiniteSetTheorems, WellFoundedInduction, TLAPS

USE ProcessControlAssumption
USE DEF Pid, Slot, NoPid

(***************************************************************************)
(* The strengthening.  A file names the server that is up on it because a  *)
(* start-up and an unlink pass over it only while nobody is; and a command *)
(* unlinks nobody's file because the pid it has found dead stays dead.     *)
(***************************************************************************)
\* A server that has written its file; the points from which a command unlinks one.
Up == {"serve", "cleanup", "unlink"}
Unlinking == {"unlink stale", "unlink dead", "drop", "unlink"}

\* p is a server of pid file s in one of these states; there has been a server p.
On(p, s, statuses) == server[p].slot = s /\ In(p, statuses)

Known(p) == p \in Pid /\ server[p].status # "none"

\* How many signals a command has sent, and whose pid it holds.
LevelFits(c) ==
    /\ At(c, {"idle"}) => cmd[c] = NoCommand("idle", TRUE)
    /\ ~At(c, {"abort", "signal", "wait"}) => cmd[c].level = 0
    /\ At(c, {"signal"}) => cmd[c].level <= 2

PidFits(c) ==
    /\ cmd[c].pid # NoPid => Known(cmd[c].pid)
    /\ At(c, {"await", "abort", "signal", "wait", "forget", "unlink"}) => cmd[c].pid # NoPid
    /\ At(c, {"forget", "unlink"}) => ~Runs(cmd[c].pid)

\* A pid file names servers only.
NamesKnown == \A s \in Slot : file[s] # NoPid => Known(file[s])

\* Nobody is up on the pid file.
Vacant(s) == \A p \in Pid : ~On(p, s, Up)

\* At most one start-up is under way, and none while a command unlinks the file.
OneStarter(s) == \A p, q \in Pid : On(p, s, Starting) /\ On(q, s, Starting) => p = q

NoneUnlinks(s) ==
    \A c \in Cli : cmd[c].at = s /\ At(c, Unlinking) => \A p \in Pid : ~On(p, s, Starting)

\* Who has passed the check has seen that nobody is up.
SlotFits(s) ==
    /\ \A p \in Pid : On(p, s, Up) => file[s] = p
    /\ \A p \in Pid : On(p, s, {"open", "write"}) => Vacant(s)
    /\ \A p \in Pid : On(p, s, {"write"}) => p \in writers[s]
    /\ \A c \in Cli : cmd[c].at = s /\ At(c, Unlinking) => Vacant(s)

\* The inductive invariant; on files with a race nothing is claimed.
FileInv ==
    /\ TypeOK
    /\ \A c \in Cli : LevelFits(c) /\ PidFits(c)
    /\ NamesKnown
    /\ \A s \in clean : SlotFits(s) /\ OneStarter(s) /\ NoneUnlinks(s)

-----------------------------------------------------------------------------
\* A set of naturals that is not empty has a least member.
LEMMA MinExists ==
    ASSUME NEW S \in SUBSET Nat, S # {}
    PROVE  \E m \in S : \A k \in S : m <= k
<1> DEFINE R == { p \in Nat \X Nat : p[1] < p[2] }
<1>1. IsWellFoundedOn(R, Nat)
  BY NatLessThanWellFounded DEF OpToRel
<1>2. PICK m \in S : \A k \in S : <<k, m>> \notin R
  <2> HIDE DEF R
  <2> QED
    BY <1>1, WFMin
<1>3. \A k \in S : ~(k < m)
  BY <1>2
<1> QED
  BY <1>3

LEMMA MinIn ==
    ASSUME NEW S \in SUBSET Nat, S # {}
    PROVE  Min(S) \in S
  BY MinExists DEF Min

LEMMA MaxIn ==
    ASSUME NEW S \in SUBSET Slot, S # {}
    PROVE  Max(S) \in S
<1> DEFINE T == { Workers - k : k \in S }
<1>1. T \in SUBSET Nat
  OBVIOUS
<1>5. T # {}
  <2>1. PICK k \in S : TRUE
    OBVIOUS
  <2>2. Workers - k \in T
    BY <2>1
  <2> QED
    BY <2>2
<1>2. PICK t \in T : \A k \in T : t <= k
  <2> HIDE DEF T
  <2> QED
    BY <1>1, <1>5, MinExists
<1>3. PICK m \in S : t = Workers - m
  BY <1>2
<1>4. ASSUME NEW k \in S
      PROVE  m >= k
  <2>1. Workers - k \in T
    OBVIOUS
  <2>2. Workers - m <= Workers - k
    BY <2>1, <1>2, <1>3
  <2>3. m \in Int /\ k \in Int /\ Workers \in Int
    OBVIOUS
  <2> HIDE DEF T
  <2> QED
    BY <2>2, <2>3
<1> QED
  BY <1>3, <1>4 DEF Max

\* What Racing, which counts, says in terms of single servers.
RacingIsAll == \A s \in Slot : ~Racing(s) => OneStarter(s) /\ NoneUnlinks(s)

\* On a file without a race there is one starter, and none beside an unlink.
LEMMA NotRacing ==
    TypeOK => RacingIsAll
<1> SUFFICES ASSUME TypeOK, NEW s \in Slot, ~Racing(s)
             PROVE  OneStarter(s) /\ NoneUnlinks(s)
  BY DEF RacingIsAll
<1> DEFINE up == { p \in Pid : server[p].slot = s /\ In(p, Starting) }
<1>1. OneStarter(s)
  <2> SUFFICES ASSUME NEW p \in Pid, NEW q \in Pid, On(p, s, Starting), On(q, s, Starting), p # q
               PROVE  FALSE
    BY DEF OneStarter
  <2>0. p # q
    OBVIOUS
  <2>1. {p, q} \subseteq up /\ up \subseteq Pid
    BY DEF On
  <2>2. IsFiniteSet(up) /\ Cardinality(up) \in Nat
    <3>1. IsFiniteSet(Pid)
      BY FS_Interval
    <3> HIDE DEF up
    <3> QED
      BY <2>1, <3>1, FS_Subset, FS_CardinalityType
  <2>3. Cardinality({p, q}) = 2
    <3>1. IsFiniteSet({p}) /\ Cardinality({p}) = 1 /\ q \notin {p}
      BY <2>0, FS_Singleton
    <3>3. Cardinality({p} \union {q}) = 1 + 1
      BY <3>1, FS_AddElement
    <3>2. {p} \union {q} = {p, q}
      OBVIOUS
    <3> QED
      BY <3>2, <3>3
  <2>4. Cardinality({p, q}) <= Cardinality(up)
    BY <2>1, <2>2, FS_Subset
  <2> QED
    <3>1. Cardinality(up) > 1
      BY <2>2, <2>3, <2>4
    <3> QED
      BY <3>1 DEF Racing
<1>2. NoneUnlinks(s)
  BY DEF NoneUnlinks, Racing, On, Unlinking
<1> QED
  BY <1>1, <1>2

-----------------------------------------------------------------------------
(***************************************************************************)
(* How a step may leave the processes for the invariant to stay: nobody    *)
(* known is forgotten or comes back to life, and what happens on pid file  *)
(* s, if anything, is a spawn, an end, a shutdown or a check that is       *)
(* passed while nobody is up.                                              *)
(***************************************************************************)
\* No process any more.
Dead(q) == q = NoPid \/ ~Runs(q)

\* The life of one process: it is spawned once, and a parent it loses is lost for good.
Ages(p) ==
    \/ server[p].status = "none" /\ (server'[p] = server[p] \/ In(p, {"check"})')
    \/ /\ server[p].status # "none" /\ server'[p].status # "none"
       /\ server'[p].parent \in {server[p].parent, NoCli}
       /\ Runs(p)' => /\ Runs(p) /\ (In(p, Up) => In(p, Up)')
                      /\ server'[p].slot = server[p].slot
                      /\ server'[p].parent = server[p].parent

\* What may happen to a process on pid file s while the file keeps naming who is up.
Moves(p, s) ==
    \/ server'[p] = server[p]
    \/ ~Runs(p)'
    \/ server'[p].slot # s
    \/ In(p, {"check"})'
    \/ On(p, s, Up) /\ In(p, Up)'
    \/ On(p, s, {"check"}) /\ In(p, {"open"})' /\ Dead(file[s])

\* A command that goes to unlink a file has found it empty or its process dead.
Turns(c, s) ==
    \/ cmd'[c] = cmd[c]
    \/ ~(cmd'[c].at = s /\ At(c, Unlinking)')
    \/ Dead(file[s])

\* The file may change at will only while nobody uses it.
Unused(s) == \A p \in Pid : ~On(p, s, Running)

Keeps(s) ==
    /\ \A p \in Pid : Moves(p, s)
    /\ \A c \in Cli : Turns(c, s)
    /\ (file'[s] = file[s] /\ writers'[s] = writers[s]) \/ Unused(s)

LEMMA KeepsSlot ==
    ASSUME TypeOK, TypeOK', NEW s \in Slot, SlotFits(s), Keeps(s)
    PROVE  SlotFits(s)'
<1> USE DEF TypeOK
<1>1. ASSUME NEW p \in Pid, On(p, s, Up)'
      PROVE  On(p, s, Up)
  BY <1>1 DEF Keeps, Moves, On, In, Up, Runs, Running, Starting
<1>2. Vacant(s) => Vacant(s)'
  BY <1>1 DEF Vacant
<1>3. Dead(file[s]) => Vacant(s)
  BY DEF SlotFits, Vacant, Dead, On, In, Up, Runs, Running
<1>4. ASSUME NEW p \in Pid, On(p, s, Up)'
      PROVE  file'[s] = p
  BY <1>1, <1>4 DEF Keeps, SlotFits, Unused, On, In, Up, Running
<1>5. ASSUME NEW p \in Pid, On(p, s, {"open", "write"})'
      PROVE  Vacant(s)'
  <2>1. On(p, s, {"open", "write"}) \/ Dead(file[s])
    BY <1>5 DEF Keeps, Moves, On, In, Up, Runs, Running, Starting
  <2> QED
    BY <2>1, <1>2, <1>3 DEF SlotFits
<1>6. ASSUME NEW p \in Pid, On(p, s, {"write"})'
      PROVE  p \in writers'[s]
  <2>1. On(p, s, {"write"})
    BY <1>6 DEF Keeps, Moves, On, In, Up, Runs, Running, Starting
  <2> QED
    BY <2>1 DEF SlotFits, Keeps, Unused, On, In, Running, Starting
<1>7. ASSUME NEW c \in Cli, cmd'[c].at = s, At(c, Unlinking)'
      PROVE  Vacant(s)'
  BY <1>2, <1>3, <1>7 DEF Keeps, Turns, SlotFits, At
<1> QED
  BY <1>4, <1>5, <1>6, <1>7 DEF SlotFits

-----------------------------------------------------------------------------
ServerTable == [Pid -> [status: Status, slot: Slot, parent: Cli \union {NoCli}]]

\* The part of the invariant that is about one command.
Fits(c) == LevelFits(c) /\ PidFits(c)

\* What a step leaves apart from the files.
Settles ==
    /\ server' \in ServerTable
    /\ cmd' \in [Cli -> Command]
    /\ redis' \in {"none", "created", "running", "exited"}
    /\ redisBy' \in Cli \union {NoCli}
    /\ events' \in 0 .. MaxEvents
    /\ \A p \in Pid : Ages(p)
    /\ \A c \in Cli : cmd'[c] = cmd[c] \/ Fits(c)'

LEMMA RememberType ==
    ASSUME TypeOK, Remember
    PROVE  /\ clean' \subseteq clean /\ clean' \subseteq Slot
           /\ found' \in [Cli -> SUBSET Pid]
           /\ missed' \subseteq Pid
           /\ \A s \in clean' : ~Racing(s)'
<1>1. clean' = clean \ { s \in Slot : Racing(s)' } /\ clean \subseteq Slot
  BY DEF Remember, TypeOK
<1>2. \A c \in Cli : found[c] \in SUBSET Pid
  BY DEF TypeOK
<1>3. found' \in [Cli -> SUBSET Pid]
  BY <1>2 DEF Remember
<1>4. missed' \subseteq Pid
  BY DEF Remember
<1> QED
  BY <1>1, <1>3, <1>4

\* A step that settles and does no harm to a file, or restores it, keeps the invariant.
LEMMA StepKeeps ==
    ASSUME FileInv, Remember, Settles,
           file' \in [Slot -> Pid \union {NoPid}],
           writers' \in [Slot -> SUBSET Pid],
           \A s \in Slot : \/ file'[s] \in {NoPid, file[s]}
                           \/ file'[s] \in { p \in Pid : server'[p].status # "none" },
           \A s \in clean' : Keeps(s) \/ SlotFits(s)'
    PROVE  FileInv'
<1>1. TypeOK'
  BY RememberType DEF FileInv, Settles, TypeOK, ServerTable
<1>2. ASSUME NEW c \in Cli
      PROVE  LevelFits(c)' /\ PidFits(c)'
  <2>1. CASE cmd'[c] = cmd[c]
    <3>1. LevelFits(c)'
      BY <2>1 DEF FileInv, LevelFits, At, NoCommand
    <3>2. cmd[c].pid # NoPid => Ages(cmd[c].pid)
      BY DEF Settles, FileInv, TypeOK, Command
    <3>3. PidFits(c)'
      BY <2>1, <3>2 DEF FileInv, PidFits, At, Known, Ages, Settles
    <3> QED
      BY <3>1, <3>3
  <2>2. CASE Fits(c)'
    BY <2>2 DEF Fits
  <2> QED
    BY <2>1, <2>2 DEF Settles
<1>3. NamesKnown'
  <2>1. ASSUME NEW s \in Slot, file'[s] = file[s], file[s] # NoPid
        PROVE  file[s] \in Pid /\ server'[file[s]].status # "none"
    BY <2>1 DEF FileInv, NamesKnown, Known, Settles, Ages
  <2> QED
    BY <2>1 DEF NamesKnown, Known
<1>4. ASSUME NEW s \in clean'
      PROVE  SlotFits(s)' /\ OneStarter(s)' /\ NoneUnlinks(s)'
  <2>1. s \in Slot /\ s \in clean /\ ~Racing(s)'
    BY RememberType DEF FileInv
  <2>2. OneStarter(s)' /\ NoneUnlinks(s)'
    <3>1. RacingIsAll'
      BY <1>1, NotRacing, PTL
    <3> QED
      BY <2>1, <3>1 DEF RacingIsAll
  <2>3. SlotFits(s)'
    BY <1>1, <2>1, KeepsSlot DEF FileInv
  <2> QED
    BY <2>2, <2>3
<1> QED
  BY <1>1, <1>2, <1>3, <1>4 DEF FileInv

-----------------------------------------------------------------------------
\* The processes: what the steps do to the table leaves Ages and Moves true.
ServerSettles ==
    /\ server' \in ServerTable
    /\ \A p \in Pid : Ages(p) /\ \A s \in Slot : Moves(p, s)

LEMMA SameSettles ==
    ASSUME TypeOK, UNCHANGED server
    PROVE  ServerSettles
<1>1. server' \in ServerTable
  BY DEF TypeOK, ServerTable
<1>2. \A p \in Pid : Ages(p) /\ \A s \in Slot : Moves(p, s)
  BY DEF Ages, Moves, Runs, In
<1> QED
  BY <1>1, <1>2 DEF ServerSettles

LEMMA ReapSettles ==
    ASSUME TypeOK, NEW c \in Cli, server' = Reaped(c)
    PROVE  ServerSettles
<1>1. \A p \in Pid : server'[p] = server[p]
                        \/ (server[p].status = "zombie" /\ server'[p] = NoServer("gone"))
  BY DEF Reaped
<1>2. server' \in ServerTable
  BY <1>1 DEF Reaped, TypeOK, ServerTable, NoServer, Status
<1>3. \A p \in Pid : Ages(p) /\ \A s \in Slot : Moves(p, s)
  BY <1>1 DEF Ages, Moves, Runs, In, NoServer, Running, Starting
<1> QED
  BY <1>2, <1>3 DEF ServerSettles

LEMMA EndedIsOver == \A p : Ended(p) \in {"zombie", "gone"}
  BY DEF Ended

LEMMA StatusSettles ==
    ASSUME TypeOK, NEW p \in Pid, NEW st, SetStatus(p, st),
           \/ st = server[p].status
           \/ st \in {"killed", "zombie", "gone"} /\ ~In(p, {"none"})
           \/ In(p, Up) /\ st \in Up
           \/ In(p, {"check"}) /\ st = "open" /\ Dead(file[server[p].slot])
    PROVE  ServerSettles
<1> DEFINE new == IF st = "gone" THEN NoServer(st) ELSE [server[p] EXCEPT !.status = st]
<1>1. server \in ServerTable
  BY DEF TypeOK, ServerTable
<1>2. server' = [server EXCEPT ![p] = new]
  BY DEF SetStatus
<1>3. new \in [status: Status, slot: Slot, parent: Cli \union {NoCli}]
  BY <1>1 DEF ServerTable, NoServer, Status, Running, Starting, In, Up
<1>4. server' \in ServerTable
  <2> HIDE DEF new
  <2> QED
    BY <1>1, <1>2, <1>3 DEF ServerTable
<1>5. /\ server'[p] = new
      /\ \A q \in Pid \ {p} : server'[q] = server[q]
  <2> HIDE DEF new
  <2> QED
    BY <1>1, <1>2 DEF ServerTable
<1>6. /\ new.status = st /\ new.parent \in {server[p].parent, NoCli}
      /\ st # "gone" => new.slot = server[p].slot /\ new.parent = server[p].parent
      /\ st = server[p].status /\ st # "gone" => new = server[p]
  BY <1>1 DEF ServerTable, NoServer
<1>7. Ages(p)
  <2> HIDE DEF new
  <2>1. CASE st = server[p].status
    BY <1>5, <1>6, <2>1 DEF Ages, Runs, In, Running, Starting
  <2>2. CASE st \in {"killed", "zombie", "gone"} /\ ~In(p, {"none"})
    BY <1>5, <1>6, <2>2 DEF Ages, Runs, In, Running, Starting
  <2>3. CASE In(p, Up) /\ st \in Up
    BY <1>5, <1>6, <2>3 DEF Ages, Runs, In, Running, Starting, Up
  <2>4. CASE In(p, {"check"}) /\ st = "open"
    BY <1>5, <1>6, <2>4 DEF Ages, Runs, In, Running, Starting, Up
  <2> QED
    BY <2>1, <2>2, <2>3, <2>4
<1>8. ASSUME NEW s \in Slot
      PROVE  Moves(p, s)
  <2>1. CASE st = server[p].status
    <3>1. st # "gone" => new = server[p]
      BY <1>1, <2>1 DEF ServerTable
    <3>2. st = "gone" => ~Runs(p)'
      BY <1>5, <1>6 DEF Runs, In, Running, Starting
    <3> QED
      BY <1>5, <3>1, <3>2 DEF Moves
  <2>2. CASE st # server[p].status
    <3> HIDE DEF new
    <3> QED
      BY <2>2, <1>5, <1>6 DEF Moves, On, Runs, In, Running, Starting, Up
  <2> QED
    BY <2>1, <2>2
<1>9. \A q \in Pid \ {p} : Ages(q) /\ \A s \in Slot : Moves(q, s)
  BY <1>5 DEF Ages, Moves, Runs, In
<1> QED
  BY <1>4, <1>7, <1>8, <1>9 DEF ServerSettles

LEMMA SignalSettles ==
    ASSUME TypeOK, NEW c, NEW p \in Pid, NEW level, NEW st \in Signalled(c, p, level),
           SetStatus(p, st)
    PROVE  ServerSettles
<1>1. \/ st = server[p].status
      \/ st \in {"killed", "zombie", "gone"} /\ ~In(p, {"none"})
      \/ In(p, Up) /\ st \in Up
  BY EndedIsOver DEF Signalled, Delivered, Runs, In, Running, Starting, Up
<1> QED
  BY <1>1, StatusSettles

LEMMA FreePidIn ==
    ASSUME FreePid # {}
    PROVE  Min(FreePid) \in FreePid
  BY MinIn DEF FreePid

\* Spawning takes a pid nobody has had.
LEMMA SpawnSettles ==
    ASSUME TypeOK, FreePid # {}, NEW s \in Slot, NEW parent \in Cli \union {NoCli},
           \/ server' = Spawned(server, s, parent)
           \/ parent \in Cli /\ server' = Spawned(Reaped(parent), s, parent)
    PROVE  ServerSettles /\ server'[Min(FreePid)].status = "check"
<1>1. Min(FreePid) \in Pid /\ server[Min(FreePid)].status = "none"
  BY FreePidIn DEF FreePid
<1>2. PICK t : /\ server' = Spawned(t, s, parent)
               /\ t = server \/ (parent \in Cli /\ t = Reaped(parent))
  OBVIOUS
<1>3. /\ t \in ServerTable
      /\ \A q \in Pid : t[q] = server[q] \/ (server[q].status = "zombie" /\ t[q] = NoServer("gone"))
  BY <1>2 DEF Reaped, TypeOK, ServerTable, NoServer, Status
<1>4. { q \in Pid : t[q].status = "none" } = FreePid
  BY <1>3 DEF FreePid, NoServer
<1> DEFINE new == [status |-> "check", slot |-> s, parent |-> parent]
<1>5. server' = [t EXCEPT ![Min(FreePid)] = new]
  BY <1>2, <1>4 DEF Spawned
<1>6. new \in [status: Status, slot: Slot, parent: Cli \union {NoCli}]
  BY DEF Status, Running, Starting
<1>7. server' \in ServerTable
  <2> HIDE DEF new
  <2> QED
    BY <1>3, <1>5, <1>6 DEF ServerTable
<1>8. /\ server'[Min(FreePid)] = new
      /\ \A q \in Pid \ {Min(FreePid)} : server'[q] = t[q]
  <2> HIDE DEF new
  <2> QED
    BY <1>1, <1>3, <1>5 DEF ServerTable
<1>9. ASSUME NEW q \in Pid
      PROVE  Ages(q) /\ \A z \in Slot : Moves(q, z)
  <2>1. CASE q = Min(FreePid)
    BY <1>1, <1>8, <2>1 DEF Ages, Moves, In
  <2>2. CASE q # Min(FreePid)
    BY <1>3, <1>8, <2>2 DEF Ages, Moves, Runs, In, NoServer, Running, Starting
  <2> QED
    BY <2>1, <2>2
<1> QED
  BY <1>7, <1>8, <1>9 DEF ServerSettles

-----------------------------------------------------------------------------
\* The commands: what a step of c leaves when it keeps its own part true.
Others(c) ==
    /\ cmd' \in [Cli -> Command]
    /\ \A d \in Cli \ {c} : cmd'[d] = cmd[d]

\* A step of c keeps its own part, does no harm to a process, and turns to stale files only.
Done(c) ==
    /\ Others(c)
    /\ Fits(c)'
    /\ ServerSettles
    /\ At(c, Unlinking)' => Dead(file[cmd'[c].at])

Outside ==
    /\ redis' \in {"none", "created", "running", "exited"}
    /\ redisBy' \in Cli \union {NoCli}
    /\ events' \in 0 .. MaxEvents

LEMMA OutsideSame ==
    ASSUME TypeOK, UNCHANGED <<redis, redisBy, events>>
    PROVE  Outside
  BY DEF TypeOK, Outside

\* The pid files stay, or one that c has found empty or stale is unlinked.
FilesStay(c) ==
    \/ UNCHANGED <<file, writers>>
    \/ At(c, Unlinking) /\ Unlinked(cmd[c].at)

LEMMA CommandKeeps ==
    ASSUME FileInv, Remember, NEW c \in Cli, Done(c), Outside, FilesStay(c)
    PROVE  FileInv'
<1>1. Settles
  BY DEF Settles, Done, Others, Outside, ServerSettles
<1>2. /\ file' \in [Slot -> Pid \union {NoPid}]
      /\ writers' \in [Slot -> SUBSET Pid]
      /\ \A s \in Slot : file'[s] \in {NoPid, file[s]}
  BY DEF FilesStay, Unlinked, FileInv, TypeOK
<1>3. ASSUME NEW s \in clean'
      PROVE  Keeps(s)
  <2>1. s \in Slot /\ s \in clean
    BY RememberType DEF FileInv
  <2>2. \A p \in Pid : Moves(p, s)
    BY <2>1 DEF Done, ServerSettles
  <2>3. \A d \in Cli : Turns(d, s)
    BY DEF Done, Others, Turns
  <2>4. CASE UNCHANGED <<file, writers>>
    BY <2>2, <2>3, <2>4 DEF Keeps
  <2>5. CASE At(c, Unlinking) /\ Unlinked(cmd[c].at) /\ cmd[c].at # s
    <3>1. file'[s] = file[s] /\ writers'[s] = writers[s]
      BY <2>1, <2>5 DEF Unlinked, FileInv, TypeOK
    <3> QED
      BY <2>2, <2>3, <3>1 DEF Keeps
  <2>6. CASE At(c, Unlinking) /\ cmd[c].at = s
    <3>1. Vacant(s) /\ \A p \in Pid : ~On(p, s, Starting)
      BY <2>1, <2>6 DEF FileInv, SlotFits, NoneUnlinks
    <3>2. Unused(s)
      BY <3>1 DEF Unused, Vacant, On, In, Running, Up
    <3> QED
      BY <2>2, <2>3, <3>2 DEF Keeps
  <2> QED
    BY <2>4, <2>5, <2>6 DEF FilesStay
<1> QED
  BY <1>1, <1>2, <1>3, StepKeeps

\* A known pid stays known, and dead if it is.
LEMMA KnownStays ==
    ASSUME TypeOK, ServerSettles, NEW p \in Pid, Known(p)
    PROVE  server'[p].status # "none" /\ (~Runs(p) => ~Runs(p)')
  BY DEF Known, ServerSettles, Ages

\* The command of c afterwards, for the steps that assign some of its fields.
LEMMA NewCommand ==
    ASSUME TypeOK, NEW c \in Cli, NEW x \in Command, cmd' = [cmd EXCEPT ![c] = x]
    PROVE  Others(c) /\ cmd'[c] = x
  BY DEF TypeOK, Others

\* What a command is reset to.
LEMMA Zero ==
    0 \in Slot /\ NoPid \in Pid \union {NoPid} /\ 0 \in 0 .. 3 /\ {} \in SUBSET Slot
  OBVIOUS

LEMMA PointsAre == {"ended", "next"} \subseteq Point
  BY DEF Point

LEMMA ExitDone ==
    ASSUME FileInv, NEW c \in Cli, NEW ok \in BOOLEAN, Exit(c, ok)
    PROVE  Done(c)
<1> DEFINE x == NoCommand("ended", ok)
<1>1. x \in Command
  BY Zero, PointsAre DEF NoCommand, Command, Op
<1>2. cmd' = [cmd EXCEPT ![c] = x] /\ server' = Reaped(c)
  BY DEF Exit
<1>3. TypeOK
  BY DEF FileInv
<1>4. Others(c) /\ cmd'[c] = x
  <2> HIDE DEF x
  <2> QED
    BY <1>1, <1>2, <1>3, NewCommand
<1>5. Fits(c)' /\ ~At(c, Unlinking)'
  BY <1>4 DEF Fits, LevelFits, PidFits, At, NoCommand, Unlinking
<1> QED
  BY <1>2, <1>3, <1>4, <1>5, ReapSettles DEF Done

LEMMA FailDone ==
    ASSUME FileInv, NEW c \in Cli, Fail(c)
    PROVE  Done(c)
<1> DEFINE x == [cmd[c] EXCEPT !.point = "next", !.ok = FALSE, !.pid = NoPid, !.level = 0]
<1>1. CASE cmd[c].op = "up"
  <2>1. cmd' = [cmd EXCEPT ![c] = x] /\ server' = Reaped(c)
    BY <1>1 DEF Fail, FileInv, TypeOK
  <2>2. TypeOK /\ cmd[c] \in Command
    BY DEF FileInv, TypeOK
  <2>3. /\ x \in Command
        /\ x.point = "next" /\ x.pid = NoPid /\ x.level = 0
    BY <2>2, Zero, PointsAre DEF Command
  <2>4. Others(c) /\ cmd'[c] = x
    <3> HIDE DEF x
    <3> QED
      BY <2>1, <2>2, <2>3, NewCommand
  <2>5. Fits(c)' /\ ~At(c, Unlinking)'
    <3> HIDE DEF x
    <3> QED
      BY <2>3, <2>4 DEF Fits, LevelFits, PidFits, At, Unlinking
  <2> QED
    BY <2>1, <2>2, <2>4, <2>5, ReapSettles DEF Done
<1>2. CASE cmd[c].op # "up"
  <2>1. Exit(c, FALSE)
    BY <1>2 DEF Fail
  <2> QED
    BY <2>1, ExitDone
<1> QED
  BY <1>1, <1>2

\* The points at which a command has sent no signal and holds no pid it relies on.
Plain == Point \ {"idle", "await", "abort", "signal", "wait", "forget", "unlink"}

\* A command goes on, with no signal sent; a pid it keeps or takes is known.
LEMMA GoesDone ==
    ASSUME FileInv, NEW c \in Cli, NEW x \in Command, cmd' = [cmd EXCEPT ![c] = x],
           ServerSettles, x.point \in Plain, x.level = 0, x.pid \in {NoPid, cmd[c].pid},
           x.point \in Unlinking => Dead(file[x.at])
    PROVE  Done(c)
<1>1. TypeOK
  BY DEF FileInv
<1>2. Others(c) /\ cmd'[c] = x
  BY <1>1, NewCommand
<1>3. LevelFits(c)'
  BY <1>2 DEF LevelFits, At, Plain
<1>4. x.pid # NoPid => server'[x.pid].status # "none" /\ x.pid \in Pid
  BY <1>1, KnownStays DEF FileInv, PidFits, Known
<1>5. PidFits(c)'
  BY <1>2, <1>4 DEF PidFits, At, Plain, Known
<1> QED
  BY <1>2, <1>3, <1>5 DEF Done, Fits, At

LEMMA GoToDone ==
    ASSUME FileInv, NEW c \in Cli, NEW point \in Plain, GoTo(c, point), ServerSettles,
           cmd[c].level = 0, point \in Unlinking => Dead(file[cmd[c].at])
    PROVE  Done(c)
<1> DEFINE x == [cmd[c] EXCEPT !.point = point]
<1>1. cmd[c] \in Command /\ point \in Point
  BY DEF FileInv, TypeOK, Plain
<1>2. cmd' = [cmd EXCEPT ![c] = x]
  BY DEF GoTo, FileInv, TypeOK
<1>3. /\ x \in Command
      /\ x.point = point /\ x.level = 0 /\ x.pid = cmd[c].pid /\ x.at = cmd[c].at
  BY <1>1 DEF Command
<1> HIDE DEF x
<1> QED
  BY <1>2, <1>3, GoesDone

\* The same for the points at which a command deals with a process.
LEMMA HoldsDone ==
    ASSUME FileInv, NEW c \in Cli, NEW x \in Command, cmd' = [cmd EXCEPT ![c] = x],
           ServerSettles, Known(x.pid),
           x.point \in {"abort", "signal", "wait", "forget", "unlink"},
           x.point = "signal" => x.level <= 2,
           x.point \in {"forget", "unlink"} =>
               x.level = 0 /\ server'[x.pid].status \notin Running,
           x.point = "unlink" => Dead(file[x.at])
    PROVE  Done(c)
<1>1. TypeOK
  BY DEF FileInv
<1>2. Others(c) /\ cmd'[c] = x
  BY <1>1, NewCommand
<1>3. LevelFits(c)'
  BY <1>2 DEF LevelFits, At
<1>4. server'[x.pid].status # "none" /\ x.pid \in Pid
  BY <1>1, KnownStays DEF Known
<1>5. PidFits(c)'
  BY <1>2, <1>4 DEF PidFits, At, Known, Runs, In
<1> QED
  BY <1>2, <1>3, <1>5 DEF Done, Fits, At, Unlinking

LEMMA StopReturnsDone ==
    ASSUME FileInv, NEW c \in Cli, NEW stopped \in BOOLEAN, NEW exists \in BOOLEAN,
           StopReturns(c, stopped, exists)
    PROVE  Done(c)
<1>1. CASE Single(c)
  <2>1. Exit(c, stopped)
    BY <1>1 DEF StopReturns
  <2> QED
    BY <2>1, ExitDone
<1>2. CASE ~Single(c)
  <2> DEFINE fine == cmd[c].ok /\ (stopped \/ cmd[c].at = 0 \/ ~exists)
             x == [cmd[c] EXCEPT !.point = "next", !.pid = NoPid, !.level = 0, !.ok = fine]
  <2>1. cmd[c] \in Command /\ fine \in BOOLEAN /\ TypeOK
    BY DEF FileInv, TypeOK
  <2>2. cmd' = [cmd EXCEPT ![c] = x] /\ UNCHANGED server
    BY <1>2 DEF StopReturns, FileInv, TypeOK
  <2> HIDE DEF fine
  <2>3. /\ x \in Command
        /\ x.point = "next" /\ x.level = 0 /\ x.pid = NoPid
    BY <2>1, Zero, PointsAre DEF Command
  <2>4. ServerSettles
    BY <2>1, <2>2, SameSettles
  <2>5. x.point \in Plain /\ x.point \notin Unlinking
    BY <2>3 DEF Plain, Point, Unlinking
  <2> HIDE DEF x
  <2> QED
    BY <2>2, <2>3, <2>4, <2>5, GoesDone
<1> QED
  BY <1>1, <1>2

LEMMA PrecheckedDone ==
    ASSUME FileInv, NEW c \in Cli, Prechecked(c), UNCHANGED server, cmd[c].level = 0
    PROVE  Done(c)
<1> DEFINE x == IF cmd[c].at < Workers
                THEN [cmd[c] EXCEPT !.at = cmd[c].at + 1, !.point = "precheck"]
                ELSE [cmd[c] EXCEPT !.at = 0, !.point = "inspect"]
<1>1. cmd[c] \in Command /\ TypeOK
  BY DEF FileInv, TypeOK
<1>2. cmd' = [cmd EXCEPT ![c] = x]
  <2>1. CASE cmd[c].at < Workers
    BY <2>1 DEF Prechecked
  <2>2. CASE ~(cmd[c].at < Workers)
    BY <2>2 DEF Prechecked
  <2> QED
    BY <2>1, <2>2
<1>3. cmd[c].at < Workers => cmd[c].at + 1 \in Slot
  BY <1>1 DEF Command
<1>4. {"precheck", "inspect"} \subseteq Plain \ Unlinking /\ Plain \subseteq Point
  BY DEF Plain, Point, Unlinking
<1>5. /\ x \in Command
      /\ x.level = 0 /\ x.pid = cmd[c].pid
      /\ x.point \in {"precheck", "inspect"}
  BY <1>1, <1>3, <1>4, Zero DEF Command
<1>6. ServerSettles
  BY <1>1, SameSettles
<1> HIDE DEF x
<1> QED
  BY <1>2, <1>4, <1>5, <1>6, GoesDone

-----------------------------------------------------------------------------
\* Each step of a command, one by one.
StepOK(c) == Done(c) /\ FilesStay(c) /\ Outside

LEMMA AliveOrDead == \A q : ~IsProcessAlive(q) => Dead(q)
  BY DEF IsProcessAlive, Dead, Runs, In

LEMMA LevelIsZero ==
    ASSUME FileInv, NEW c \in Cli, ~At(c, {"abort", "signal", "wait"})
    PROVE  cmd[c].level = 0
  BY DEF FileInv, LevelFits

LEMMA PlainPoints ==
    /\ {"precheck", "inspect", "run", "boot", "ready", "ensure", "spawn", "next", "read",
        "remove", "rm"} \subseteq Plain \ Unlinking
    /\ {"unlink stale", "unlink dead", "drop"} \subseteq Plain
    /\ Plain \subseteq Point
  BY DEF Plain, Point, Unlinking

LEMMA BeginStep ==
    ASSUME FileInv, NEW c \in Cli, UNCHANGED events, NEW o \in Op, NEW s \in Slot,
           NEW point \in {"precheck", "inspect", "ensure", "read"},
           Begin(c, o, s, point)
    PROVE  StepOK(c)
<1> DEFINE x == [cmd[c] EXCEPT !.op = o, !.at = s, !.point = point]
<1>1. cmd[c] \in Command /\ TypeOK /\ point \in Point
  BY PlainPoints DEF FileInv, TypeOK
<1>2. cmd' = [cmd EXCEPT ![c] = x]
  BY DEF Begin, FileInv, TypeOK
<1>3. At(c, {"idle"}) /\ UNCHANGED <<file, writers, server, redis, redisBy>>
  BY DEF Begin, fileVars, redisVars
<1>4. cmd[c].level = 0
  BY <1>3, LevelIsZero DEF At
<1>5. x \in Command /\ x.level = 0 /\ x.pid = cmd[c].pid /\ x.point = point
  BY <1>1, <1>4 DEF Command
<1>6. ServerSettles
  BY <1>1, <1>3, SameSettles
<1>7. Done(c)
  <2> HIDE DEF x
  <2> QED
    BY <1>2, <1>5, <1>6, PlainPoints, GoesDone
<1> QED
  BY <1>1, <1>3, <1>7, OutsideSame DEF StepOK, FilesStay

LEMMA InfraDownStep ==
    ASSUME FileInv, NEW c \in Cli, UNCHANGED events, InfraDown(c)
    PROVE  StepOK(c)
<1> DEFINE all == {0} \union { s \in 1 .. Workers : Exists(s) }
           x == [cmd[c] EXCEPT !.op = "down", !.point = "next", !.todo = all]
<1>1. cmd[c] \in Command /\ TypeOK
  BY DEF FileInv, TypeOK
<1>2. cmd' = [cmd EXCEPT ![c] = x]
  BY DEF InfraDown, FileInv, TypeOK
<1>3. At(c, {"idle"}) /\ UNCHANGED <<file, writers, server, redis, redisBy>>
  BY DEF InfraDown, fileVars, redisVars
<1>4. cmd[c].level = 0
  BY <1>3, LevelIsZero DEF At
<1>5. all \in SUBSET Slot /\ "down" \in Op
  <2>1. { s \in 1 .. Workers : Exists(s) } \subseteq Slot
    OBVIOUS
  <2> QED
    BY <2>1, Zero DEF Op
<1>6. x \in Command /\ x.level = 0 /\ x.pid = cmd[c].pid /\ x.point = "next"
  <2> HIDE DEF all
  <2> QED
    BY <1>1, <1>4, <1>5, PointsAre DEF Command
<1>7. ServerSettles
  BY <1>1, <1>3, SameSettles
<1>8. Done(c)
  <2> HIDE DEF x
  <2> QED
    BY <1>2, <1>6, <1>7, PlainPoints, GoesDone
<1> QED
  BY <1>1, <1>3, <1>8, OutsideSame DEF StepOK, FilesStay

LEMMA PrecheckStep ==
    ASSUME FileInv, NEW c \in Cli, UNCHANGED events, Precheck(c)
    PROVE  StepOK(c)
<1> DEFINE s == cmd[c].at
<1>1. TypeOK /\ UNCHANGED <<file, writers, redis, redisBy>>
  BY DEF Precheck, FileInv, fileVars, redisVars
<1>2. cmd[c].level = 0
  BY LevelIsZero DEF Precheck, At
<1>3. ASSUME Exit(c, FALSE)
      PROVE  Done(c)
  BY <1>3, ExitDone
<1>4. ASSUME ~IsProcessAlive(file[s]) /\ GoTo(c, "unlink stale") /\ UNCHANGED server
      PROVE  Done(c)
  BY <1>1, <1>2, <1>4, PlainPoints, AliveOrDead, SameSettles, GoToDone
<1>5. ASSUME Prechecked(c) /\ UNCHANGED server
      PROVE  Done(c)
  BY <1>2, <1>5, PrecheckedDone
<1>6. Done(c)
  BY <1>3, <1>4, <1>5 DEF Precheck
<1> QED
  BY <1>1, <1>6, OutsideSame DEF StepOK, FilesStay

LEMMA UnlinkStaleStep ==
    ASSUME FileInv, NEW c \in Cli, UNCHANGED events, UnlinkStale(c)
    PROVE  StepOK(c)
<1>1. TypeOK /\ UNCHANGED <<redis, redisBy>> /\ cmd[c].level = 0
  BY LevelIsZero DEF UnlinkStale, FileInv, redisVars, At
<1>2. Done(c)
  BY <1>1, PrecheckedDone DEF UnlinkStale
<1> QED
  BY <1>1, <1>2, OutsideSame DEF StepOK, FilesStay, UnlinkStale, At, Unlinking

LEMMA InspectStep ==
    ASSUME FileInv, NEW c \in Cli, UNCHANGED events, Inspect(c)
    PROVE  StepOK(c)
<1>1. TypeOK /\ UNCHANGED <<file, writers, redis, redisBy>>
  BY DEF Inspect, FileInv, fileVars, redisVars
<1>2. cmd[c].level = 0
  BY LevelIsZero DEF Inspect, At
<1>3. ASSUME \E ok \in BOOLEAN : Exit(c, ok)
      PROVE  Done(c)
  BY <1>3, ExitDone
<1>4. ASSUME \E point \in {"run", "remove"} : GoTo(c, point) /\ server' = Reaped(c)
      PROVE  Done(c)
  <2>1. PICK point \in {"run", "remove"} : GoTo(c, point) /\ server' = Reaped(c)
    BY <1>4
  <2>2. ServerSettles
    BY <1>1, <2>1, ReapSettles
  <2> QED
    BY <1>2, <2>1, <2>2, PlainPoints, GoToDone
<1>5. (cmd[c].op = "redis start") \in BOOLEAN
  OBVIOUS
<1>6. Done(c)
  BY <1>3, <1>4, <1>5 DEF Inspect
<1> QED
  BY <1>1, <1>6, OutsideSame DEF StepOK, FilesStay

LEMMA DockerRunStep ==
    ASSUME FileInv, NEW c \in Cli, UNCHANGED events, DockerRun(c)
    PROVE  StepOK(c)
<1>1. TypeOK /\ UNCHANGED <<file, writers>>
  BY DEF DockerRun, FileInv, fileVars
<1>2. cmd[c].level = 0
  BY LevelIsZero DEF DockerRun, At
<1>3. CASE Fail(c) /\ UNCHANGED redisVars
  BY <1>1, <1>3, FailDone, OutsideSame DEF StepOK, FilesStay, redisVars
<1>4. CASE redis' = "created" /\ redisBy' = c /\ GoTo(c, "boot") /\ server' = Reaped(c)
  <2>1. Outside
    BY <1>1, <1>4 DEF Outside, TypeOK
  <2>2. ServerSettles
    BY <1>1, <1>4, ReapSettles
  <2>3. Done(c)
    BY <1>2, <1>4, <2>2, PlainPoints, GoToDone
  <2> QED
    BY <1>1, <2>1, <2>3 DEF StepOK, FilesStay
<1> QED
  BY <1>3, <1>4 DEF DockerRun

LEMMA DockerBootStep ==
    ASSUME FileInv, NEW c \in Cli, UNCHANGED events, DockerBoot(c)
    PROVE  StepOK(c)
<1>1. TypeOK /\ UNCHANGED <<file, writers, redisBy>> /\ cmd[c] \in Command
  BY DEF DockerBoot, FileInv, fileVars, TypeOK
<1>2. cmd[c].level = 0
  BY LevelIsZero DEF DockerBoot, At
<1>3. CASE Fail(c) /\ UNCHANGED redis
  BY <1>1, <1>3, FailDone, OutsideSame DEF StepOK, FilesStay
<1>4. CASE /\ redis' = "running"
           /\ cmd' = [cmd EXCEPT ![c].point = "ready", ![c].mine = TRUE]
           /\ UNCHANGED server
  <2> DEFINE x == [cmd[c] EXCEPT !.point = "ready", !.mine = TRUE]
  <2>1. Outside
    BY <1>1, <1>4 DEF Outside, TypeOK
  <2>2. ServerSettles
    BY <1>1, <1>4, SameSettles
  <2>3. cmd' = [cmd EXCEPT ![c] = x]
    BY <1>1, <1>4 DEF TypeOK
  <2>4. x \in Command /\ x.point = "ready" /\ x.level = 0 /\ x.pid = cmd[c].pid
    BY <1>1, <1>2, PlainPoints DEF Command
  <2>5. Done(c)
    <3> HIDE DEF x
    <3> QED
      BY <2>2, <2>3, <2>4, PlainPoints, GoesDone
  <2> QED
    BY <1>1, <2>1, <2>5 DEF StepOK, FilesStay
<1> QED
  BY <1>3, <1>4 DEF DockerBoot

LEMMA WaitForRedisReadyStep ==
    ASSUME FileInv, NEW c \in Cli, UNCHANGED events, WaitForRedisReady(c)
    PROVE  StepOK(c)
<1>1. TypeOK /\ UNCHANGED <<file, writers, redis, redisBy>>
  BY DEF WaitForRedisReady, FileInv, fileVars, redisVars
<1>2. cmd[c].level = 0
  BY LevelIsZero DEF WaitForRedisReady, At
<1>3. ASSUME Fail(c)
      PROVE  Done(c)
  BY <1>3, FailDone
<1>4. ASSUME Exit(c, TRUE)
      PROVE  Done(c)
  BY <1>4, ExitDone
<1>5. ASSUME GoTo(c, "ensure") /\ UNCHANGED server
      PROVE  Done(c)
  BY <1>1, <1>2, <1>5, PlainPoints, SameSettles, GoToDone
<1>6. Done(c)
  BY <1>3, <1>4, <1>5 DEF WaitForRedisReady
<1> QED
  BY <1>1, <1>6, OutsideSame DEF StepOK, FilesStay

LEMMA RemovedDone ==
    ASSUME FileInv, NEW c \in Cli, NEW removed \in BOOLEAN, cmd[c].level = 0,
           Removed(c, removed)
    PROVE  Done(c)
<1>1. TypeOK /\ cmd[c].ok \in BOOLEAN
  BY DEF FileInv, TypeOK, Command
<1>2. CASE GoTo(c, "run") /\ server' = Reaped(c)
  <2>1. ServerSettles
    BY <1>1, <1>2, ReapSettles
  <2> QED
    BY <1>2, <2>1, PlainPoints, GoToDone
<1>3. CASE Exit(c, removed) \/ Exit(c, cmd[c].ok)
  BY <1>1, <1>3, ExitDone
<1> QED
  BY <1>2, <1>3 DEF Removed

LEMMA InspectForRemovalStep ==
    ASSUME FileInv, NEW c \in Cli, UNCHANGED events, InspectForRemoval(c)
    PROVE  StepOK(c)
<1>1. TypeOK /\ UNCHANGED <<file, writers, redis, redisBy>>
  BY DEF InspectForRemoval, FileInv, fileVars, redisVars
<1>2. cmd[c].level = 0
  BY LevelIsZero DEF InspectForRemoval, At
<1>3. CASE GoTo(c, "rm") /\ server' = Reaped(c)
  <2>1. ServerSettles
    BY <1>1, <1>3, ReapSettles
  <2> QED
    BY <1>1, <1>2, <1>3, <2>1, PlainPoints, GoToDone, OutsideSame DEF StepOK, FilesStay
<1>4. CASE Removed(c, FALSE)
  BY <1>1, <1>2, <1>4, RemovedDone, OutsideSame DEF StepOK, FilesStay
<1> QED
  BY <1>3, <1>4 DEF InspectForRemoval

LEMMA DockerRemoveStep ==
    ASSUME FileInv, NEW c \in Cli, UNCHANGED events, DockerRemove(c)
    PROVE  StepOK(c)
<1>1. TypeOK /\ UNCHANGED <<file, writers>>
  BY DEF DockerRemove, FileInv, fileVars
<1>2. cmd[c].level = 0
  BY LevelIsZero DEF DockerRemove, At
<1>3. PICK removed \in BOOLEAN : Removed(c, removed)
  BY DEF DockerRemove
<1>4. Outside
  BY <1>1 DEF DockerRemove, Outside, TypeOK, redisVars
<1>5. Done(c)
  BY <1>2, <1>3, RemovedDone
<1> QED
  BY <1>1, <1>4, <1>5 DEF StepOK, FilesStay

LEMMA EnsureNotRunningStep ==
    ASSUME FileInv, NEW c \in Cli, UNCHANGED events, EnsureNotRunning(c)
    PROVE  StepOK(c)
<1> DEFINE q == file[cmd[c].at]
<1>1. TypeOK /\ UNCHANGED <<file, writers, redis, redisBy>>
  BY DEF EnsureNotRunning, FileInv, fileVars, redisVars
<1>2. cmd[c].level = 0
  BY LevelIsZero DEF EnsureNotRunning, At
<1>3. ASSUME Fail(c)
      PROVE  Done(c)
  BY <1>3, FailDone
<1>4. ASSUME NEW point \in {"spawn", "unlink dead"}, GoTo(c, point), UNCHANGED server,
             ~IsProcessAlive(q)
      PROVE  Done(c)
  BY <1>1, <1>2, <1>4, PlainPoints, AliveOrDead, SameSettles, GoToDone
<1>5. Done(c)
  BY <1>3, <1>4 DEF EnsureNotRunning
<1> QED
  BY <1>1, <1>5, OutsideSame DEF StepOK, FilesStay

LEMMA UnlinkDeadStep ==
    ASSUME FileInv, NEW c \in Cli, UNCHANGED events, UnlinkDead(c)
    PROVE  StepOK(c)
<1>1. TypeOK /\ UNCHANGED <<server, redis, redisBy>> /\ cmd[c].level = 0
  BY LevelIsZero DEF UnlinkDead, FileInv, redisVars, At
<1>2. Done(c)
  BY <1>1, PlainPoints, SameSettles, GoToDone DEF UnlinkDead
<1> QED
  BY <1>1, <1>2, OutsideSame DEF StepOK, FilesStay, UnlinkDead, At, Unlinking

LEMMA SpawnStep ==
    ASSUME FileInv, NEW c \in Cli, UNCHANGED events, Spawn(c)
    PROVE  StepOK(c)
<1>1. TypeOK /\ UNCHANGED <<file, writers, redis, redisBy>> /\ cmd[c] \in Command
  BY DEF Spawn, FileInv, fileVars, redisVars, TypeOK
<1>2. cmd[c].level = 0
  BY LevelIsZero DEF Spawn, At
<1>3. ASSUME Fail(c)
      PROVE  Done(c)
  BY <1>3, FailDone
<1>4. ASSUME FreePid # {}, server' = Spawned(Reaped(c), cmd[c].at, c),
             cmd' = [cmd EXCEPT ![c].point = "await", ![c].pid = Min(FreePid)]
      PROVE  Done(c)
  <2> DEFINE p == Min(FreePid)
             x == [cmd[c] EXCEPT !.point = "await", !.pid = p]
  <2>1. p \in Pid
    BY <1>4, FreePidIn DEF FreePid
  <2>2. ServerSettles /\ server'[p].status = "check"
    BY <1>1, <1>4, SpawnSettles DEF Command
  <2>3. cmd' = [cmd EXCEPT ![c] = x]
    BY <1>1, <1>4 DEF TypeOK
  <2> HIDE DEF p
  <2>4. "await" \in Point
    BY DEF Point
  <2>5. /\ x \in Command
        /\ x.point = "await" /\ x.level = 0 /\ x.pid = p
    BY <1>1, <1>2, <2>1, <2>4 DEF Command
  <2> HIDE DEF x
  <2>6. Others(c) /\ cmd'[c] = x
    BY <1>1, <2>3, <2>5, NewCommand
  <2>7. Fits(c)' /\ ~At(c, Unlinking)'
    <3>1. cmd'[c].point = "await" /\ cmd'[c].level = 0 /\ cmd'[c].pid = p
      BY <2>5, <2>6
    <3>2. server'[p].status # "none"
      BY <2>2 DEF p
    <3>3. LevelFits(c)' /\ ~At(c, Unlinking)'
      BY <3>1 DEF LevelFits, At, Unlinking
    <3>4. PidFits(c)'
      BY <2>1, <3>1, <3>2 DEF PidFits, Known, At
    <3> QED
      BY <3>3, <3>4 DEF Fits
  <2> QED
    BY <2>2, <2>6, <2>7 DEF Done
<1>5. Done(c)
  BY <1>3, <1>4 DEF Spawn
<1> QED
  BY <1>1, <1>5, OutsideSame DEF StepOK, FilesStay

LEMMA StartedStep ==
    ASSUME FileInv, NEW c \in Cli, UNCHANGED events, Started(c)
    PROVE  StepOK(c)
<1> DEFINE s == cmd[c].at
<1>1. TypeOK /\ UNCHANGED <<file, writers, redis, redisBy>> /\ cmd[c] \in Command
  BY DEF Started, FileInv, fileVars, redisVars, TypeOK
<1>2. cmd[c].level = 0
  BY LevelIsZero DEF Started, At
<1>3. ASSUME Exit(c, TRUE)
      PROVE  Done(c)
  BY <1>3, ExitDone
<1>4. ASSUME s # Workers, UNCHANGED server,
             cmd' = [cmd EXCEPT ![c].point = "ensure", ![c].at = s + 1,
                                ![c].pid = NoPid, ![c].todo = @ \union {s}]
      PROVE  Done(c)
  <2> DEFINE all == cmd[c].todo \union {s}
             x == [cmd[c] EXCEPT !.point = "ensure", !.at = s + 1, !.pid = NoPid, !.todo = all]
  <2>1. s + 1 \in Slot /\ all \in SUBSET Slot
    BY <1>1, <1>4 DEF Command
  <2>2. cmd' = [cmd EXCEPT ![c] = x]
    BY <1>1, <1>4 DEF TypeOK
  <2>3. ServerSettles
    BY <1>1, <1>4, SameSettles
  <2> HIDE DEF all
  <2>4. /\ x \in Command
        /\ x.point = "ensure" /\ x.level = 0 /\ x.pid = NoPid
    BY <1>1, <1>2, <2>1, Zero, PlainPoints DEF Command
  <2> HIDE DEF x
  <2> QED
    BY <2>2, <2>3, <2>4, PlainPoints, GoesDone
<1>5. Done(c)
  BY <1>3, <1>4 DEF Started
<1> QED
  BY <1>1, <1>5, OutsideSame DEF StepOK, FilesStay

\* A pid that a command holds is that of a server there has been.
LEMMA HeldPid ==
    ASSUME FileInv, NEW c \in Cli,
           At(c, {"await", "abort", "signal", "wait", "forget", "unlink"})
    PROVE  Known(cmd[c].pid) /\ cmd[c].pid \in Pid
  BY DEF FileInv, PidFits, Known

LEMMA GiveUpStep ==
    ASSUME FileInv, NEW c \in Cli, UNCHANGED events, GiveUp(c)
    PROVE  StepOK(c)
<1> DEFINE x == [cmd[c] EXCEPT !.point = "abort"]
<1>1. TypeOK /\ UNCHANGED <<file, writers, server, redis, redisBy>> /\ cmd[c] \in Command
  BY DEF GiveUp, FileInv, fileVars, redisVars, TypeOK
<1>2. cmd' = [cmd EXCEPT ![c] = x]
  BY DEF GiveUp, GoTo, FileInv, TypeOK
<1>3. Known(cmd[c].pid)
  BY HeldPid DEF GiveUp, At
<1>4. "abort" \in Point
  BY DEF Point
<1>5. x \in Command /\ x.point = "abort" /\ x.pid = cmd[c].pid
  BY <1>1, <1>4 DEF Command
<1>6. Done(c)
  <2> HIDE DEF x
  <2> QED
    BY <1>1, <1>2, <1>3, <1>5, SameSettles, HoldsDone
<1> QED
  BY <1>1, <1>6, OutsideSame DEF StepOK, FilesStay

LEMMA AbortStep ==
    ASSUME FileInv, NEW c \in Cli, UNCHANGED events, Abort(c)
    PROVE  StepOK(c)
<1> DEFINE p == cmd[c].pid
           x == [cmd[c] EXCEPT !.level = cmd[c].level + 1]
<1>1. TypeOK /\ UNCHANGED <<file, writers, redis, redisBy>> /\ cmd[c] \in Command
  BY DEF Abort, FileInv, fileVars, redisVars, TypeOK
<1>2. Known(p) /\ p \in Pid
  BY HeldPid DEF Abort, At
<1>3. ASSUME Fail(c)
      PROVE  Done(c)
  BY <1>3, FailDone
<1>4. ASSUME cmd[c].level < 3, \E st \in Signalled(c, p, cmd[c].level) : SetStatus(p, st),
             cmd' = [cmd EXCEPT ![c].level = @ + 1]
      PROVE  Done(c)
  <2>1. ServerSettles
    BY <1>1, <1>2, <1>4, SignalSettles
  <2>2. cmd' = [cmd EXCEPT ![c] = x]
    BY <1>1, <1>4 DEF TypeOK
  <2>3. cmd[c].level + 1 \in 0 .. 3
    BY <1>1, <1>4 DEF Command
  <2>4. x \in Command /\ x.point = cmd[c].point /\ x.pid = p
    BY <1>1, <2>3 DEF Command
  <2>5. cmd[c].point = "abort"
    BY DEF Abort, At
  <2> HIDE DEF x
  <2> QED
    BY <1>2, <2>1, <2>2, <2>4, <2>5, HoldsDone
<1>5. Done(c)
  BY <1>3, <1>4 DEF Abort
<1> QED
  BY <1>1, <1>5, OutsideSame DEF StepOK, FilesStay

LEMMA NextToStopStep ==
    ASSUME FileInv, NEW c \in Cli, UNCHANGED events, NextToStop(c)
    PROVE  StepOK(c)
<1> DEFINE left == cmd[c].todo \ {0}
           s == IF left = {} THEN 0 ELSE IF cmd[c].op = "up" THEN Max(left) ELSE Min(left)
           rest == cmd[c].todo \ {s}
           x == [cmd[c] EXCEPT !.at = s, !.todo = rest, !.point = "read"]
           y == [cmd[c] EXCEPT !.point = "remove", !.at = 0]
<1>1. TypeOK /\ UNCHANGED <<file, writers, redis, redisBy>> /\ cmd[c] \in Command
  BY DEF NextToStop, FileInv, fileVars, redisVars, TypeOK
<1>2. cmd[c].level = 0
  BY LevelIsZero DEF NextToStop, At
<1>3. UNCHANGED server => ServerSettles
  BY <1>1, SameSettles
<1>4. s \in Slot /\ rest \in SUBSET Slot
  <2>1. left \in SUBSET Slot /\ left \in SUBSET Nat /\ cmd[c].todo \in SUBSET Slot
    BY <1>1 DEF Command
  <2>2. left # {} => Max(left) \in left /\ Min(left) \in left
    <3> HIDE DEF left
    <3> QED
      BY <2>1, MaxIn, MinIn
  <2>3. s \in Slot
    <3> HIDE DEF left
    <3> QED
      BY <2>1, <2>2, Zero
  <2> QED
    BY <2>1, <2>3
<1>5. ASSUME UNCHANGED server,
             cmd' = [cmd EXCEPT ![c].at = s, ![c].todo = @ \ {s}, ![c].point = "read"]
      PROVE  Done(c)
  <2>1. cmd' = [cmd EXCEPT ![c] = x]
    <3> HIDE DEF s
    <3> QED
      BY <1>1, <1>5 DEF TypeOK
  <2> HIDE DEF s, rest
  <2>2. x \in Command /\ x.point = "read" /\ x.level = 0 /\ x.pid = cmd[c].pid
    BY <1>1, <1>2, <1>4, PlainPoints DEF Command
  <2> HIDE DEF x
  <2> QED
    BY <1>3, <1>5, <2>1, <2>2, PlainPoints, GoesDone
<1>6. ASSUME UNCHANGED server, cmd' = [cmd EXCEPT ![c].point = "remove", ![c].at = 0]
      PROVE  Done(c)
  <2>1. cmd' = [cmd EXCEPT ![c] = y]
    BY <1>1, <1>6 DEF TypeOK
  <2>2. y \in Command /\ y.point = "remove" /\ y.level = 0 /\ y.pid = cmd[c].pid
    BY <1>1, <1>2, Zero, PlainPoints DEF Command
  <2> HIDE DEF y
  <2> QED
    BY <1>3, <1>6, <2>1, <2>2, PlainPoints, GoesDone
<1>7. ASSUME Exit(c, FALSE)
      PROVE  Done(c)
  BY <1>7, ExitDone
<1>8. Done(c)
  <2> HIDE DEF s, x, y, rest
  <2> QED
    BY <1>5, <1>6, <1>7 DEF NextToStop, s
<1> QED
  BY <1>1, <1>8, OutsideSame DEF StepOK, FilesStay

LEMMA ReadPidStep ==
    ASSUME FileInv, NEW c \in Cli, UNCHANGED events, ReadPid(c)
    PROVE  StepOK(c)
<1> DEFINE q == file[cmd[c].at]
           fine == IF Single(c) THEN IsProcessAlive(q) ELSE cmd[c].ok
           point == IF IsProcessAlive(q) THEN "signal" ELSE "forget"
           x == [cmd[c] EXCEPT !.pid = q, !.point = point, !.ok = fine]
<1>1. TypeOK /\ UNCHANGED <<file, writers, redis, redisBy>> /\ cmd[c] \in Command
  BY DEF ReadPid, FileInv, fileVars, redisVars, TypeOK
<1>2. cmd[c].level = 0
  BY LevelIsZero DEF ReadPid, At
<1>3. ASSUME Exit(c, FALSE)
      PROVE  Done(c)
  BY <1>3, ExitDone
<1>4. ASSUME GoTo(c, "drop"), UNCHANGED server, q = NoPid
      PROVE  Done(c)
  BY <1>1, <1>2, <1>4, PlainPoints, SameSettles, GoToDone DEF Dead
<1>5. ASSUME q # NoPid, UNCHANGED server,
             cmd' = [cmd EXCEPT ![c].pid = q, ![c].point = point,
                                ![c].ok = IF Single(c) THEN IsProcessAlive(q) ELSE @]
      PROVE  Done(c)
  <2>1. Known(q) /\ q \in Pid /\ cmd[c].at \in Slot
    BY <1>1, <1>5 DEF FileInv, NamesKnown, Known, Command
  <2>2. cmd' = [cmd EXCEPT ![c] = x]
    <3> HIDE DEF q, point
    <3> QED
      BY <1>1, <1>5 DEF TypeOK
  <2>3. ServerSettles
    BY <1>1, <1>5, SameSettles
  <2>4. fine \in BOOLEAN
    <3>1. IsProcessAlive(q) \in BOOLEAN
      BY DEF IsProcessAlive
    <3>2. cmd[c].ok \in BOOLEAN
      BY <1>1 DEF Command
    <3> HIDE DEF q
    <3> QED
      BY <3>1, <3>2
  <2>5. point \in Point /\ point \in {"signal", "forget"}
    BY DEF Point
  <2>6. point = "forget" => server'[q].status \notin Running
    BY <1>5, AliveOrDead DEF Dead, Runs, In
  <2> HIDE DEF q, point, fine
  <2>7. x \in Command /\ x.point = point /\ x.level = 0 /\ x.pid = q
    BY <1>1, <1>2, <2>1, <2>4, <2>5 DEF Command
  <2> HIDE DEF x
  <2>8. /\ Known(x.pid)
        /\ x.point \in {"abort", "signal", "wait", "forget", "unlink"}
        /\ x.point = "signal" => x.level <= 2
        /\ x.point \in {"forget", "unlink"} =>
               x.level = 0 /\ server'[x.pid].status \notin Running
        /\ x.point # "unlink"
    BY <2>1, <2>5, <2>6, <2>7
  <2>9. x \in Command
    BY <2>7
  <2> QED
    BY <2>2, <2>3, <2>8, <2>9, HoldsDone
<1>6. Done(c)
  BY <1>3, <1>4, <1>5 DEF ReadPid
<1> QED
  BY <1>1, <1>6, OutsideSame DEF StepOK, FilesStay

LEMMA DropFileStep ==
    ASSUME FileInv, NEW c \in Cli, UNCHANGED events, DropFile(c)
    PROVE  StepOK(c)
<1>1. TypeOK /\ UNCHANGED <<redis, redisBy>>
  BY DEF DropFile, FileInv, redisVars
<1>2. Done(c)
  BY StopReturnsDone DEF DropFile
<1> QED
  BY <1>1, <1>2, OutsideSame DEF StepOK, FilesStay, DropFile, At, Unlinking

LEMMA SendSignalStep ==
    ASSUME FileInv, NEW c \in Cli, UNCHANGED events, SendSignal(c)
    PROVE  StepOK(c)
<1> DEFINE p == cmd[c].pid
           x == [cmd[c] EXCEPT !.level = 0, !.point = "forget"]
           y == [cmd[c] EXCEPT !.level = cmd[c].level + 1, !.point = "wait"]
<1>1. TypeOK /\ UNCHANGED <<file, writers, redis, redisBy>> /\ cmd[c] \in Command
  BY DEF SendSignal, FileInv, fileVars, redisVars, TypeOK
<1>2. Known(p) /\ p \in Pid /\ cmd[c].level <= 2
  BY HeldPid DEF SendSignal, At, FileInv, LevelFits
<1>3. "forget" \in Point /\ "wait" \in Point
  BY DEF Point
<1>4. ASSUME Exit(c, FALSE)
      PROVE  Done(c)
  BY <1>4, ExitDone
<1>5. ASSUME NEW st \in Delivered(p, 2), SetStatus(p, st),
             cmd' = [cmd EXCEPT ![c].level = 0, ![c].point = "forget"]
      PROVE  Done(c)
  <2>1. ServerSettles
    BY <1>1, <1>2, <1>5, SignalSettles DEF Signalled
  <2>2. cmd' = [cmd EXCEPT ![c] = x]
    BY <1>1, <1>5 DEF TypeOK
  <2>3. x \in Command /\ x.point = "forget" /\ x.level = 0 /\ x.pid = p
    BY <1>1, <1>3, Zero DEF Command
  <2>4. st \notin Running
    BY <1>5 DEF Delivered, Runs, In, Running, Starting
  <2>5. server'[p].status = st
    BY <1>1, <1>2, <1>5 DEF SetStatus, TypeOK, NoServer
  <2> HIDE DEF x
  <2> QED
    BY <1>2, <2>1, <2>2, <2>3, <2>4, <2>5, HoldsDone
<1>6. ASSUME NEW st \in Signalled(c, p, cmd[c].level), SetStatus(p, st),
             cmd' = [cmd EXCEPT ![c].level = @ + 1, ![c].point = "wait"]
      PROVE  Done(c)
  <2>1. ServerSettles
    BY <1>1, <1>2, <1>6, SignalSettles
  <2>2. cmd' = [cmd EXCEPT ![c] = y]
    BY <1>1, <1>6 DEF TypeOK
  <2>3. cmd[c].level + 1 \in 0 .. 3
    BY <1>1, <1>2 DEF Command
  <2>4. y \in Command /\ y.point = "wait" /\ y.pid = p
    BY <1>1, <1>3, <2>3 DEF Command
  <2> HIDE DEF y
  <2> QED
    BY <1>2, <2>1, <2>2, <2>4, HoldsDone
<1>7. Done(c)
  BY <1>4, <1>5, <1>6 DEF SendSignal
<1> QED
  BY <1>1, <1>7, OutsideSame DEF StepOK, FilesStay

LEMMA WaitForExitStep ==
    ASSUME FileInv, NEW c \in Cli, UNCHANGED events, WaitForExit(c)
    PROVE  StepOK(c)
<1> DEFINE p == cmd[c].pid
           last == IF cmd[c].op = "stop" THEN 2 ELSE 3
           x == [cmd[c] EXCEPT !.point = "forget", !.level = 0]
           y == [cmd[c] EXCEPT !.point = "signal"]
<1>1. TypeOK /\ UNCHANGED <<file, writers, redis, redisBy>> /\ cmd[c] \in Command
  BY DEF WaitForExit, FileInv, fileVars, redisVars, TypeOK
<1>2. Known(p) /\ p \in Pid
  BY HeldPid DEF WaitForExit, At
<1>3. "forget" \in Point /\ "signal" \in Point
  BY DEF Point
<1>4. ASSUME ~IsProcessAlive(p), UNCHANGED server,
             cmd' = [cmd EXCEPT ![c].point = "forget", ![c].level = 0]
      PROVE  Done(c)
  <2>1. cmd' = [cmd EXCEPT ![c] = x]
    BY <1>1, <1>4 DEF TypeOK
  <2>2. x \in Command /\ x.point = "forget" /\ x.level = 0 /\ x.pid = p
    BY <1>1, <1>3, Zero DEF Command
  <2>3. server'[p].status \notin Running
    BY <1>2, <1>4, AliveOrDead DEF Dead, Runs, In
  <2> HIDE DEF x
  <2> QED
    BY <1>1, <1>2, <1>4, <2>1, <2>2, <2>3, SameSettles, HoldsDone
<1>5. ASSUME cmd[c].level < last, UNCHANGED server, GoTo(c, "signal")
      PROVE  Done(c)
  <2>1. cmd' = [cmd EXCEPT ![c] = y]
    BY <1>1, <1>5 DEF TypeOK, GoTo
  <2>2. y \in Command /\ y.point = "signal" /\ y.level = cmd[c].level /\ y.pid = p
    BY <1>1, <1>3 DEF Command
  <2>3. y.level <= 2
    BY <1>1, <1>5, <2>2 DEF Command
  <2> HIDE DEF y
  <2> QED
    BY <1>1, <1>2, <1>5, <2>1, <2>2, <2>3, SameSettles, HoldsDone
<1>6. ASSUME StopReturns(c, FALSE, Exists(cmd[c].at))
      PROVE  Done(c)
  <2>1. Exists(cmd[c].at) \in BOOLEAN
    BY DEF Exists
  <2> QED
    BY <1>6, <2>1, StopReturnsDone
<1>7. Done(c)
  BY <1>4, <1>5, <1>6 DEF WaitForExit
<1> QED
  BY <1>1, <1>7, OutsideSame DEF StepOK, FilesStay

LEMMA ForgetStep ==
    ASSUME FileInv, NEW c \in Cli, UNCHANGED events, Forget(c)
    PROVE  StepOK(c)
<1> DEFINE p == cmd[c].pid
           x == [cmd[c] EXCEPT !.point = "unlink"]
           fine == cmd[c].ok \/ ~Single(c)
<1>1. TypeOK /\ UNCHANGED <<file, writers, redis, redisBy>> /\ cmd[c] \in Command
  BY DEF Forget, FileInv, fileVars, redisVars, TypeOK
<1>2. Known(p) /\ p \in Pid /\ ~Runs(p) /\ cmd[c].level = 0
  BY HeldPid, LevelIsZero DEF Forget, At, FileInv, PidFits
<1>3. ASSUME file[cmd[c].at] = p, GoTo(c, "unlink"), UNCHANGED server
      PROVE  Done(c)
  <2>1. cmd' = [cmd EXCEPT ![c] = x]
    BY <1>1, <1>3 DEF TypeOK, GoTo
  <2>2. "unlink" \in Point
    BY DEF Point
  <2>3. /\ x \in Command
        /\ x.point = "unlink" /\ x.level = 0 /\ x.pid = p /\ x.at = cmd[c].at
    BY <1>1, <1>2, <2>2 DEF Command
  <2>4. Dead(file[cmd[c].at]) /\ server'[p].status \notin Running
    BY <1>2, <1>3 DEF Dead, Runs, In
  <2> HIDE DEF x
  <2> QED
    BY <1>1, <1>2, <1>3, <2>1, <2>3, <2>4, SameSettles, HoldsDone
<1>4. ASSUME StopReturns(c, fine, FALSE)
      PROVE  Done(c)
  <2>1. fine \in BOOLEAN
    OBVIOUS
  <2> HIDE DEF fine
  <2> QED
    BY <1>4, <2>1, StopReturnsDone
<1>5. Done(c)
  BY <1>3, <1>4 DEF Forget
<1> QED
  BY <1>1, <1>5, OutsideSame DEF StepOK, FilesStay

LEMMA UnlinkStep ==
    ASSUME FileInv, NEW c \in Cli, UNCHANGED events, Unlink(c)
    PROVE  StepOK(c)
<1> DEFINE fine == cmd[c].ok \/ ~Single(c)
<1>1. TypeOK /\ UNCHANGED <<redis, redisBy>>
  BY DEF Unlink, FileInv, redisVars
<1>2. fine \in BOOLEAN
  OBVIOUS
<1>3. Done(c)
  <2>1. StopReturns(c, fine, FALSE)
    BY DEF Unlink
  <2> HIDE DEF fine
  <2> QED
    BY <1>2, <2>1, StopReturnsDone
<1> QED
  BY <1>1, <1>3, OutsideSame DEF StepOK, FilesStay, Unlink, At, Unlinking

LEMMA InterruptStep ==
    ASSUME FileInv, NEW c \in Cli, Outside, Interrupt(c)
    PROVE  StepOK(c)
<1> DEFINE x == NoCommand("interrupted", FALSE)
<1>1. TypeOK /\ UNCHANGED <<file, writers>> /\ server' = Reaped(c)
  BY DEF Interrupt, FileInv, fileVars
<1>2. "interrupted" \in Point /\ "none" \in Op
  BY DEF Point, Op
<1>3. x \in Command
  BY <1>2, Zero DEF NoCommand, Command
<1>4. Others(c) /\ cmd'[c] = x
  <2>1. cmd' = [cmd EXCEPT ![c] = x]
    BY DEF Interrupt
  <2> HIDE DEF x
  <2> QED
    BY <1>1, <1>3, <2>1, NewCommand
<1>5. Fits(c)' /\ ~At(c, Unlinking)'
  BY <1>4 DEF Fits, LevelFits, PidFits, At, NoCommand, Unlinking
<1> QED
  BY <1>1, <1>4, <1>5, ReapSettles DEF StepOK, Done, FilesStay

\* A step of a command keeps the invariant.
LEMMA StepIsOK ==
    ASSUME FileInv, Remember, NEW c \in Cli, StepOK(c)
    PROVE  FileInv'
  BY CommandKeeps DEF StepOK

\* How a command begins, other than infra down.
Opens(o, point) ==
    /\ o \in Op \ {"down"}
    /\ point \in {"precheck", "inspect", "ensure", "read"}
    /\ point = "read" <=> o \in {"stop", "force stop"}
    /\ point = "ensure" => o = "start"

LEMMA BeginsPlainly ==
    ASSUME NEW c \in Cli, BeginSome(c)
    PROVE  InfraDown(c) \/ \E o, point : Opens(o, point) /\ \E s \in Slot : Begin(c, o, s, point)
<1>1. /\ Opens("start", "ensure") /\ Opens("stop", "read") /\ Opens("force stop", "read")
      /\ Opens("up", "precheck") /\ Opens("redis start", "inspect")
      /\ Opens("redis stop", "inspect") /\ Opens("redis restart", "inspect")
  BY DEF Opens, Op, RedisOp
<1>2. 0 \in Slot /\ 1 .. Workers \subseteq Slot
  BY Zero
<1>3. CASE OrchestratorStart(c)
  BY <1>1, <1>2, <1>3 DEF OrchestratorStart
<1>4. CASE WorkerStart(c)
  BY <1>1, <1>2, <1>4 DEF WorkerStart
<1>5. CASE OrchestratorStop(c)
  BY <1>1, <1>2, <1>5 DEF OrchestratorStop
<1>6. CASE WorkerStop(c)
  BY <1>1, <1>2, <1>6 DEF WorkerStop
<1>7. CASE InfraUp(c)
  BY <1>1, <1>2, <1>7 DEF InfraUp
<1>8. CASE RedisStart(c)
  BY <1>1, <1>2, <1>8 DEF RedisStart
<1>9. CASE RedisStop(c)
  BY <1>1, <1>2, <1>9 DEF RedisStop
<1>10. CASE RedisRestart(c)
  BY <1>1, <1>2, <1>10 DEF RedisRestart
<1> QED
  BY <1>3, <1>4, <1>5, <1>6, <1>7, <1>8, <1>9, <1>10 DEF BeginSome

\* A step that begins a command, and each further step of one.
LEMMA BeginsOK ==
    ASSUME FileInv, UNCHANGED events, NEW c \in Cli, BeginSome(c)
    PROVE  StepOK(c)
<1>1. CASE InfraDown(c)
  BY <1>1, InfraDownStep
<1>2. ASSUME NEW o, NEW point, Opens(o, point), NEW s \in Slot, Begin(c, o, s, point)
      PROVE  StepOK(c)
  BY <1>2, BeginStep DEF Opens
<1> QED
  BY <1>1, <1>2, BeginsPlainly

LEMMA StepsOK ==
    ASSUME FileInv, UNCHANGED events, NEW c \in Cli, Step(c)
    PROVE  StepOK(c)
<1>1. CASE \/ Precheck(c) \/ UnlinkStale(c) \/ Inspect(c) \/ DockerRun(c) \/ DockerBoot(c)
           \/ WaitForRedisReady(c) \/ InspectForRemoval(c) \/ DockerRemove(c)
  BY <1>1, PrecheckStep, UnlinkStaleStep, InspectStep, DockerRunStep, DockerBootStep,
     WaitForRedisReadyStep, InspectForRemovalStep, DockerRemoveStep
<1>2. CASE \/ EnsureNotRunning(c) \/ UnlinkDead(c) \/ Spawn(c) \/ Started(c) \/ GiveUp(c)
           \/ Abort(c)
  BY <1>2, EnsureNotRunningStep, UnlinkDeadStep, SpawnStep, StartedStep, GiveUpStep,
     AbortStep
<1>3. CASE \/ NextToStop(c) \/ ReadPid(c) \/ DropFile(c) \/ SendSignal(c)
           \/ WaitForExit(c) \/ Forget(c) \/ Unlink(c)
  BY <1>3, NextToStopStep, ReadPidStep, DropFileStep, SendSignalStep, WaitForExitStep,
     ForgetStep, UnlinkStep
<1> QED
  BY <1>1, <1>2, <1>3 DEF Step

-----------------------------------------------------------------------------
\* The servers.

LEMMA ServerKeeps ==
    ASSUME FileInv, Remember, ServerSettles, Outside, UNCHANGED <<file, writers, cmd>>
    PROVE  FileInv'
<1>1. TypeOK /\ Settles
  BY DEF Settles, Outside, ServerSettles, FileInv, TypeOK
<1>2. /\ file' \in [Slot -> Pid \union {NoPid}]
      /\ writers' \in [Slot -> SUBSET Pid]
      /\ \A s \in Slot : file'[s] \in {NoPid, file[s]}
  BY <1>1 DEF TypeOK
<1>3. ASSUME NEW s \in clean'
      PROVE  Keeps(s)
  <2>1. s \in Slot
    BY RememberType DEF FileInv
  <2> QED
    BY <2>1 DEF Keeps, Turns, ServerSettles
<1> QED
  BY <1>1, <1>2, <1>3, StepKeeps

LEMMA ServeKeeps ==
    ASSUME FileInv, Remember, Outside, NEW s \in Slot, Serve(s)
    PROVE  FileInv'
<1>1. ServerSettles
  BY SpawnSettles DEF Serve, FileInv
<1> QED
  BY <1>1, ServerKeeps DEF Serve, fileVars

LEMMA CheckPidFileKeeps ==
    ASSUME FileInv, Remember, Outside, NEW p \in Pid, CheckPidFile(p)
    PROVE  FileInv'
<1>1. PICK st : /\ SetStatus(p, st)
                /\ \/ st = Ended(p)
                   \/ st = "open" /\ ~IsProcessAlive(file[server[p].slot])
  BY DEF CheckPidFile
<1>2. Runs(p)
  BY DEF CheckPidFile, Runs, In, Running, Starting
<1>3. ServerSettles
  BY <1>1, <1>2, EndedIsOver, AliveOrDead, StatusSettles DEF CheckPidFile, FileInv, In
<1> QED
  BY <1>3, ServerKeeps DEF CheckPidFile, fileVars

LEMMA ServerReturnsKeeps ==
    ASSUME FileInv, Remember, Outside, NEW p \in Pid, ServerReturns(p)
    PROVE  FileInv'
<1>1. ServerSettles
  BY StatusSettles DEF ServerReturns, FileInv, In, Up
<1> QED
  BY <1>1, ServerKeeps DEF ServerReturns, fileVars

LEMMA ServerCrashKeeps ==
    ASSUME FileInv, Remember, Outside, NEW p \in Pid, ServerCrash(p)
    PROVE  FileInv'
<1>1. ServerSettles
  BY EndedIsOver, StatusSettles DEF ServerCrash, FileInv, Runs, In, Running, Starting
<1> QED
  BY <1>1, ServerKeeps DEF ServerCrash, fileVars

LEMMA DiesKeeps ==
    ASSUME FileInv, Remember, Outside, NEW p \in Pid, Dies(p)
    PROVE  FileInv'
<1>1. ServerSettles
  BY EndedIsOver, StatusSettles DEF Dies, FileInv, In
<1> QED
  BY <1>1, ServerKeeps DEF Dies, fileVars

LEMMA RemoveOwnFileKeeps ==
    ASSUME FileInv, Remember, Outside, NEW p \in Pid, RemoveOwnFile(p)
    PROVE  FileInv'
<1>1. PICK st : SetStatus(p, st) /\ (st = "unlink" \/ st = Ended(p))
  BY DEF RemoveOwnFile
<1>2. Runs(p) /\ In(p, Up)
  BY DEF RemoveOwnFile, Runs, In, Running, Up
<1>3. ServerSettles
  BY <1>1, <1>2, EndedIsOver, StatusSettles DEF FileInv, In, Up
<1> QED
  BY <1>3, ServerKeeps DEF RemoveOwnFile, fileVars

\* A server that is not gone has its record, but for the status.
LEMMA StatusSet ==
    ASSUME TypeOK, NEW p \in Pid, NEW st \in Status \ {"gone"}, SetStatus(p, st)
    PROVE  /\ server' \in ServerTable
           /\ server'[p].status = st /\ server'[p].slot = server[p].slot
           /\ server'[p].parent = server[p].parent
           /\ \A q \in Pid \ {p} : server'[q] = server[q]
<1> DEFINE new == [server[p] EXCEPT !.status = st]
<1>1. server \in ServerTable
  BY DEF TypeOK, ServerTable
<1>2. server' = [server EXCEPT ![p] = new]
  BY DEF SetStatus
<1>3. /\ new \in [status: Status, slot: Slot, parent: Cli \union {NoCli}]
      /\ new.status = st /\ new.slot = server[p].slot /\ new.parent = server[p].parent
  BY <1>1 DEF ServerTable
<1> HIDE DEF new
<1> QED
  BY <1>1, <1>2, <1>3 DEF ServerTable

\* A server opens or writes its pid file: what that means for the others.
LEMMA OwnFileSettles ==
    ASSUME FileInv, Outside, UNCHANGED cmd, NEW p \in Pid, NEW st \in {"write", "serve"},
           In(p, Starting), SetStatus(p, st)
    PROVE  /\ Settles
           /\ server'[p].status = st /\ server'[p].slot = server[p].slot
           /\ \A q \in Pid \ {p} : server'[q] = server[q]
           /\ \A s \in Slot \ {server[p].slot} :
                 file'[s] = file[s] /\ writers'[s] = writers[s] => Keeps(s)
<1>1. TypeOK
  BY DEF FileInv
<1>2. st \in Status \ {"gone"}
  BY DEF Status, Running, Starting
<1>3. /\ server' \in ServerTable
      /\ server'[p].status = st /\ server'[p].slot = server[p].slot
      /\ server'[p].parent = server[p].parent
      /\ \A q \in Pid \ {p} : server'[q] = server[q]
  BY <1>1, <1>2, StatusSet
<1>4. \A q \in Pid : Ages(q)
  BY <1>3 DEF Ages, Runs, In, Running, Starting, Up
<1>5. Settles
  BY <1>1, <1>3, <1>4 DEF Settles, Outside, TypeOK
<1>6. ASSUME NEW s \in Slot, s # server[p].slot, file'[s] = file[s], writers'[s] = writers[s]
      PROVE  Keeps(s)
  <2>1. \A q \in Pid : Moves(q, s)
    BY <1>3, <1>6 DEF Moves
  <2> QED
    BY <1>6, <2>1 DEF Keeps, Turns
<1> QED
  BY <1>3, <1>5, <1>6

LEMMA OpenPidFileKeeps ==
    ASSUME FileInv, Remember, Outside, NEW p \in Pid, OpenPidFile(p)
    PROVE  FileInv'
<1>1. TypeOK /\ server[p].slot \in Slot
  BY DEF FileInv, TypeOK
<1>0. PICK z \in Slot : z = server[p].slot
  BY <1>1
<1>2. /\ In(p, {"open"}) /\ SetStatus(p, "write") /\ UNCHANGED cmd
      /\ file' = [file EXCEPT ![z] = NoPid]
      /\ writers' = [writers EXCEPT ![z] = @ \union {p}]
  BY <1>0 DEF OpenPidFile
<1>3. /\ Settles
      /\ server'[p].status = "write" /\ server'[p].slot = z
      /\ \A q \in Pid \ {p} : server'[q] = server[q]
      /\ \A s \in Slot \ {z} :
            file'[s] = file[s] /\ writers'[s] = writers[s] => Keeps(s)
  BY <1>0, <1>2, OwnFileSettles DEF In, Starting
<1>4. /\ file' \in [Slot -> Pid \union {NoPid}]
      /\ writers' \in [Slot -> SUBSET Pid]
      /\ \A s \in Slot : file'[s] \in {NoPid, file[s]}
      /\ \A s \in Slot \ {z} : file'[s] = file[s] /\ writers'[s] = writers[s]
      /\ p \in writers'[z]
  BY <1>1, <1>2 DEF TypeOK
<1>5. ASSUME z \in clean
      PROVE  SlotFits(z)'
  <2>1. SlotFits(z) /\ OneStarter(z)
    BY <1>5 DEF FileInv
  <2>2. Vacant(z) /\ On(p, z, Starting)
    BY <1>0, <1>2, <2>1 DEF SlotFits, On, In, Starting
  <2>3. Vacant(z)'
    BY <1>3, <2>2 DEF Vacant, On, In, Up
  <2>4. \A q \in Pid : On(q, z, {"write"})' => q = p
    BY <1>3, <2>1, <2>2 DEF OneStarter, On, In, Starting
  <2> QED
    BY <1>4, <2>3, <2>4 DEF SlotFits, Vacant
<1>6. \A s \in clean' : Keeps(s) \/ SlotFits(s)'
  BY <1>0, <1>3, <1>4, <1>5, RememberType DEF FileInv
<1> QED
  BY <1>3, <1>4, <1>6, StepKeeps

LEMMA WritePidFileKeeps ==
    ASSUME FileInv, Remember, Outside, NEW p \in Pid, WritePidFile(p)
    PROVE  FileInv'
<1>1. TypeOK /\ server[p].slot \in Slot
  BY DEF FileInv, TypeOK
<1>0. PICK z \in Slot : z = server[p].slot
  BY <1>1
<1>2. /\ In(p, {"write"}) /\ SetStatus(p, "serve") /\ UNCHANGED cmd
      /\ file' = [file EXCEPT ![z] = IF p \in writers[z] THEN p ELSE @]
      /\ writers' = [writers EXCEPT ![z] = @ \ {p}]
  BY <1>0 DEF WritePidFile
<1>3. /\ Settles
      /\ server'[p].status = "serve" /\ server'[p].slot = z
      /\ \A q \in Pid \ {p} : server'[q] = server[q]
      /\ \A s \in Slot \ {z} :
            file'[s] = file[s] /\ writers'[s] = writers[s] => Keeps(s)
  BY <1>0, <1>2, OwnFileSettles DEF In, Starting
<1>4. /\ file' \in [Slot -> Pid \union {NoPid}]
      /\ writers' \in [Slot -> SUBSET Pid]
      /\ \A s \in Slot : \/ file'[s] \in {NoPid, file[s]}
                         \/ file'[s] \in { q \in Pid : server'[q].status # "none" }
      /\ \A s \in Slot \ {z} : file'[s] = file[s] /\ writers'[s] = writers[s]
      /\ p \in writers[z] => file'[z] = p
  BY <1>1, <1>2, <1>3 DEF TypeOK
<1>5. ASSUME z \in clean
      PROVE  SlotFits(z)'
  <2>1. SlotFits(z) /\ OneStarter(z) /\ NoneUnlinks(z)
    BY <1>5 DEF FileInv
  <2>2. On(p, z, {"write"}) /\ On(p, z, Starting)
    BY <1>0, <1>2 DEF On, In, Starting
  <2>3. Vacant(z) /\ file'[z] = p
    BY <1>4, <2>1, <2>2 DEF SlotFits, On, In
  <2>4. \A q \in Pid : On(q, z, Up)' => q = p
    BY <1>3, <2>3 DEF Vacant, On, In, Up
  <2>5. \A q \in Pid : ~On(q, z, {"open", "write"})'
    BY <1>3, <2>1, <2>2 DEF OneStarter, On, In, Starting
  <2>6. \A q \in Pid : ~On(q, z, {"write"})'
    BY <2>5 DEF On, In
  <2>7. \A c \in Cli : ~(cmd'[c].at = z /\ At(c, Unlinking)')
    BY <1>2, <2>1, <2>2 DEF NoneUnlinks, At
  <2> QED
    BY <2>3, <2>4, <2>5, <2>6, <2>7 DEF SlotFits
<1>6. \A s \in clean' : Keeps(s) \/ SlotFits(s)'
  BY <1>0, <1>3, <1>4, <1>5, RememberType DEF FileInv
<1> QED
  BY <1>3, <1>4, <1>6, StepKeeps

LEMMA UnlinkOwnFileKeeps ==
    ASSUME FileInv, Remember, Outside, NEW p \in Pid, UnlinkOwnFile(p)
    PROVE  FileInv'
<1>1. TypeOK /\ server[p].slot \in Slot
  BY DEF FileInv, TypeOK
<1>0. PICK z \in Slot : z = server[p].slot
  BY <1>1
<1>2. /\ In(p, {"unlink"}) /\ SetStatus(p, Ended(p)) /\ UNCHANGED cmd
      /\ file' = [file EXCEPT ![z] = NoPid]
      /\ writers' = [writers EXCEPT ![z] = {}]
  BY <1>0 DEF UnlinkOwnFile, Unlinked
<1>3. ServerSettles
  BY <1>1, <1>2, EndedIsOver, StatusSettles DEF Runs, In, Running
<1>4. Settles
  BY <1>1, <1>2, <1>3 DEF Settles, ServerSettles, Outside, TypeOK
<1>5. /\ file' \in [Slot -> Pid \union {NoPid}]
      /\ writers' \in [Slot -> SUBSET Pid]
      /\ \A s \in Slot : file'[s] \in {NoPid, file[s]}
      /\ \A s \in Slot \ {z} : file'[s] = file[s] /\ writers'[s] = writers[s]
  BY <1>1, <1>2 DEF TypeOK
<1>6. ASSUME NEW s \in Slot, s # z
      PROVE  Keeps(s)
  BY <1>2, <1>3, <1>5, <1>6 DEF Keeps, Turns, ServerSettles
<1>7. /\ server'[p].status \notin Running
      /\ \A q \in Pid \ {p} : server'[q] = server[q]
  BY <1>1, <1>2, EndedIsOver DEF SetStatus, TypeOK, NoServer, Running, Starting
<1>8. ASSUME z \in clean
      PROVE  SlotFits(z)'
  <2>1. SlotFits(z)
    BY <1>8 DEF FileInv
  <2>2. On(p, z, Up)
    BY <1>0, <1>2 DEF On, In, Up
  <2>3. Vacant(z)'
    BY <1>7, <2>1, <2>2 DEF Vacant, SlotFits, On, In, Up, Running
  <2>4. \A q \in Pid : ~On(q, z, {"open", "write"})
    BY <2>1, <2>2 DEF SlotFits, Vacant
  <2>5. \A q \in Pid : ~On(q, z, {"write"})'
    BY <1>7, <2>4 DEF On, In, Running, Starting
  <2> QED
    BY <2>3, <2>5 DEF SlotFits, Vacant
<1>9. \A s \in clean' : Keeps(s) \/ SlotFits(s)'
  BY <1>6, <1>8, RememberType DEF FileInv
<1> QED
  BY <1>4, <1>5, <1>9, StepKeeps

LEMMA ServerStepKeeps ==
    ASSUME FileInv, Remember, Outside, NEW p \in Pid, ServerStep(p)
    PROVE  FileInv'
  BY CheckPidFileKeeps, OpenPidFileKeeps, WritePidFileKeeps, RemoveOwnFileKeeps,
     UnlinkOwnFileKeeps, DiesKeeps DEF ServerStep

-----------------------------------------------------------------------------
\* Initially, at every step, and so always.
LEMMA FileInit == Init => FileInv
<1> SUFFICES ASSUME Init
             PROVE  FileInv
  OBVIOUS
<1>1. NoCommand("idle", TRUE) \in Command
  <2>1. "idle" \in Point /\ "none" \in Op
    BY DEF Point, Op
  <2> QED
    BY <2>1, Zero DEF NoCommand, Command
<1>2. NoServer("none") \in [status: Status, slot: Slot, parent: Cli \union {NoCli}]
  BY Zero DEF NoServer, Status
<1>3. TypeOK
  <2>1. 0 \in 0 .. MaxEvents
    OBVIOUS
  <2> QED
    BY <1>1, <1>2, <2>1 DEF Init, TypeOK
<1>4. \A c \in Cli : LevelFits(c) /\ PidFits(c)
  BY DEF Init, LevelFits, PidFits, At, NoCommand
<1>5. NamesKnown
  BY DEF Init, NamesKnown
<1>6. \A s \in Slot : SlotFits(s) /\ OneStarter(s) /\ NoneUnlinks(s)
  BY DEF Init, SlotFits, OneStarter, NoneUnlinks, On, In, NoServer, Up, Starting, At,
         NoCommand, Unlinking
<1> QED
  BY <1>3, <1>4, <1>5, <1>6 DEF FileInv, TypeOK

LEMMA EventKeeps ==
    ASSUME FileInv, Remember, Event
    PROVE  FileInv'
<1>1. TypeOK /\ events' \in 0 .. MaxEvents
  BY DEF Event, FileInv, TypeOK
<1>2. CASE OrchestratorServe \/ WorkerServe
  <2>1. PICK s \in Slot : Serve(s)
    BY <1>2, Zero DEF OrchestratorServe, WorkerServe
  <2>2. Outside
    BY <1>1, <2>1 DEF Serve, redisVars, Outside, TypeOK
  <2> QED
    BY <2>1, <2>2, ServeKeeps
<1>3. CASE \E p \in Pid : ServerReturns(p) \/ ServerCrash(p)
  <2>1. Outside
    BY <1>1, <1>3 DEF ServerReturns, ServerCrash, redisVars, Outside, TypeOK
  <2> QED
    BY <1>3, <2>1, ServerReturnsKeeps, ServerCrashKeeps
<1>4. CASE \E c \in Cli : Interrupt(c)
  <2>1. Outside
    BY <1>1, <1>4 DEF Interrupt, redisVars, Outside, TypeOK
  <2> QED
    BY <1>4, <2>1, InterruptStep, StepIsOK
<1>5. CASE RedisExits
  <2>1. Outside
    BY <1>1, <1>5 DEF RedisExits, Outside, TypeOK
  <2>2. ServerSettles
    BY <1>1, <1>5, SameSettles DEF RedisExits
  <2> QED
    BY <1>5, <2>1, <2>2, ServerKeeps DEF RedisExits, fileVars
<1> QED
  BY <1>2, <1>3, <1>4, <1>5 DEF Event

LEMMA ActKeeps ==
    ASSUME FileInv, Remember, Act
    PROVE  FileInv'
<1>1. TypeOK /\ UNCHANGED events
  BY DEF Act, FileInv
<1>2. CASE \E c \in Cli : BeginSome(c) \/ Step(c)
  BY <1>1, <1>2, BeginsOK, StepsOK, StepIsOK
<1>3. CASE \E p \in Pid : ServerStep(p)
  <2>1. Outside
    BY <1>1, <1>3, OutsideSame DEF ServerStep, CheckPidFile, OpenPidFile, WritePidFile,
       RemoveOwnFile, UnlinkOwnFile, Dies, redisVars
  <2> QED
    BY <1>3, <2>1, ServerStepKeeps
<1> QED
  BY <1>2, <1>3 DEF Act

LEMMA FileStutters == FileInv /\ UNCHANGED vars => FileInv'
<1> SUFFICES ASSUME FileInv, UNCHANGED vars
             PROVE  FileInv'
  OBVIOUS
<1>1. TypeOK'
  BY DEF FileInv, vars, TypeOK
<1>2. \A c \in Cli : LevelFits(c)' /\ PidFits(c)'
  BY DEF FileInv, vars, LevelFits, PidFits, At, Known, Runs, In
<1>3. NamesKnown'
  BY DEF FileInv, vars, NamesKnown, Known
<1>4. \A s \in clean' : SlotFits(s)' /\ OneStarter(s)' /\ NoneUnlinks(s)'
  BY DEF FileInv, vars, SlotFits, OneStarter, NoneUnlinks, Vacant, On, In, At
<1> QED
  BY <1>1, <1>2, <1>3, <1>4 DEF FileInv

LEMMA FileInvariant == Spec => []FileInv
<1>1. FileInv /\ [Next]_vars => FileInv'
  BY ActKeeps, EventKeeps, FileStutters DEF Next
<1> QED
  BY <1>1, FileInit, PTL DEF Spec

(***************************************************************************)
(* Whatever commands, servers and operators do on however many pid files:  *)
(* a server that is up is the one its pid file names, unless two start-ups *)
(* or a start-up and an unlink have raced on that file.                    *)
(***************************************************************************)
THEOREM PidFilesNameTheirServers == Spec => []NamedByItsFile
<1>1. FileInv => NamedByItsFile
  BY DEF FileInv, NamedByItsFile, SlotFits, On, In, Up
<1> QED
  BY <1>1, FileInvariant, PTL

-----------------------------------------------------------------------------
(***************************************************************************)
(* What stop, infra down and a failing infra up are sure to reach.  Each   *)
(* server that such a command owes an end is on a file it will still       *)
(* visit, or on the one it is at, and then it is the server it signals;    *)
(* the last signal leaves nobody, or infra down fails on a worker.  infra  *)
(* up owes an end to each child, and holds its pid until it has seen it up. *)
(***************************************************************************)
\* The points at which infra up starts servers, at which servers are stopped, and
\* at which the container is removed.
Raising  == {"ensure", "unlink dead", "spawn", "await", "abort"}
Stopping == {"next", "read", "drop", "signal", "wait", "forget", "unlink"}
Ending   == {"remove", "rm"}

\* A command that only stops servers.
Stops(c) == Single(c) \/ cmd[c].op = "down"

\* To whom a command owes an end: infra down to workers, until it has failed on
\* one, and infra up to its children.
Owes(c, p) ==
    \/ Single(c)
    \/ cmd[c].op = "down" /\ cmd[c].ok /\ server[p].slot # 0
    \/ cmd[c].op = "up" /\ server[p].parent = c

\* Server p is still ahead of a command that stops servers.
Sought(c, p) ==
    LET s == server[p].slot
    IN  \/ s \in cmd[c].todo /\ At(c, Stopping)
        \/ s = cmd[c].at /\ At(c, {"read"})
        \/ /\ s = cmd[c].at /\ At(c, {"signal", "wait"}) /\ cmd[c].pid = p
           /\ At(c, {"wait"}) => cmd[c].level # 3 \/ cmd[c].op = "down"

\* Child p of an infra up is awaited, or up on a file that is ahead of it.
Reared(c, p) ==
    LET s == server[p].slot
    IN  \/ /\ s = cmd[c].at /\ At(c, {"await", "abort"}) /\ cmd[c].pid = p
           /\ At(c, {"abort"}) => cmd[c].level # 3
        \/ In(p, Up) /\ s \in cmd[c].todo /\ At(c, Raising)
        \/ In(p, Up) /\ Sought(c, p)

\* Whom a stop has found running it seeks.  A single command has one file.
StopFits(c) ==
    /\ Single(c) => cmd[c].todo = {}
    /\ Stops(c) => At(c, Stopping \union Ending)
    /\ ~Stops(c) => found[c] = {}
    /\ \A p \in found[c] :
          /\ Known(p)
          /\ Runs(p) => In(p, Up)
          /\ Runs(p) /\ server[p].slot \in clean /\ Owes(c, p) => Sought(c, p)

\* What an infra up has started it rears, and before it begins there is nothing.
UpFits(c) ==
    /\ cmd[c].op = "up" =>
          \A p \in Pid \ missed :
              Runs(p) /\ server[p].parent = c /\ server[p].slot \in clean => Reared(c, p)
    /\ At(c, {"idle"}) => \A p \in Pid : server[p].parent # c

\* A failing infra up that has created the container comes to remove it.
MineFits(c) ==
    cmd[c].op = "up" =>
        /\ At(c, Stopping) => ~cmd[c].ok
        /\ cmd[c].mine => /\ At(c, {"ready", "remove", "rm"} \union Raising \union Stopping)
                          /\ At(c, {"remove", "rm"}) => ~cmd[c].ok

\* What each command owes.
OwnFits(c) == StopFits(c) /\ UpFits(c) /\ MineFits(c)

\* Who is named has written the file.
NamedAreUp == \A s \in Slot : file[s] # NoPid => ~In(file[s], Starting)

\* Without a container there is nobody who has created it.
RedisFits == redis = "none" => redisBy = NoCli

\* The inductive invariant of what the commands owe.
ChaseInv ==
    /\ FileInv
    /\ \A c \in Cli : OwnFits(c)
    /\ NamedAreUp
    /\ RedisFits

-----------------------------------------------------------------------------
\* A process that is spawned, and one that was there and still is.
Born(p) == server[p].status = "none" /\ server'[p] # server[p]

Stays(p) == Runs(p) /\ Runs(p)' /\ server[p].slot \in clean

\* A command that stops servers does nothing else, and a failure is not forgotten.
Abides(c) ==
    /\ Single(c) => cmd'[c].todo = {}
    /\ Stops(c) => At(c, Stopping \union Ending)'
    /\ cmd[c].op = "down" /\ cmd'[c].ok => cmd[c].ok

\* What a step of c that does not end the command owes to those it is to stop.
Carries(c) ==
    /\ cmd'[c].op = cmd[c].op /\ cmd'[c].point \notin {"idle", "ended"}
    /\ Abides(c)
    /\ \A p \in Pid :
          Stays(p) /\ In(p, Up) /\ Sought(c, p) /\ Owes(c, p)' => Sought(c, p)'
    /\ cmd[c].op = "up" =>
          \A p \in Pid \ missed' :
              /\ Stays(p) /\ server[p].parent = c /\ Reared(c, p) => Reared(c, p)'
              /\ Born(p) /\ server'[p].parent = c => Reared(c, p)'
    /\ MineFits(c)'

AllAge == \A p \in Pid : Ages(p)

LEMMA AgesOne ==
    ASSUME AllAge, NEW p \in Pid, ~Born(p), Runs(p)'
    PROVE  /\ Runs(p) /\ (In(p, Up) => In(p, Up)')
           /\ server'[p].slot = server[p].slot /\ server'[p].parent = server[p].parent
  BY DEF AllAge, Ages, Born, Runs, In, Running, Starting

LEMMA FoundBefore ==
    ASSUME TypeOK, Remember, NEW c \in Cli, Active(c)
    PROVE  found'[c] \subseteq found[c]
  BY DEF Remember

LEMMA MissedStays ==
    ASSUME TypeOK, Remember, NEW p \in Pid, Runs(p)', p \notin missed'
    PROVE  p \notin missed
  BY DEF Remember

\* A command that goes on.
LEMMA CarriesFits ==
    ASSUME ChaseInv, Remember, AllAge, NEW c \in Cli, Active(c), Carries(c)
    PROVE  OwnFits(c)'
<1>1. TypeOK /\ OwnFits(c)
  BY DEF ChaseInv, FileInv
<1>2. clean' \subseteq clean
  BY <1>1, RememberType
<1>3. ASSUME NEW p \in found'[c]
      PROVE  /\ p \in Pid /\ server'[p].status # "none"
             /\ Runs(p)' => In(p, Up)'
             /\ Runs(p)' /\ server'[p].slot \in clean' /\ Owes(c, p)' => Sought(c, p)'
  <2>1. p \in found[c]
    BY <1>1, FoundBefore
  <2>2. p \in Pid /\ server[p].status # "none"
    BY <1>1, <2>1 DEF OwnFits, StopFits, Known
  <2>3. Runs(p) => In(p, Up)
    BY <1>1, <2>1 DEF OwnFits, StopFits
  <2>4. Runs(p) /\ server[p].slot \in clean /\ Owes(c, p) => Sought(c, p)
    BY <1>1, <2>1 DEF OwnFits, StopFits
  <2>5. ~Born(p)
    BY <2>2 DEF Born
  <2>6. server'[p].status # "none"
    BY <2>2 DEF AllAge, Ages
  <2>7. ASSUME Runs(p)'
        PROVE  In(p, Up)' /\ (server'[p].slot \in clean' /\ Owes(c, p)' => Sought(c, p)')
    <3>1. /\ Runs(p) /\ (In(p, Up) => In(p, Up)')
          /\ server'[p].slot = server[p].slot /\ server'[p].parent = server[p].parent
      BY <2>2, <2>5, <2>7, AgesOne
    <3>2. Owes(c, p)' => Owes(c, p)
      BY <3>1 DEF Owes, Single, Carries, Abides
    <3> QED
      BY <1>2, <2>2, <2>3, <2>4, <2>7, <3>1, <3>2 DEF Carries, Stays
  <2> QED
    BY <2>2, <2>6, <2>7
<1>4. StopFits(c)'
  <2>1. /\ Single(c)' <=> Single(c)
        /\ Stops(c)' <=> Stops(c)
    BY DEF Carries, Single, Stops
  <2>2. ~Stops(c) => found'[c] = {}
    BY <1>1, FoundBefore DEF OwnFits, StopFits
  <2> QED
    BY <1>3, <2>1, <2>2 DEF StopFits, Known, Carries, Abides
<1>5. ASSUME cmd[c].op = "up", NEW p \in Pid \ missed', Runs(p)', server'[p].parent = c,
             server'[p].slot \in clean'
      PROVE  Reared(c, p)'
  <2>1. p \notin missed
    BY <1>1, <1>5, MissedStays
  <2>2. CASE Born(p)
    BY <1>5, <2>2 DEF Carries
  <2>3. CASE ~Born(p)
    <3>1. Runs(p) /\ server'[p].slot = server[p].slot /\ server'[p].parent = server[p].parent
      BY <1>5, <2>3, AgesOne
    <3>2. Stays(p) /\ server[p].parent = c
      BY <1>2, <1>5, <3>1 DEF Stays
    <3>3. Reared(c, p)
      BY <1>1, <1>5, <2>1, <3>2 DEF OwnFits, UpFits, Stays
    <3> QED
      BY <1>5, <3>2, <3>3 DEF Carries
  <2> QED
    BY <2>2, <2>3
<1>6. UpFits(c)'
  BY <1>5 DEF UpFits, Carries, At
<1> QED
  BY <1>4, <1>6 DEF OwnFits, Carries

\* A command that has ended owes nothing.
Over(c) == \E point \in {"ended", "interrupted"}, ok \in BOOLEAN :
              cmd'[c] = NoCommand(point, ok)

LEMMA OverFits ==
    ASSUME TypeOK, Remember, NEW c \in Cli, Over(c)
    PROVE  OwnFits(c)'
<1>1. /\ cmd'[c].op = "none" /\ cmd'[c].point \in {"ended", "interrupted"}
  BY DEF Over, NoCommand
<1>2. found'[c] = {}
  BY <1>1 DEF Remember, Active
<1> QED
  BY <1>1, <1>2 DEF OwnFits, StopFits, UpFits, MineFits, Single, Stops, At

\* A command that does not move owes what it owed, if the others have no children for it.
LEMMA OtherFits ==
    ASSUME ChaseInv, Remember, AllAge, NEW c \in Cli, cmd'[c] = cmd[c],
           \A p \in Pid : Born(p) => server'[p].parent # c
    PROVE  OwnFits(c)'
<1>1. TypeOK /\ OwnFits(c)
  BY DEF ChaseInv, FileInv
<1>3. ASSUME NEW p \in Pid, Stays(p)
      PROVE  /\ ~Born(p) /\ server'[p].slot = server[p].slot
             /\ Sought(c, p) => Sought(c, p)'
             /\ Reared(c, p) => Reared(c, p)'
  <2>1. ~Born(p)
    BY <1>3 DEF Born, Stays, Runs, In, Running, Starting
  <2>2. server'[p].slot = server[p].slot /\ (In(p, Up) => In(p, Up)')
    BY <1>3, <2>1, AgesOne DEF Stays
  <2>3. Sought(c, p) => Sought(c, p)'
    BY <2>2 DEF Sought, At
  <2>4. Reared(c, p) => Reared(c, p)'
    BY <2>2, <2>3 DEF Reared, At
  <2> QED
    BY <2>1, <2>2, <2>3, <2>4
<1>4. MineFits(c)'
  BY <1>1 DEF OwnFits, MineFits, At
<1>5. CASE Active(c)
  <2>1. Carries(c)
    <3>1. Abides(c)
      BY <1>1 DEF OwnFits, StopFits, Abides, At
    <3>2. cmd'[c].point \notin {"idle", "ended"}
      BY <1>5 DEF Active, At
    <3> QED
      BY <1>3, <1>4, <3>1, <3>2 DEF Carries
  <2> QED
    BY <1>5, <2>1, CarriesFits
<1>6. CASE ~Active(c)
  <2>1. found'[c] = {}
    BY <1>6 DEF Remember, Active
  <2>2. StopFits(c)'
    BY <1>1, <2>1 DEF OwnFits, StopFits, Single, Stops, At
  <2>3. ASSUME NEW p \in Pid, server'[p].parent = c
        PROVE  server[p].parent = c
    BY <2>3, ProcessControlAssumption DEF AllAge, Ages, Born
  <2>4. ASSUME cmd[c].op = "up", NEW p \in Pid \ missed', Runs(p)', server'[p].parent = c,
               server'[p].slot \in clean'
        PROVE  Reared(c, p)'
    <3>1. ~Born(p) /\ p \notin missed /\ server[p].parent = c
      BY <1>1, <2>3, <2>4, MissedStays
    <3>2. Runs(p) /\ server'[p].slot = server[p].slot
      BY <2>4, <3>1, AgesOne
    <3>3. Stays(p)
      BY <1>1, <2>4, <3>2, RememberType DEF Stays
    <3>4. Reared(c, p)
      BY <1>1, <2>4, <3>1, <3>3 DEF OwnFits, UpFits, Stays
    <3> QED
      BY <1>3, <3>3, <3>4
  <2>5. UpFits(c)'
    BY <1>1, <2>3, <2>4 DEF OwnFits, UpFits, At
  <2> QED
    BY <1>4, <2>2, <2>5 DEF OwnFits
<1> QED
  BY <1>5, <1>6

-----------------------------------------------------------------------------
\* The steps of a command by what they are owed for.
Unborn == \A p \in Pid : ~Born(p)

LEMMA SameUnborn ==
    ASSUME TypeOK, NEW c \in Cli, UNCHANGED server \/ server' = Reaped(c)
    PROVE  Unborn
  BY DEF Unborn, Born, Reaped

LEMMA ExitOver ==
    ASSUME TypeOK, NEW c \in Cli, NEW ok \in BOOLEAN, Exit(c, ok)
    PROVE  Over(c)
<1>1. cmd' = [cmd EXCEPT ![c] = NoCommand("ended", ok)]
  BY DEF Exit
<1>2. cmd'[c] = NoCommand("ended", ok)
  BY <1>1 DEF TypeOK
<1> QED
  BY <1>2 DEF Over

\* At the points where a command has no child and nobody to stop.
LEMMA ApartCarries ==
    ASSUME TypeOK, NEW c \in Cli, ~At(c, Raising \union Stopping), Unborn,
           cmd'[c].op = cmd[c].op, cmd'[c].point \notin {"idle", "ended"},
           Abides(c), MineFits(c)'
    PROVE  Carries(c)
<1>1. \A p \in Pid : ~Sought(c, p) /\ ~Reared(c, p)
  BY DEF Sought, Reared, At, Raising, Stopping
<1> QED
  BY <1>1 DEF Carries, Unborn

LEMMA GoToFields ==
    ASSUME TypeOK, NEW c \in Cli, NEW point, GoTo(c, point)
    PROVE  /\ cmd'[c].point = point
           /\ cmd'[c].op = cmd[c].op /\ cmd'[c].at = cmd[c].at /\ cmd'[c].pid = cmd[c].pid
           /\ cmd'[c].level = cmd[c].level /\ cmd'[c].todo = cmd[c].todo
           /\ cmd'[c].mine = cmd[c].mine /\ cmd'[c].ok = cmd[c].ok
<1>1. cmd[c] \in Command
  BY DEF TypeOK
<1>2. cmd'[c] = [cmd[c] EXCEPT !.point = point]
  BY DEF GoTo, TypeOK
<1> QED
  BY <1>1, <1>2 DEF Command

Going == {"unlink stale", "run", "boot", "ready", "remove", "rm", "ensure"}

LEMMA GoToCarries ==
    ASSUME ChaseInv, NEW c \in Cli, NEW point \in Going, GoTo(c, point),
           ~At(c, Raising \union Stopping), Unborn, Stops(c) => point \in Ending,
           cmd[c].op = "up" /\ cmd[c].mine =>
               /\ point \in {"ready", "remove", "rm"} \union Raising
               /\ point \in {"remove", "rm"} => ~cmd[c].ok
    PROVE  Carries(c)
<1>1. TypeOK /\ OwnFits(c)
  BY DEF ChaseInv, FileInv
<1>2. /\ cmd'[c].point = point
      /\ cmd'[c].op = cmd[c].op /\ cmd'[c].todo = cmd[c].todo
      /\ cmd'[c].mine = cmd[c].mine /\ cmd'[c].ok = cmd[c].ok
  BY <1>1, GoToFields
<1>3. MineFits(c)'
  BY <1>2 DEF MineFits, At, Going, Stopping
<1>4. Abides(c)
  BY <1>1, <1>2 DEF OwnFits, StopFits, Abides, At
<1> QED
  BY <1>1, <1>2, <1>3, <1>4, ApartCarries DEF Going

(***************************************************************************)
(* A command that ends keeps its promise: with success nobody is left whom *)
(* it was to stop, and a failed infra up leaves none of what it started.   *)
(***************************************************************************)
Fulfils(c) ==
    /\ Over(c)
    /\ cmd'[c].ok => /\ \A p \in Pid : ~(Stays(p) /\ In(p, Up) /\ Sought(c, p))
                     /\ cmd[c].op = "down" => cmd[c].ok
    /\ cmd[c].op = "up" /\ ~cmd'[c].ok =>
          /\ Unborn
          /\ \A p \in Pid : ~(Stays(p) /\ Reared(c, p))
          /\ cmd[c].mine => redisBy' # c \/ Refuses(c)

LEMMA ExitFulfils ==
    ASSUME TypeOK, NEW c \in Cli, NEW ok \in BOOLEAN, Exit(c, ok),
           ok => \A p \in Pid : ~(Stays(p) /\ In(p, Up) /\ Sought(c, p)),
           cmd[c].op = "down" /\ ok => cmd[c].ok,
           cmd[c].op = "up" /\ ~ok =>
               /\ \A p \in Pid : ~(Stays(p) /\ Reared(c, p))
               /\ cmd[c].mine => redisBy' # c \/ Refuses(c)
    PROVE  Fulfils(c)
<1>1. cmd' = [cmd EXCEPT ![c] = NoCommand("ended", ok)] /\ server' = Reaped(c)
  BY DEF Exit
<1>2. cmd'[c].ok = ok
  BY <1>1 DEF TypeOK, NoCommand
<1>3. Over(c) /\ Unborn
  BY <1>1, ExitOver, SameUnborn
<1> QED
  BY <1>2, <1>3 DEF Fulfils

LEMMA ApartExit ==
    ASSUME ChaseInv, NEW c \in Cli, NEW ok \in BOOLEAN, Exit(c, ok),
           ~At(c, Raising \union Stopping),
           cmd[c].op = "down" /\ ok => cmd[c].ok,
           cmd[c].op = "up" /\ ~ok /\ cmd[c].mine => redisBy' # c \/ Refuses(c)
    PROVE  Fulfils(c)
<1>1. \A p \in Pid : ~Sought(c, p) /\ ~Reared(c, p)
  BY DEF Sought, Reared, At, Raising, Stopping
<1> QED
  BY <1>1, ExitFulfils DEF ChaseInv, FileInv

\* A failed infra up goes to stop what it has started; its last child is dead.
LEMMA FailCarries ==
    ASSUME ChaseInv, AllAge, NEW c \in Cli, Fail(c), ~At(c, Stopping), ~At(c, {"await"}),
           At(c, {"abort"}) => ~Runs(cmd[c].pid) \/ cmd[c].level = 3
    PROVE  Fulfils(c) \/ Carries(c)
<1>1. TypeOK /\ OwnFits(c) /\ cmd[c] \in Command
  BY DEF ChaseInv, FileInv, TypeOK
<1>2. CASE cmd[c].op # "up"
  <2>1. Exit(c, FALSE)
    BY <1>2 DEF Fail
  <2> QED
    BY <1>1, <1>2, <2>1, ExitFulfils
<1>3. CASE cmd[c].op = "up"
  <2>1. /\ cmd'[c] = [cmd[c] EXCEPT !.point = "next", !.ok = FALSE, !.pid = NoPid, !.level = 0]
        /\ server' = Reaped(c)
    BY <1>1, <1>3 DEF Fail, TypeOK
  <2>2. /\ cmd'[c].point = "next" /\ cmd'[c].ok = FALSE
        /\ cmd'[c].op = "up" /\ cmd'[c].todo = cmd[c].todo
    BY <1>1, <1>3, <2>1 DEF Command
  <2>3. Unborn
    BY <1>1, <2>1, SameUnborn
  <2>4. \A p \in Pid : ~Sought(c, p)
    BY DEF Sought, At, Stopping
  <2>5. ASSUME NEW p \in Pid, Stays(p), Reared(c, p)
        PROVE  Reared(c, p)'
    <3>1. In(p, Up) /\ server[p].slot \in cmd[c].todo
      BY <2>4, <2>5 DEF Reared, Stays, At
    <3>2. In(p, Up)' /\ server'[p].slot = server[p].slot
      BY <2>3, <2>5, <3>1, AgesOne DEF Unborn, Stays
    <3> QED
      BY <2>2, <3>1, <3>2 DEF Reared, Sought, At, Stopping
  <2>6. MineFits(c)'
    BY <2>2 DEF MineFits, At, Stopping
  <2> QED
    BY <1>3, <2>2, <2>3, <2>4, <2>5, <2>6 DEF Carries, Unborn, Abides, Single, Stops
<1> QED
  BY <1>2, <1>3

\* At the points where a command stops servers, its own children are among those.
LEMMA StoppingCarries ==
    ASSUME ChaseInv, AllAge, NEW c \in Cli, At(c, Stopping), Unborn,
           cmd'[c].op = cmd[c].op, cmd'[c].point \notin {"idle", "ended"},
           Abides(c), MineFits(c)',
           \A p \in Pid : Stays(p) /\ In(p, Up) /\ Sought(c, p) /\ Owes(c, p)' => Sought(c, p)'
    PROVE  Carries(c)
<1>1. ASSUME cmd[c].op = "up", NEW p \in Pid, Stays(p), server[p].parent = c, Reared(c, p)
      PROVE  Reared(c, p)'
  <2>1. In(p, Up) /\ Sought(c, p)
    BY <1>1 DEF Reared, At, Stopping, Raising
  <2>2. In(p, Up)' /\ Owes(c, p)'
    BY <1>1, <2>1, AgesOne DEF Unborn, Stays, Owes
  <2> QED
    BY <1>1, <2>1, <2>2 DEF Reared
<1> QED
  BY <1>1 DEF Carries, Unborn

\* What each step of a command owes, one by one.
Serves(c) == Fulfils(c) \/ Carries(c)

LEMMA ChaseOwn ==
    ASSUME ChaseInv, NEW c \in Cli
    PROVE  /\ TypeOK /\ FileInv /\ OwnFits(c) /\ cmd[c] \in Command
           /\ Single(c) => cmd[c].todo = {}
           /\ Stops(c) => At(c, Stopping \union Ending)
  BY DEF ChaseInv, FileInv, OwnFits, StopFits, TypeOK

\* Elsewhere there is nobody a command stops.
LEMMA NotStopping ==
    ASSUME ChaseInv, NEW c \in Cli, ~At(c, Stopping \union Ending)
    PROVE  ~Stops(c) /\ ~Single(c) /\ cmd[c].op # "down" /\ Abides(c)
  BY ChaseOwn DEF Stops, Abides

LEMMA PrecheckedCarries ==
    ASSUME ChaseInv, NEW c \in Cli, At(c, {"precheck", "unlink stale"}), Prechecked(c),
           UNCHANGED server
    PROVE  Carries(c)
<1> DEFINE x == IF cmd[c].at < Workers
                THEN [cmd[c] EXCEPT !.at = cmd[c].at + 1, !.point = "precheck"]
                ELSE [cmd[c] EXCEPT !.at = 0, !.point = "inspect"]
<1>1. TypeOK /\ OwnFits(c) /\ cmd[c] \in Command
  BY ChaseOwn
<1>2. cmd'[c] = x
  <2>1. CASE cmd[c].at < Workers
    BY <1>1, <2>1 DEF Prechecked, TypeOK
  <2>2. CASE ~(cmd[c].at < Workers)
    BY <1>1, <2>2 DEF Prechecked, TypeOK
  <2> QED
    BY <2>1, <2>2
<1>3. /\ x.point \in {"precheck", "inspect"}
      /\ x.op = cmd[c].op /\ x.todo = cmd[c].todo /\ x.mine = cmd[c].mine
  BY <1>1 DEF Command
<1> HIDE DEF x
<1>4. Unborn
  BY <1>1, SameUnborn
<1>5. ~At(c, Raising \union Stopping)
  BY DEF At, Raising, Stopping
<1>6. cmd[c].op = "up" => ~cmd[c].mine
  BY <1>1 DEF OwnFits, MineFits, At, Raising, Stopping
<1>7. MineFits(c)'
  BY <1>2, <1>3, <1>6 DEF MineFits, At, Stopping
<1>8. Abides(c)
  BY NotStopping DEF At, Stopping, Ending
<1> QED
  BY <1>1, <1>2, <1>3, <1>4, <1>5, <1>7, <1>8, ApartCarries

\* At the points before anything of its own has been started.
LEMMA NotMineYet ==
    ASSUME ChaseInv, NEW c \in Cli, At(c, {"precheck", "unlink stale", "inspect", "run", "boot"})
    PROVE  /\ ~At(c, Raising \union Stopping) /\ (cmd[c].op = "up" => ~cmd[c].mine)
           /\ ~Stops(c) /\ cmd[c].op # "down" /\ Abides(c)
  BY ChaseOwn, NotStopping DEF OwnFits, MineFits, At, Raising, Stopping, Ending

LEMMA PrecheckServes ==
    ASSUME ChaseInv, NEW c \in Cli, Precheck(c)
    PROVE  Serves(c)
<1>1. /\ TypeOK /\ ~At(c, Raising \union Stopping) /\ (cmd[c].op = "up" => ~cmd[c].mine)
      /\ ~Stops(c) /\ cmd[c].op # "down"
  BY ChaseOwn, NotMineYet DEF Precheck, At
<1>2. ASSUME Exit(c, FALSE)
      PROVE  Serves(c)
  BY <1>1, <1>2, ApartExit DEF Serves
<1>3. ASSUME GoTo(c, "unlink stale"), UNCHANGED server
      PROVE  Serves(c)
  <2>1. "unlink stale" \in Going
    BY DEF Going
  <2> QED
    BY <1>1, <1>3, <2>1, SameUnborn, GoToCarries DEF Serves, Raising
<1>4. ASSUME Prechecked(c), UNCHANGED server
      PROVE  Serves(c)
  BY <1>4, PrecheckedCarries DEF Serves, Precheck, At
<1> QED
  BY <1>2, <1>3, <1>4 DEF Precheck

LEMMA UnlinkStaleServes ==
    ASSUME ChaseInv, NEW c \in Cli, UnlinkStale(c)
    PROVE  Serves(c)
  BY PrecheckedCarries DEF UnlinkStale, Serves, At

LEMMA InspectServes ==
    ASSUME ChaseInv, NEW c \in Cli, Inspect(c)
    PROVE  Serves(c)
<1>1. /\ TypeOK /\ ~At(c, Raising \union Stopping) /\ (cmd[c].op = "up" => ~cmd[c].mine)
      /\ ~Stops(c) /\ cmd[c].op # "down"
  BY ChaseOwn, NotMineYet DEF Inspect, At
<1>2. ASSUME NEW ok \in BOOLEAN, Exit(c, ok)
      PROVE  Serves(c)
  BY <1>1, <1>2, ApartExit DEF Serves
<1>3. ASSUME NEW point \in {"run", "remove"}, GoTo(c, point), server' = Reaped(c)
      PROVE  Serves(c)
  BY <1>1, <1>3, SameUnborn, GoToCarries DEF Serves, Raising, Going
<1> QED
  BY <1>2, <1>3 DEF Inspect

LEMMA DockerRunServes ==
    ASSUME ChaseInv, AllAge, NEW c \in Cli, DockerRun(c)
    PROVE  Serves(c)
<1>1. /\ TypeOK /\ ~At(c, Raising \union Stopping) /\ (cmd[c].op = "up" => ~cmd[c].mine)
      /\ ~Stops(c) /\ cmd[c].op # "down"
  BY ChaseOwn, NotMineYet DEF DockerRun, At
<1>2. ASSUME Fail(c)
      PROVE  Serves(c)
  BY <1>1, <1>2, FailCarries DEF Serves, At, Raising, Stopping
<1>3. ASSUME GoTo(c, "boot"), server' = Reaped(c)
      PROVE  Serves(c)
  BY <1>1, <1>3, SameUnborn, GoToCarries DEF Serves, Raising, Going
<1> QED
  BY <1>2, <1>3 DEF DockerRun

LEMMA DockerBootServes ==
    ASSUME ChaseInv, AllAge, NEW c \in Cli, DockerBoot(c)
    PROVE  Serves(c)
<1>1. /\ TypeOK /\ ~At(c, Raising \union Stopping) /\ (cmd[c].op = "up" => ~cmd[c].mine)
      /\ cmd[c] \in Command /\ Abides(c)
  BY ChaseOwn, NotMineYet DEF DockerBoot, At
<1>2. ASSUME Fail(c)
      PROVE  Serves(c)
  BY <1>1, <1>2, FailCarries DEF Serves, At, Raising, Stopping
<1>3. ASSUME cmd' = [cmd EXCEPT ![c].point = "ready", ![c].mine = TRUE], UNCHANGED server
      PROVE  Serves(c)
  <2>1. cmd'[c] = [cmd[c] EXCEPT !.point = "ready", !.mine = TRUE]
    BY <1>1, <1>3 DEF TypeOK
  <2>2. cmd'[c].point = "ready" /\ cmd'[c].op = cmd[c].op /\ cmd'[c].todo = cmd[c].todo
    BY <1>1, <2>1 DEF Command
  <2>3. MineFits(c)'
    BY <2>2 DEF MineFits, At, Stopping
  <2> QED
    BY <1>1, <1>3, <2>2, <2>3, SameUnborn, ApartCarries DEF Serves
<1> QED
  BY <1>2, <1>3 DEF DockerBoot

LEMMA WaitForRedisReadyServes ==
    ASSUME ChaseInv, AllAge, NEW c \in Cli, WaitForRedisReady(c)
    PROVE  Serves(c)
<1>1. /\ TypeOK /\ ~At(c, Raising \union Stopping)
      /\ ~Stops(c) /\ cmd[c].op # "down"
  BY ChaseOwn, NotStopping DEF WaitForRedisReady, At, Raising, Stopping, Ending
<1>2. ASSUME Fail(c)
      PROVE  Serves(c)
  BY <1>1, <1>2, FailCarries DEF Serves, At, Raising, Stopping
<1>3. ASSUME cmd[c].op = "up", GoTo(c, "ensure"), UNCHANGED server
      PROVE  Serves(c)
  <2>1. "ensure" \in Raising
    BY DEF Raising
  <2> QED
    BY <1>1, <1>3, <2>1, SameUnborn, GoToCarries DEF Serves, Raising, Going
<1>4. ASSUME Exit(c, TRUE)
      PROVE  Serves(c)
  BY <1>1, <1>4, ApartExit DEF Serves
<1> QED
  BY <1>2, <1>3, <1>4 DEF WaitForRedisReady

\* At the points where the container is removed.
LEMMA Removing ==
    ASSUME ChaseInv, NEW c \in Cli, At(c, {"remove", "rm"})
    PROVE  /\ TypeOK /\ cmd[c].ok \in BOOLEAN
           /\ ~At(c, Raising \union Stopping)
           /\ cmd[c].op = "up" /\ cmd[c].mine => ~cmd[c].ok
  BY ChaseOwn DEF OwnFits, MineFits, At, Raising, Stopping, Command

LEMMA RemovedServes ==
    ASSUME ChaseInv, NEW c \in Cli, At(c, {"remove", "rm"}), NEW removed \in BOOLEAN,
           Removed(c, removed), redisBy' # c \/ Refuses(c)
    PROVE  Serves(c)
<1>1. /\ TypeOK /\ cmd[c].ok \in BOOLEAN
      /\ ~At(c, Raising \union Stopping)
      /\ cmd[c].op = "up" /\ cmd[c].mine => ~cmd[c].ok
  BY Removing
<1>2. ASSUME \/ cmd[c].op \in {"redis start", "redis restart"}
             \/ cmd[c].op = "up" /\ cmd[c].ok,
             GoTo(c, "run"), server' = Reaped(c)
      PROVE  Serves(c)
  BY <1>1, <1>2, SameUnborn, GoToCarries DEF Serves, Stops, Single, Going
<1>3. ASSUME NEW ok \in BOOLEAN, Exit(c, ok), cmd[c].op = "down" => ok = cmd[c].ok
      PROVE  Serves(c)
  BY <1>1, <1>3, ApartExit DEF Serves
<1> QED
  BY <1>1, <1>2, <1>3 DEF Removed

LEMMA InspectForRemovalServes ==
    ASSUME ChaseInv, NEW c \in Cli, InspectForRemoval(c)
    PROVE  Serves(c)
<1>1. TypeOK /\ ~At(c, Raising \union Stopping) /\ At(c, {"remove", "rm"})
      /\ (cmd[c].op = "up" /\ cmd[c].mine => ~cmd[c].ok)
  BY Removing DEF InspectForRemoval, At
<1>2. ASSUME GoTo(c, "rm"), server' = Reaped(c)
      PROVE  Serves(c)
  BY <1>1, <1>2, SameUnborn, GoToCarries DEF Serves, Ending, Going
<1>3. ASSUME Removed(c, FALSE)
      PROVE  Serves(c)
  <2>1. redisBy' # c \/ Refuses(c)
    BY <1>1, ProcessControlAssumption DEF ChaseInv, RedisFits, InspectForRemoval, redisVars, Refuses
  <2> QED
    BY <1>1, <1>3, <2>1, RemovedServes
<1> QED
  BY <1>2, <1>3 DEF InspectForRemoval

LEMMA DockerRemoveServes ==
    ASSUME ChaseInv, NEW c \in Cli, DockerRemove(c)
    PROVE  Serves(c)
<1>1. At(c, {"remove", "rm"})
  BY DEF DockerRemove, At
<1>2. redisBy' # c \/ Refuses(c)
  BY <1>1, ProcessControlAssumption DEF ChaseInv, RedisFits, DockerRemove, redisVars, Refuses
<1>3. PICK removed \in BOOLEAN : Removed(c, removed)
  BY DEF DockerRemove
<1> QED
  BY <1>1, <1>2, <1>3, RemovedServes

\* At the points where a command starts servers, it stops none.
LEMMA RaisingCarries ==
    ASSUME ChaseInv, AllAge, NEW c \in Cli, At(c, Raising), At(c, Raising)', Unborn,
           cmd'[c].op = cmd[c].op, cmd[c].todo \subseteq cmd'[c].todo,
           \A p \in Pid \ missed' :
              /\ Stays(p) /\ server[p].slot = cmd[c].at /\ server[p].parent = c
              /\ At(c, {"await", "abort"}) /\ cmd[c].pid = p
              /\ At(c, {"abort"}) => cmd[c].level # 3
              => Reared(c, p)'
    PROVE  Carries(c)
<1>1. Abides(c)
  BY NotStopping DEF At, Raising, Stopping, Ending
<1>2. /\ \A p \in Pid : ~Sought(c, p)
      /\ cmd'[c].point \notin {"idle", "ended"} /\ ~At(c, Stopping \union {"remove", "rm"})'
  BY DEF Sought, At, Raising, Stopping
<1>3. MineFits(c)'
  BY <1>2 DEF MineFits, At
<1>4. ASSUME NEW p \in Pid \ missed', Stays(p), server[p].parent = c, Reared(c, p)
      PROVE  Reared(c, p)'
  <2>1. CASE In(p, Up) /\ server[p].slot \in cmd[c].todo
    <3>1. In(p, Up)' /\ server'[p].slot = server[p].slot
      BY <1>4, <2>1, AgesOne DEF Unborn, Stays
    <3> QED
      BY <2>1, <3>1 DEF Reared
  <2>2. CASE ~(In(p, Up) /\ server[p].slot \in cmd[c].todo)
    BY <1>2, <1>4, <2>2 DEF Reared
  <2> QED
    BY <2>1, <2>2
<1> QED
  BY <1>1, <1>2, <1>3, <1>4 DEF Carries, Unborn

LEMMA EnsureNotRunningServes ==
    ASSUME ChaseInv, AllAge, NEW c \in Cli, EnsureNotRunning(c)
    PROVE  Serves(c)
<1>1. TypeOK /\ At(c, Raising) /\ ~At(c, {"await", "abort"})
  BY ChaseOwn DEF EnsureNotRunning, At, Raising
<1>2. ASSUME Fail(c)
      PROVE  Serves(c)
  BY <1>1, <1>2, FailCarries DEF Serves, At, Raising, Stopping
<1>3. ASSUME NEW point \in {"spawn", "unlink dead"}, GoTo(c, point), UNCHANGED server
      PROVE  Serves(c)
  <2>1. cmd'[c].point = point /\ cmd'[c].op = cmd[c].op /\ cmd'[c].todo = cmd[c].todo
    BY <1>1, <1>3, GoToFields
  <2>2. At(c, Raising)' /\ Unborn
    BY <1>1, <1>3, <2>1, SameUnborn DEF At, Raising
  <2> QED
    BY <1>1, <2>1, <2>2, RaisingCarries DEF Serves
<1> QED
  BY <1>2, <1>3 DEF EnsureNotRunning

LEMMA UnlinkDeadServes ==
    ASSUME ChaseInv, AllAge, NEW c \in Cli, UnlinkDead(c)
    PROVE  Serves(c)
<1>1. TypeOK /\ At(c, Raising) /\ ~At(c, {"await", "abort"})
  BY ChaseOwn DEF UnlinkDead, At, Raising
<1>2. GoTo(c, "spawn") /\ UNCHANGED server
  BY DEF UnlinkDead
<1>3. cmd'[c].point = "spawn" /\ cmd'[c].op = cmd[c].op /\ cmd'[c].todo = cmd[c].todo
  BY <1>1, <1>2, GoToFields
<1>4. At(c, Raising)' /\ Unborn
  BY <1>1, <1>2, <1>3, SameUnborn DEF At, Raising
<1> QED
  BY <1>1, <1>3, <1>4, RaisingCarries DEF Serves

\* Whom a command spawns, and that it spawns nobody else.
LEMMA SpawnedChild ==
    ASSUME TypeOK, FreePid # {}, NEW s \in Slot, NEW parent \in Cli \union {NoCli},
           \/ server' = Spawned(server, s, parent)
           \/ parent \in Cli /\ server' = Spawned(Reaped(parent), s, parent)
    PROVE  /\ Min(FreePid) \in FreePid
           /\ server'[Min(FreePid)] = [status |-> "check", slot |-> s, parent |-> parent]
           /\ \A q \in Pid : Born(q) => q = Min(FreePid)
<1>1. Min(FreePid) \in FreePid
  BY FreePidIn
<1>2. PICK t : /\ server' = Spawned(t, s, parent)
               /\ t \in {server} \union {Reaped(parent)}
  OBVIOUS
<1>3. /\ t \in [Pid -> [status: Status, slot: Slot, parent: Cli \union {NoCli}]]
      /\ \A q \in Pid : t[q] = server[q]
                     \/ (server[q].status = "zombie" /\ t[q] = NoServer("gone"))
  BY <1>2, Zero DEF Reaped, TypeOK, NoServer, Status
<1>4. { q \in Pid : t[q].status = "none" } = FreePid
  BY <1>3 DEF FreePid, NoServer
<1> DEFINE new == [status |-> "check", slot |-> s, parent |-> parent]
<1>5. server' = [t EXCEPT ![Min(FreePid)] = new]
  BY <1>2, <1>4 DEF Spawned
<1>6. /\ server'[Min(FreePid)] = new
      /\ \A q \in Pid \ {Min(FreePid)} : server'[q] = t[q]
  <2>1. Min(FreePid) \in Pid
    BY <1>1 DEF FreePid
  <2> HIDE DEF new
  <2> QED
    BY <1>3, <1>5, <2>1
<1>7. \A q \in Pid : Born(q) => q = Min(FreePid)
  BY <1>3, <1>6 DEF Born
<1> QED
  BY <1>1, <1>6, <1>7

LEMMA SpawnServes ==
    ASSUME ChaseInv, AllAge, NEW c \in Cli, Spawn(c)
    PROVE  Serves(c)
<1>1. /\ TypeOK /\ cmd[c] \in Command /\ Abides(c)
      /\ At(c, Raising) /\ ~At(c, Stopping \union {"await", "abort"})
  BY ChaseOwn, NotStopping DEF Spawn, At, Raising, Stopping, Ending
<1>2. ASSUME Fail(c)
      PROVE  Serves(c)
  BY <1>1, <1>2, FailCarries DEF Serves, At, Stopping
<1>3. ASSUME FreePid # {}, server' = Spawned(Reaped(c), cmd[c].at, c),
             cmd' = [cmd EXCEPT ![c].point = "await", ![c].pid = Min(FreePid)]
      PROVE  Serves(c)
  <2>1. PICK p : p = Min(FreePid)
    OBVIOUS
  <2>2. /\ p \in FreePid
        /\ server'[p] = [status |-> "check", slot |-> cmd[c].at, parent |-> c]
        /\ \A q \in Pid : Born(q) => q = p
    BY <1>1, <1>3, <2>1, SpawnedChild DEF Command
  <2>3. cmd'[c] = [cmd[c] EXCEPT !.point = "await", !.pid = p]
    BY <1>1, <1>3, <2>1 DEF TypeOK
  <2>4. /\ cmd'[c].point = "await" /\ cmd'[c].op = cmd[c].op /\ cmd'[c].todo = cmd[c].todo
        /\ cmd'[c].pid = p /\ cmd'[c].at = cmd[c].at
    BY <1>1, <2>3 DEF Command
  <2>5. /\ \A q \in Pid : ~Sought(c, q)
        /\ \A q \in Pid : Reared(c, q) => In(q, Up) /\ server[q].slot \in cmd[c].todo
    BY <1>1 DEF Sought, Reared, At, Stopping
  <2>6. ASSUME NEW q \in Pid, Stays(q), Reared(c, q)
        PROVE  Reared(c, q)'
    <3>1. ~Born(q)
      BY <2>6 DEF Stays, Born, Runs, In, Running, Starting
    <3>2. In(q, Up)' /\ server'[q].slot = server[q].slot
      BY <2>5, <2>6, <3>1, AgesOne DEF Stays
    <3> QED
      BY <2>4, <2>5, <2>6, <3>2 DEF Reared, At, Raising
  <2>7. ASSUME NEW q \in Pid, Born(q)
        PROVE  Reared(c, q)'
    BY <2>2, <2>4, <2>7 DEF Reared, At
  <2>8. MineFits(c)'
    BY <2>4 DEF MineFits, At, Stopping, Raising
  <2>9. Carries(c)
    BY <1>1, <2>4, <2>5, <2>6, <2>7, <2>8 DEF Carries
  <2> QED
    BY <2>9 DEF Serves
<1> QED
  BY <1>2, <1>3 DEF Spawn

\* A start-up is reported: the child is up, or mistaken for the one that is.
LEMMA StartedServes ==
    ASSUME ChaseInv, Remember, AllAge, NEW c \in Cli, Started(c)
    PROVE  Serves(c)
<1>1. /\ TypeOK /\ cmd[c] \in Command /\ OwnFits(c) /\ At(c, Raising)
      /\ At(c, {"await"}) /\ ~At(c, {"abort"}) /\ cmd[c].op # "down"
  BY ChaseOwn, NotStopping DEF Started, At, Raising, Stopping, Ending
<1>2. ASSUME Exit(c, TRUE)
      PROVE  Serves(c)
  <2>1. \A p \in Pid : ~Sought(c, p)
    BY <1>1 DEF Sought, At, Stopping
  <2> QED
    BY <1>1, <1>2, <2>1, ExitFulfils DEF Serves
<1>3. ASSUME UNCHANGED server,
             cmd' = [cmd EXCEPT ![c].point = "ensure", ![c].at = cmd[c].at + 1,
                                ![c].pid = NoPid, ![c].todo = @ \union {cmd[c].at}]
      PROVE  Serves(c)
  <2>1. cmd'[c] = [cmd[c] EXCEPT !.point = "ensure", !.at = cmd[c].at + 1,
                                 !.pid = NoPid, !.todo = @ \union {cmd[c].at}]
    BY <1>1, <1>3 DEF TypeOK
  <2>2. /\ cmd'[c].point = "ensure" /\ cmd'[c].op = cmd[c].op
        /\ cmd'[c].todo = cmd[c].todo \union {cmd[c].at}
    BY <1>1, <2>1 DEF Command
  <2>3. At(c, Raising)' /\ Unborn
    BY <1>1, <1>3, <2>2, SameUnborn DEF At, Raising
  <2>4. ASSUME NEW p \in Pid \ missed', Stays(p), server[p].slot = cmd[c].at, cmd[c].pid = p
        PROVE  Reared(c, p)'
    <3>1. ~Mistakes(c, p)
      BY <1>1, <2>4 DEF Remember, Stays
    <3>2. file[cmd[c].at] = p
      BY <1>1, <2>2, <2>4, <3>1 DEF Mistakes
    <3>3. In(p, Up)
      BY <1>1, <2>4, <3>2 DEF ChaseInv, NamedAreUp, Stays, Runs, In, Running, Up, Command
    <3> QED
      BY <1>3, <2>2, <2>3, <2>4, <3>3 DEF Reared, In
  <2> QED
    BY <1>1, <2>2, <2>3, <2>4, RaisingCarries DEF Serves
<1> QED
  BY <1>2, <1>3 DEF Started

LEMMA GiveUpServes ==
    ASSUME ChaseInv, AllAge, NEW c \in Cli, GiveUp(c)
    PROVE  Serves(c)
<1>1. /\ TypeOK /\ FileInv /\ At(c, Raising) /\ ~At(c, {"abort", "signal", "wait"})
      /\ UNCHANGED server /\ GoTo(c, "abort")
  BY ChaseOwn DEF GiveUp, At, Raising
<1>2. cmd[c].level = 0
  BY <1>1, LevelIsZero
<1>3. /\ cmd'[c].point = "abort" /\ cmd'[c].op = cmd[c].op /\ cmd'[c].todo = cmd[c].todo
      /\ cmd'[c].at = cmd[c].at /\ cmd'[c].pid = cmd[c].pid /\ cmd'[c].level = 0
  BY <1>1, <1>2, GoToFields
<1>4. At(c, Raising)' /\ Unborn
  BY <1>1, <1>3, SameUnborn DEF At, Raising
<1>5. ASSUME NEW p \in Pid, server[p].slot = cmd[c].at, cmd[c].pid = p
      PROVE  Reared(c, p)'
  BY <1>1, <1>3, <1>5 DEF Reared, At
<1> QED
  BY <1>1, <1>3, <1>4, <1>5, RaisingCarries DEF Serves

\* What a signal leads to: nobody is born of it, and a child does not outrun SIGKILL.
LEMMA SignalLeads ==
    ASSUME TypeOK, NEW c, NEW p \in Pid, Known(p), NEW level,
           NEW st \in Signalled(c, p, level), SetStatus(p, st)
    PROVE  Unborn /\ (level = 2 /\ server[p].parent = c => ~Runs(p)')
<1>1. /\ server'[p].status = st
      /\ \A q \in Pid \ {p} : server'[q] = server[q]
  BY DEF SetStatus, TypeOK, NoServer
<1>2. level = 2 /\ server[p].parent = c => st \notin Running
  BY DEF Signalled, Delivered, MayRefuse, Runs, In, Running, Starting
<1> QED
  BY <1>1, <1>2 DEF Unborn, Born, Known, Runs, In

LEMMA AbortServes ==
    ASSUME ChaseInv, AllAge, NEW c \in Cli, Abort(c)
    PROVE  Serves(c)
<1>0. PICK p : p = cmd[c].pid
  OBVIOUS
<1>1. /\ TypeOK /\ FileInv /\ cmd[c] \in Command /\ At(c, {"abort"})
      /\ At(c, Raising) /\ ~At(c, Stopping \union {"await"})
  BY ChaseOwn DEF Abort, At, Raising, Stopping
<1>2. Known(p) /\ p \in Pid
  BY <1>0, <1>1, HeldPid DEF At
<1>3. ASSUME Fail(c), ~(Runs(p) /\ cmd[c].level < 3)
      PROVE  Serves(c)
  <2>1. ~Runs(p) \/ cmd[c].level = 3
    BY <1>1, <1>3 DEF Command
  <2> QED
    BY <1>0, <1>1, <1>3, <2>1, FailCarries DEF Serves, At
<1>4. ASSUME cmd[c].level < 3, NEW st \in Signalled(c, p, cmd[c].level), SetStatus(p, st),
             cmd' = [cmd EXCEPT ![c].level = @ + 1]
      PROVE  Serves(c)
  <2>1. Unborn /\ (cmd[c].level = 2 /\ server[p].parent = c => ~Runs(p)')
    BY <1>1, <1>2, <1>4, SignalLeads
  <2>2. cmd'[c] = [cmd[c] EXCEPT !.level = cmd[c].level + 1]
    BY <1>1, <1>4 DEF TypeOK
  <2>3. /\ cmd'[c].point = "abort" /\ cmd'[c].op = cmd[c].op /\ cmd'[c].todo = cmd[c].todo
        /\ cmd'[c].at = cmd[c].at /\ cmd'[c].pid = p /\ cmd'[c].level = cmd[c].level + 1
    BY <1>0, <1>1, <2>2 DEF Command, At
  <2>4. At(c, Raising)'
    BY <2>3 DEF At, Raising
  <2>5. ASSUME NEW q \in Pid, Stays(q), server[q].slot = cmd[c].at, server[q].parent = c,
               p = q
        PROVE  Reared(c, q)'
    <3>1. server'[q].slot = server[q].slot
      BY <2>1, <2>5, AgesOne DEF Unborn, Stays
    <3>2. cmd[c].level # 2
      BY <2>1, <2>5 DEF Stays
    <3>3. cmd'[c].level # 3
      BY <1>1, <2>3, <3>2 DEF Command
    <3> QED
      BY <2>3, <2>5, <3>1, <3>3 DEF Reared, At
  <2> QED
    BY <1>0, <1>1, <2>1, <2>3, <2>4, <2>5, RaisingCarries DEF Serves
<1> QED
  BY <1>0, <1>3, <1>4 DEF Abort

-----------------------------------------------------------------------------
\* The steps that stop servers.
LEMMA ChaseStopping ==
    ASSUME ChaseInv, NEW c \in Cli, At(c, Stopping)
    PROVE  /\ TypeOK /\ FileInv /\ cmd[c] \in Command
           /\ Single(c) => cmd[c].todo = {}
           /\ cmd[c].op = "up" => ~cmd[c].ok
  BY ChaseOwn DEF OwnFits, MineFits

\* For a stop, todo is empty, so whoever it seeks is on its one file.
LEMMA StopReturnsServes ==
    ASSUME ChaseInv, AllAge, NEW c \in Cli, At(c, Stopping), NEW stopped \in BOOLEAN,
           NEW exists \in BOOLEAN, StopReturns(c, stopped, exists),
           \A p \in Pid : Stays(p) /\ In(p, Up) /\ Sought(c, p) /\ Owes(c, p) =>
               \/ server[p].slot \in cmd[c].todo
               \/ ~stopped /\ (Single(c) \/ (cmd[c].op = "down" /\ cmd[c].at # 0 /\ exists))
    PROVE  Serves(c)
<1>1. /\ TypeOK /\ cmd[c] \in Command
      /\ Single(c) => cmd[c].todo = {}
      /\ cmd[c].op = "up" => ~cmd[c].ok
  BY ChaseStopping
<1>2. CASE Single(c)
  <2>1. /\ Exit(c, stopped) /\ cmd[c].op \notin {"up", "down"}
        /\ \A p \in Pid : Owes(c, p)
    BY <1>2 DEF StopReturns, Single, Owes
  <2> QED
    BY <1>1, <1>2, <2>1, ExitFulfils DEF Serves
<1>3. CASE ~Single(c)
  <2> DEFINE fine == cmd[c].ok /\ (stopped \/ cmd[c].at = 0 \/ ~exists)
  <2>1. /\ cmd'[c] = [cmd[c] EXCEPT !.point = "next", !.pid = NoPid, !.level = 0, !.ok = fine]
        /\ UNCHANGED server
    BY <1>1, <1>3 DEF StopReturns, TypeOK
  <2>2. /\ cmd'[c].point = "next" /\ cmd'[c].op = cmd[c].op /\ cmd'[c].todo = cmd[c].todo
        /\ cmd'[c].ok = fine
    BY <1>1, <2>1 DEF Command
  <2>3. Unborn /\ ~At(c, Raising)' /\ At(c, Stopping)'
    BY <1>1, <2>1, <2>2, SameUnborn DEF At, Raising, Stopping
  <2>4. MineFits(c)'
    BY <1>1, <2>2 DEF MineFits, At, Stopping
  <2>5. ASSUME NEW p \in Pid, Stays(p), In(p, Up), Sought(c, p), Owes(c, p)'
        PROVE  Sought(c, p)'
    <3>1. Owes(c, p)
      BY <2>1, <2>2, <2>5 DEF Owes, Single
    <3>2. server[p].slot \in cmd[c].todo
      BY <1>3, <2>2, <2>5, <3>1 DEF Owes, Single
    <3> QED
      BY <2>1, <2>2, <2>3, <3>2 DEF Sought
  <2>6. Abides(c)
    BY <1>3, <2>2, <2>3 DEF Abides, At
  <2> QED
    BY <1>1, <2>2, <2>3, <2>4, <2>5, <2>6, StoppingCarries DEF Serves
<1> QED
  BY <1>2, <1>3

LEMMA StopReturnsPlain ==
    ASSUME ChaseInv, AllAge, NEW c \in Cli, At(c, Stopping), NEW stopped \in BOOLEAN,
           StopReturns(c, stopped, FALSE),
           \A p \in Pid : Sought(c, p) => server[p].slot \in cmd[c].todo
    PROVE  Serves(c)
  BY StopReturnsServes

LEMMA NextToStopServes ==
    ASSUME ChaseInv, AllAge, NEW c \in Cli, NextToStop(c)
    PROVE  Serves(c)
<1> DEFINE left == cmd[c].todo \ {0}
           s == IF left = {} THEN 0 ELSE IF cmd[c].op = "up" THEN Max(left) ELSE Min(left)
<1>1. /\ TypeOK /\ cmd[c] \in Command /\ At(c, {"next"}) /\ At(c, Stopping)
      /\ Single(c) => cmd[c].todo = {}
      /\ cmd[c].op = "up" => ~cmd[c].ok
  BY ChaseStopping DEF NextToStop, At, Stopping
<1>2. ASSUME NEW p \in Pid, Sought(c, p)
      PROVE  server[p].slot \in cmd[c].todo
  BY <1>1, <1>2 DEF Sought, At
<1>3. ASSUME UNCHANGED server,
             cmd' = [cmd EXCEPT ![c].at = s, ![c].todo = @ \ {s}, ![c].point = "read"]
      PROVE  Serves(c)
  <2> HIDE DEF s
  <2>1. cmd'[c] = [cmd[c] EXCEPT !.at = s, !.todo = @ \ {s}, !.point = "read"]
    BY <1>1, <1>3 DEF TypeOK
  <2>2. /\ cmd'[c].point = "read" /\ cmd'[c].op = cmd[c].op /\ cmd'[c].at = s
        /\ cmd'[c].todo = cmd[c].todo \ {s} /\ cmd'[c].mine = cmd[c].mine
        /\ cmd'[c].ok = cmd[c].ok
    BY <1>1, <2>1 DEF Command
  <2>3. Unborn /\ ~At(c, Raising)' /\ At(c, Stopping)'
    BY <1>1, <1>3, <2>2, SameUnborn DEF At, Raising, Stopping
  <2>4. MineFits(c)'
    BY <1>1, <2>2 DEF MineFits, At, Stopping
  <2>5. ASSUME NEW p \in Pid, Sought(c, p)
        PROVE  Sought(c, p)'
    BY <1>2, <1>3, <2>2, <2>3, <2>5 DEF Sought, At
  <2>6. Abides(c)
    BY <1>1, <2>2, <2>3 DEF Abides, At
  <2> QED
    BY <1>1, <2>2, <2>3, <2>4, <2>5, <2>6, StoppingCarries DEF Serves
<1>4. ASSUME cmd[c].op = "down" \/ cmd[c].mine, cmd[c].todo = {}, UNCHANGED server,
             cmd' = [cmd EXCEPT ![c].point = "remove", ![c].at = 0]
      PROVE  Serves(c)
  <2>1. cmd'[c] = [cmd[c] EXCEPT !.point = "remove", !.at = 0]
    BY <1>1, <1>4 DEF TypeOK
  <2>2. /\ cmd'[c].point = "remove" /\ cmd'[c].op = cmd[c].op
        /\ cmd'[c].todo = cmd[c].todo /\ cmd'[c].ok = cmd[c].ok
    BY <1>1, <2>1, Zero DEF Command
  <2>3. Unborn /\ Abides(c)
    BY <1>1, <1>4, <2>2, SameUnborn DEF Abides, At, Ending
  <2>4. MineFits(c)'
    BY <1>1, <2>2 DEF MineFits, At, Stopping
  <2> QED
    BY <1>1, <1>2, <1>4, <2>2, <2>3, <2>4, StoppingCarries DEF Serves
<1>5. ASSUME cmd[c].todo = {}, ~cmd[c].mine, Exit(c, FALSE)
      PROVE  Serves(c)
  <2>1. \A p \in Pid : ~Sought(c, p) /\ ~Reared(c, p)
    BY <1>2, <1>5, <1>1 DEF Reared, At
  <2> QED
    BY <1>1, <1>5, <2>1, ExitFulfils DEF Serves
<1> QED
  <2> HIDE DEF s
  <2> QED
    BY <1>3, <1>4, <1>5 DEF NextToStop, s

\* On a file without a race the pid it says is that of the server that is up.
LEMMA ReadPidServes ==
    ASSUME ChaseInv, AllAge, NEW c \in Cli, ReadPid(c)
    PROVE  Serves(c)
<1>0. PICK q : q = file[cmd[c].at]
  OBVIOUS
<1>1. /\ TypeOK /\ FileInv /\ cmd[c] \in Command /\ At(c, {"read"}) /\ At(c, Stopping)
      /\ Single(c) => cmd[c].todo = {}
      /\ cmd[c].op = "up" => ~cmd[c].ok
  BY ChaseStopping DEF ReadPid, At, Stopping
<1>2. ASSUME NEW p \in Pid, Stays(p), In(p, Up), Sought(c, p)
      PROVE  server[p].slot \in cmd[c].todo \/ (server[p].slot = cmd[c].at /\ q = p /\ IsProcessAlive(q))
  <2>1. server[p].slot \in cmd[c].todo \/ server[p].slot = cmd[c].at
    BY <1>1, <1>2 DEF Sought
  <2>2. server[p].slot = cmd[c].at => q = p
    BY <1>0, <1>1, <1>2 DEF FileInv, SlotFits, On, Stays
  <2>3. IsProcessAlive(p)
    BY <1>2 DEF IsProcessAlive, Stays, Runs, In
  <2> QED
    BY <2>1, <2>2, <2>3
<1>3. ASSUME Exit(c, FALSE), Single(c)
      PROVE  Serves(c)
  BY <1>1, <1>3, ExitFulfils DEF Serves, Single
<1>4. ASSUME GoTo(c, "drop"), UNCHANGED server, q = NoPid
      PROVE  Serves(c)
  <2>1. /\ cmd'[c].point = "drop" /\ cmd'[c].op = cmd[c].op /\ cmd'[c].todo = cmd[c].todo
        /\ cmd'[c].ok = cmd[c].ok /\ cmd'[c].mine = cmd[c].mine
    BY <1>1, <1>4, GoToFields
  <2>2. Unborn /\ ~At(c, Raising)' /\ At(c, Stopping)'
    BY <1>1, <1>4, <2>1, SameUnborn DEF At, Raising, Stopping
  <2>3. MineFits(c)'
    BY <1>1, <2>1 DEF MineFits, At, Stopping
  <2>4. ASSUME NEW p \in Pid, Stays(p), In(p, Up), Sought(c, p)
        PROVE  Sought(c, p)'
    BY <1>2, <1>4, <2>1, <2>2, <2>4 DEF Sought
  <2>5. Abides(c)
    BY <1>1, <2>1, <2>2 DEF Abides, At
  <2> QED
    BY <1>1, <2>1, <2>2, <2>3, <2>4, <2>5, StoppingCarries DEF Serves
<1>5. ASSUME UNCHANGED server,
             cmd' = [cmd EXCEPT ![c].pid = q,
                                ![c].point = IF IsProcessAlive(q) THEN "signal" ELSE "forget",
                                ![c].ok = IF Single(c) THEN IsProcessAlive(q) ELSE @]
      PROVE  Serves(c)
  <2>0. PICK point \in {"signal", "forget"} :
            point = IF IsProcessAlive(q) THEN "signal" ELSE "forget"
    OBVIOUS
  <2>1. cmd'[c] = [cmd[c] EXCEPT !.pid = q, !.point = point,
                                 !.ok = IF Single(c) THEN IsProcessAlive(q) ELSE @]
    BY <1>1, <1>5, <2>0 DEF TypeOK
  <2>2. /\ cmd'[c].point = point /\ cmd'[c].op = cmd[c].op /\ cmd'[c].todo = cmd[c].todo
        /\ cmd'[c].at = cmd[c].at /\ cmd'[c].pid = q /\ cmd'[c].mine = cmd[c].mine
        /\ ~Single(c) => cmd'[c].ok = cmd[c].ok
    BY <1>1, <2>1 DEF Command
  <2>3. Unborn /\ ~At(c, Raising)' /\ At(c, Stopping)'
    BY <1>1, <1>5, <2>2, SameUnborn DEF At, Raising, Stopping
  <2>4. MineFits(c)'
    BY <1>1, <2>2, <2>3 DEF MineFits, At, Stopping, Single
  <2>5. ASSUME NEW p \in Pid, Stays(p), In(p, Up), Sought(c, p)
        PROVE  Sought(c, p)'
    BY <1>2, <1>5, <2>0, <2>2, <2>3, <2>5 DEF Sought, At
  <2>6. Abides(c)
    BY <1>1, <2>2, <2>3 DEF Abides, Single, At
  <2> QED
    BY <1>1, <2>2, <2>3, <2>4, <2>5, <2>6, StoppingCarries DEF Serves
<1> QED
  BY <1>0, <1>3, <1>4, <1>5 DEF ReadPid

LEMMA DropFileServes ==
    ASSUME ChaseInv, AllAge, NEW c \in Cli, DropFile(c)
    PROVE  Serves(c)
<1>1. At(c, Stopping) /\ StopReturns(c, FALSE, FALSE)
  BY DEF DropFile, At, Stopping
<1>2. \A p \in Pid : Sought(c, p) => server[p].slot \in cmd[c].todo
  BY DEF DropFile, Sought, At
<1> QED
  BY <1>1, <1>2, StopReturnsPlain

LEMMA SendSignalServes ==
    ASSUME ChaseInv, AllAge, NEW c \in Cli, SendSignal(c)
    PROVE  Serves(c)
<1>0. PICK p : p = cmd[c].pid
  OBVIOUS
<1>1. /\ TypeOK /\ FileInv /\ cmd[c] \in Command /\ At(c, {"signal"}) /\ At(c, Stopping)
      /\ Single(c) => cmd[c].todo = {}
      /\ cmd[c].op = "up" => ~cmd[c].ok
  BY ChaseStopping DEF SendSignal, At, Stopping
<1>2. Known(p) /\ p \in Pid /\ cmd[c].level <= 2
  BY <1>0, <1>1, HeldPid DEF At, FileInv, LevelFits
<1>3. ASSUME Exit(c, FALSE), Single(c)
      PROVE  Serves(c)
  BY <1>1, <1>3, ExitFulfils DEF Serves, Single
<1>4. ASSUME NEW level \in {0, cmd[c].level + 1}, NEW point \in {"forget", "wait"},
             cmd' = [cmd EXCEPT ![c].level = level, ![c].point = point],
             NEW st \in Signalled(c, p, cmd[c].level), SetStatus(p, st),
             \A q \in Pid : q = p /\ Stays(q) /\ server[q].slot = cmd[c].at /\ Owes(c, q)'
                 => Sought(c, q)'
      PROVE  Serves(c)
  <2>1. Unborn
    BY <1>1, <1>2, <1>4, SignalLeads
  <2>2. cmd'[c] = [cmd[c] EXCEPT !.level = level, !.point = point]
    BY <1>1, <1>4 DEF TypeOK
  <2>3. /\ cmd'[c].point = point /\ cmd'[c].op = cmd[c].op /\ cmd'[c].todo = cmd[c].todo
        /\ cmd'[c].at = cmd[c].at /\ cmd'[c].mine = cmd[c].mine /\ cmd'[c].ok = cmd[c].ok
    BY <1>1, <2>2 DEF Command
  <2>4. At(c, Stopping)'
    BY <2>3 DEF At, Stopping
  <2>5. MineFits(c)' /\ Abides(c)
    BY <1>1, <2>3, <2>4 DEF MineFits, Abides, At, Stopping
  <2>6. ASSUME NEW q \in Pid, Stays(q), Sought(c, q), Owes(c, q)'
        PROVE  Sought(c, q)'
    <3>1. server'[q].slot = server[q].slot
      BY <2>1, <2>6, AgesOne DEF Unborn, Stays
    <3>2. CASE server[q].slot \in cmd[c].todo
      BY <2>3, <2>4, <3>1, <3>2 DEF Sought
    <3>3. CASE server[q].slot = cmd[c].at /\ q = p
      BY <1>4, <2>6, <3>3
    <3> QED
      BY <1>0, <1>1, <2>6, <3>2, <3>3 DEF Sought, At
  <2> QED
    BY <1>1, <2>1, <2>3, <2>4, <2>5, <2>6, StoppingCarries DEF Serves, At, Stopping
<1>5. ASSUME NEW st \in Delivered(p, 2), SetStatus(p, st), Single(c), cmd[c].level = 2,
             cmd' = [cmd EXCEPT ![c].level = 0, ![c].point = "forget"]
      PROVE  Serves(c)
  <2>1. server'[p].status = st /\ st \notin Running
    BY <1>1, <1>2, <1>5 DEF SetStatus, TypeOK, NoServer, Delivered, Runs, In, Running, Starting
  <2>2. ~Stays(p)
    BY <2>1 DEF Stays, Runs, In
  <2>3. st \in Signalled(c, p, cmd[c].level)
    BY <1>5 DEF Signalled
  <2> QED
    BY <1>4, <1>5, <2>2, <2>3
<1>6. ASSUME NEW st \in Signalled(c, p, cmd[c].level), SetStatus(p, st),
             ~(Single(c) /\ cmd[c].level = 2),
             cmd' = [cmd EXCEPT ![c].level = @ + 1, ![c].point = "wait"]
      PROVE  Serves(c)
  <2>1. Unborn /\ (cmd[c].level = 2 /\ server[p].parent = c => ~Runs(p)')
    BY <1>1, <1>2, <1>6, SignalLeads
  <2>2. cmd'[c] = [cmd[c] EXCEPT !.level = cmd[c].level + 1, !.point = "wait"]
    BY <1>1, <1>6 DEF TypeOK
  <2>3. /\ cmd'[c].point = "wait" /\ cmd'[c].op = cmd[c].op /\ cmd'[c].at = cmd[c].at
        /\ cmd'[c].pid = p /\ cmd'[c].level = cmd[c].level + 1
    BY <1>0, <1>1, <2>2 DEF Command
  <2>4. ASSUME Stays(p), server[p].slot = cmd[c].at, Owes(c, p)'
        PROVE  Sought(c, p)'
    <3>1. server'[p].slot = server[p].slot /\ server'[p].parent = server[p].parent
      BY <1>2, <2>1, <2>4, AgesOne DEF Unborn, Stays
    <3>2. cmd[c].level # 2 \/ cmd[c].op = "down"
      BY <1>6, <2>1, <2>3, <2>4, <3>1 DEF Owes, Single, Stays
    <3>3. cmd'[c].level # 3 \/ cmd'[c].op = "down"
      BY <1>1, <2>3, <3>2 DEF Command
    <3> QED
      BY <2>3, <2>4, <3>1, <3>3 DEF Sought, At
  <2>5. /\ cmd' = [cmd EXCEPT ![c].level = cmd[c].level + 1, ![c].point = "wait"]
        /\ "wait" \in {"forget", "wait"} /\ cmd[c].level + 1 \in {0, cmd[c].level + 1}
    BY <1>1, <1>6 DEF TypeOK
  <2> QED
    BY <1>4, <1>6, <2>4, <2>5
<1> QED
  BY <1>0, <1>3, <1>5, <1>6 DEF SendSignal

LEMMA WaitForExitServes ==
    ASSUME ChaseInv, AllAge, NEW c \in Cli, WaitForExit(c)
    PROVE  Serves(c)
<1> DEFINE last == IF cmd[c].op = "stop" THEN 2 ELSE 3
<1>1. /\ TypeOK /\ FileInv /\ cmd[c] \in Command /\ At(c, {"wait"}) /\ At(c, Stopping)
      /\ Single(c) => cmd[c].todo = {}
      /\ cmd[c].op = "up" => ~cmd[c].ok
  BY ChaseStopping DEF WaitForExit, At, Stopping
<1>2. ASSUME NEW p \in Pid, Sought(c, p)
      PROVE  \/ server[p].slot \in cmd[c].todo
             \/ /\ server[p].slot = cmd[c].at /\ cmd[c].pid = p
                /\ cmd[c].level # 3 \/ cmd[c].op = "down"
  BY <1>1, <1>2 DEF Sought, At
<1>3. ASSUME ~IsProcessAlive(cmd[c].pid), UNCHANGED server,
             cmd' = [cmd EXCEPT ![c].point = "forget", ![c].level = 0]
      PROVE  Serves(c)
  <2>1. cmd'[c] = [cmd[c] EXCEPT !.point = "forget", !.level = 0]
    BY <1>1, <1>3 DEF TypeOK
  <2>2. /\ cmd'[c].point = "forget" /\ cmd'[c].op = cmd[c].op /\ cmd'[c].todo = cmd[c].todo
        /\ cmd'[c].mine = cmd[c].mine /\ cmd'[c].ok = cmd[c].ok
    BY <1>1, <2>1 DEF Command
  <2>3. Unborn /\ ~At(c, Raising)' /\ At(c, Stopping)'
    BY <1>1, <1>3, <2>2, SameUnborn DEF At, Raising, Stopping
  <2>4. MineFits(c)'
    BY <1>1, <2>2, <2>3 DEF MineFits, At, Stopping
  <2>5. ASSUME NEW p \in Pid, Stays(p), Sought(c, p)
        PROVE  Sought(c, p)'
    <3>1. server[p].slot \in cmd[c].todo
      BY <1>2, <1>3, <2>5 DEF Stays, IsProcessAlive, Runs, In
    <3> QED
      BY <1>3, <2>2, <2>3, <3>1 DEF Sought
  <2>6. Abides(c)
    BY <1>1, <2>2, <2>3 DEF Abides, At
  <2> QED
    BY <1>1, <2>2, <2>3, <2>4, <2>5, <2>6, StoppingCarries DEF Serves
<1>4. ASSUME UNCHANGED server, GoTo(c, "signal")
      PROVE  Serves(c)
  <2>1. /\ cmd'[c].point = "signal" /\ cmd'[c].op = cmd[c].op /\ cmd'[c].todo = cmd[c].todo
        /\ cmd'[c].at = cmd[c].at /\ cmd'[c].pid = cmd[c].pid
        /\ cmd'[c].mine = cmd[c].mine /\ cmd'[c].ok = cmd[c].ok
    BY <1>1, <1>4, GoToFields
  <2>2. Unborn /\ ~At(c, Raising)' /\ At(c, Stopping)'
    BY <1>1, <1>4, <2>1, SameUnborn DEF At, Raising, Stopping
  <2>3. MineFits(c)'
    BY <1>1, <2>1, <2>2 DEF MineFits, At, Stopping
  <2>4. ASSUME NEW p \in Pid, Sought(c, p)
        PROVE  Sought(c, p)'
    BY <1>2, <1>4, <2>1, <2>2, <2>4 DEF Sought, At
  <2>5. Abides(c)
    BY <1>1, <2>1, <2>2 DEF Abides, At
  <2> QED
    BY <1>1, <2>1, <2>2, <2>3, <2>4, <2>5, StoppingCarries DEF Serves
<1>5. ASSUME ~(cmd[c].level < last), StopReturns(c, FALSE, Exists(cmd[c].at))
      PROVE  Serves(c)
  <2>1. Exists(cmd[c].at) \in BOOLEAN
    BY DEF Exists
  <2>2. ~Single(c) => cmd[c].level = 3
    <3>1. cmd[c].level \in 0 .. 3
      BY <1>1 DEF Command
    <3>2. ~Single(c) => last = 3
      BY DEF Single
    <3>3. ~Single(c) => ~(cmd[c].level < 3)
      BY <1>5, <3>2
    <3> QED
      BY <3>1, <3>3
  <2>3. ASSUME NEW p \in Pid, Stays(p), In(p, Up), Sought(c, p), Owes(c, p), ~Single(c),
               server[p].slot \notin cmd[c].todo
        PROVE  cmd[c].op = "down" /\ cmd[c].at # 0 /\ Exists(cmd[c].at)
    <3>1. cmd[c].op = "down" /\ server[p].slot = cmd[c].at
      BY <1>2, <2>2, <2>3
    <3>2. cmd[c].at # 0
      BY <2>3, <3>1 DEF Owes
    <3>3. file[cmd[c].at] = p
      BY <1>1, <2>3, <3>1 DEF FileInv, SlotFits, On, Stays
    <3> QED
      BY <3>1, <3>2, <3>3 DEF Exists
  <2> QED
    BY <1>1, <1>5, <2>1, <2>3, StopReturnsServes
<1> QED
  BY <1>3, <1>4, <1>5 DEF WaitForExit

LEMMA ForgetServes ==
    ASSUME ChaseInv, AllAge, NEW c \in Cli, Forget(c)
    PROVE  Serves(c)
<1>1. /\ TypeOK /\ At(c, {"forget"}) /\ At(c, Stopping)
      /\ Single(c) => cmd[c].todo = {}
      /\ cmd[c].op = "up" => ~cmd[c].ok
  BY ChaseStopping DEF Forget, At, Stopping
<1>2. \A p \in Pid : Sought(c, p) => server[p].slot \in cmd[c].todo
  BY <1>1 DEF Sought, At
<1>3. ASSUME GoTo(c, "unlink"), UNCHANGED server
      PROVE  Serves(c)
  <2>1. /\ cmd'[c].point = "unlink" /\ cmd'[c].op = cmd[c].op /\ cmd'[c].todo = cmd[c].todo
        /\ cmd'[c].mine = cmd[c].mine /\ cmd'[c].ok = cmd[c].ok
    BY <1>1, <1>3, GoToFields
  <2>2. Unborn /\ ~At(c, Raising)' /\ At(c, Stopping)'
    BY <1>1, <1>3, <2>1, SameUnborn DEF At, Raising, Stopping
  <2>3. MineFits(c)'
    BY <1>1, <2>1, <2>2 DEF MineFits, At, Stopping
  <2>4. ASSUME NEW p \in Pid, Sought(c, p)
        PROVE  Sought(c, p)'
    BY <1>2, <1>3, <2>1, <2>2, <2>4 DEF Sought
  <2>5. Abides(c)
    BY <1>1, <2>1, <2>2 DEF Abides, At
  <2> QED
    BY <1>1, <2>1, <2>2, <2>3, <2>4, <2>5, StoppingCarries DEF Serves
<1>4. ASSUME StopReturns(c, cmd[c].ok \/ ~Single(c), FALSE)
      PROVE  Serves(c)
  <2>1. PICK fine \in BOOLEAN : fine = (cmd[c].ok \/ ~Single(c))
    OBVIOUS
  <2> QED
    BY <1>1, <1>2, <1>4, <2>1, StopReturnsPlain
<1> QED
  BY <1>3, <1>4 DEF Forget

LEMMA UnlinkServes ==
    ASSUME ChaseInv, AllAge, NEW c \in Cli, Unlink(c)
    PROVE  Serves(c)
<1>1. At(c, {"unlink"}) /\ At(c, Stopping)
  BY DEF Unlink, At, Stopping
<1>2. \A p \in Pid : Sought(c, p) => server[p].slot \in cmd[c].todo
  BY <1>1 DEF Sought, At
<1>3. PICK fine \in BOOLEAN : fine = (cmd[c].ok \/ ~Single(c))
  OBVIOUS
<1> QED
  BY <1>1, <1>2, <1>3, StopReturnsPlain DEF Unlink

\* Whatever step a command takes, it goes on owing what it owes, or it has kept
\* its promise.
LEMMA StepServes ==
    ASSUME ChaseInv, Remember, AllAge, NEW c \in Cli, Step(c)
    PROVE  Serves(c)
<1>1. CASE \/ Precheck(c) \/ UnlinkStale(c) \/ Inspect(c) \/ DockerRun(c) \/ DockerBoot(c)
           \/ WaitForRedisReady(c) \/ InspectForRemoval(c) \/ DockerRemove(c)
  BY <1>1, PrecheckServes, UnlinkStaleServes, InspectServes, DockerRunServes,
     DockerBootServes, WaitForRedisReadyServes, InspectForRemovalServes, DockerRemoveServes
<1>2. CASE \/ EnsureNotRunning(c) \/ UnlinkDead(c) \/ Spawn(c) \/ Started(c) \/ GiveUp(c)
           \/ Abort(c)
  BY <1>2, EnsureNotRunningServes, UnlinkDeadServes, SpawnServes, StartedServes,
     GiveUpServes, AbortServes
<1>3. CASE \/ NextToStop(c) \/ ReadPid(c) \/ DropFile(c) \/ SendSignal(c)
           \/ WaitForExit(c) \/ Forget(c) \/ Unlink(c)
  BY <1>3, NextToStopServes, ReadPidServes, DropFileServes, SendSignalServes,
     WaitForExitServes, ForgetServes, UnlinkServes
<1> QED
  BY <1>1, <1>2, <1>3 DEF Step

-----------------------------------------------------------------------------
\* A command begins: it finds the servers it is to stop where it will look.
LEMMA BeginsIdle ==
    ASSUME ChaseInv, NEW c \in Cli, At(c, {"idle"})
    PROVE  /\ TypeOK /\ FileInv /\ cmd[c] \in Command
           /\ cmd[c].todo = {} /\ cmd[c].mine = FALSE
           /\ \A p \in Pid : server[p].parent # c
  BY ChaseOwn DEF FileInv, LevelFits, NoCommand, OwnFits, UpFits

LEMMA FoundNow ==
    ASSUME TypeOK, Remember, NEW c \in Cli, ~Active(c), NEW p \in found'[c]
    PROVE  p \in Pid /\ In(p, {"serve"}) /\ server[p].slot \in ToStop(c)'
  BY DEF Remember

LEMMA BeginFits ==
    ASSUME ChaseInv, Remember, NEW c \in Cli, NEW o, NEW point, Opens(o, point),
           NEW s \in Slot, Begin(c, o, s, point)
    PROVE  OwnFits(c)'
<1>1. At(c, {"idle"}) /\ UNCHANGED server
  BY DEF Begin
<1>2. /\ TypeOK /\ FileInv /\ cmd[c] \in Command
      /\ cmd[c].todo = {} /\ cmd[c].mine = FALSE
      /\ \A p \in Pid : server[p].parent # c
  BY <1>1, BeginsIdle
<1>3. cmd'[c] = [cmd[c] EXCEPT !.op = o, !.at = s, !.point = point]
  BY <1>2 DEF Begin, TypeOK
<1>4. /\ cmd'[c].op = o /\ cmd'[c].at = s /\ cmd'[c].point = point
      /\ cmd'[c].todo = {} /\ cmd'[c].mine = FALSE
  BY <1>2, <1>3 DEF Command
<1>5. ~Active(c) /\ Opens(o, point)
  BY <1>1 DEF Active, At
<1>6. ASSUME NEW p \in found'[c]
      PROVE  Known(p)' /\ In(p, Up)' /\ Sought(c, p)'
  <2>1. p \in Pid /\ In(p, {"serve"}) /\ server[p].slot \in ToStop(c)'
    BY <1>2, <1>5, <1>6, FoundNow
  <2>2. point = "read" /\ server[p].slot = s
    BY <1>4, <1>5, <2>1 DEF ToStop, Single, Opens
  <2> QED
    BY <1>1, <1>4, <2>1, <2>2 DEF Known, In, Up, Sought, At
<1>7. /\ Single(c)' => cmd'[c].todo = {}
      /\ Stops(c)' => At(c, Stopping \union Ending)'
      /\ ~Stops(c)' => found'[c] = {}
  <2>1. Single(c)' => cmd'[c].todo = {} /\ At(c, {"read"})'
    BY <1>4, <1>5 DEF Single, Opens, At
  <2>2. cmd'[c].op # "down"
    BY <1>4, <1>5 DEF Opens
  <2>3. ~Single(c)' => found'[c] = {}
    BY <1>2, <1>5, <2>2, FoundNow DEF ToStop, Single
  <2> QED
    BY <2>1, <2>2, <2>3 DEF Stops, Single, At, Stopping
<1>8. UpFits(c)'
  BY <1>1, <1>2 DEF UpFits
<1>9. MineFits(c)'
  BY <1>4, <1>5 DEF MineFits, Opens, At, Stopping
<1> QED
  BY <1>6, <1>7, <1>8, <1>9 DEF OwnFits, StopFits

LEMMA InfraDownFits ==
    ASSUME ChaseInv, Remember, NEW c \in Cli, InfraDown(c)
    PROVE  OwnFits(c)'
<1> DEFINE all == {0} \union { s \in 1 .. Workers : Exists(s) }
<1>1. At(c, {"idle"}) /\ UNCHANGED server
  BY DEF InfraDown
<1>2. /\ TypeOK /\ FileInv /\ cmd[c] \in Command
      /\ cmd[c].todo = {} /\ cmd[c].mine = FALSE
      /\ \A p \in Pid : server[p].parent # c
  BY <1>1, BeginsIdle
<1>3. cmd'[c] = [cmd[c] EXCEPT !.op = "down", !.point = "next", !.todo = all]
  BY <1>2 DEF InfraDown, TypeOK
<1>4. /\ cmd'[c].op = "down" /\ cmd'[c].point = "next"
      /\ cmd'[c].todo = all /\ cmd'[c].mine = FALSE
  <2> HIDE DEF all
  <2> QED
    BY <1>2, <1>3 DEF Command
<1>5. ~Active(c)
  BY <1>1 DEF Active, At
<1>6. ASSUME NEW p \in found'[c]
      PROVE  /\ Known(p)' /\ In(p, Up)'
             /\ server'[p].slot \in clean' => Sought(c, p)'
  <2>1. p \in Pid /\ In(p, {"serve"})
    BY <1>2, <1>5, <1>6, FoundNow
  <2>2. ASSUME server[p].slot \in clean'
        PROVE  server[p].slot \in all
    <3>1. server[p].slot \in clean /\ server[p].slot \in Slot
      BY <1>2, <2>1, <2>2, RememberType DEF TypeOK
    <3>2. On(p, server[p].slot, Up)
      BY <2>1 DEF On, In, Up
    <3>3. file[server[p].slot] = p
      BY <1>2, <2>1, <3>1, <3>2 DEF FileInv, SlotFits
    <3>4. Exists(server[p].slot)
      BY <2>1, <3>3 DEF Exists
    <3>5. server[p].slot = 0 \/ server[p].slot \in 1 .. Workers
      BY <3>1
    <3> QED
      BY <3>4, <3>5
  <2> HIDE DEF all
  <2> QED
    BY <1>1, <1>4, <2>1, <2>2 DEF Known, In, Up, Sought, At, Stopping
<1>7. /\ ~Single(c)' /\ Stops(c)' /\ At(c, Stopping \union Ending)'
  BY <1>4 DEF Single, Stops, At, Stopping
<1>8. UpFits(c)'
  BY <1>1, <1>2 DEF UpFits
<1>9. MineFits(c)'
  BY <1>4 DEF MineFits
<1> QED
  BY <1>6, <1>7, <1>8, <1>9 DEF OwnFits, StopFits

-----------------------------------------------------------------------------
\* The servers and the events.
LEMMA StatusAges ==
    ASSUME TypeOK, NEW p \in Pid, NEW st \in Status \ {"none"}, SetStatus(p, st),
           Runs(p) \/ (In(p, {"killed"}) /\ st \notin Running),
           In(p, Up) /\ st \in Running => st \in Up
    PROVE  AllAge /\ Unborn
<1>1. /\ server'[p].status = st
      /\ st # "gone" => server'[p].slot = server[p].slot /\ server'[p].parent = server[p].parent
      /\ st = "gone" => server'[p].parent = NoCli
      /\ \A q \in Pid \ {p} : server'[q] = server[q]
  BY DEF SetStatus, TypeOK, NoServer
<1>2. Ages(p) /\ ~Born(p)
  BY <1>1 DEF Ages, Born, Runs, In, Running, Starting
<1>3. \A q \in Pid \ {p} : Ages(q) /\ ~Born(q)
  BY <1>1 DEF Ages, Born, Runs, In
<1> QED
  BY <1>2, <1>3 DEF AllAge, Unborn

LEMMA ServerStepAges ==
    ASSUME TypeOK, NEW p \in Pid, ServerStep(p) \/ ServerReturns(p) \/ ServerCrash(p)
    PROVE  AllAge /\ Unborn
<1>1. Ended(p) \in Status \ {"none"} /\ Ended(p) \notin Running
  BY EndedIsOver DEF Status, Running, Starting
<1>2. {"open", "write", "serve", "cleanup", "unlink"} \subseteq Status \ {"none"}
  BY DEF Status, Running, Starting
<1>3. CASE CheckPidFile(p)
  <2>1. PICK st \in Status \ {"none"} : SetStatus(p, st)
    BY <1>1, <1>2, <1>3 DEF CheckPidFile
  <2>2. Runs(p) /\ ~In(p, Up)
    BY <1>3 DEF CheckPidFile, Runs, In, Running, Starting, Up
  <2> QED
    BY <2>1, <2>2, StatusAges
<1>4. CASE OpenPidFile(p)
  <2>1. Runs(p) /\ ~In(p, Up) /\ SetStatus(p, "write")
    BY <1>4 DEF OpenPidFile, Runs, In, Running, Starting, Up
  <2> QED
    BY <1>2, <2>1, StatusAges
<1>5. CASE WritePidFile(p)
  <2>1. Runs(p) /\ ~In(p, Up) /\ SetStatus(p, "serve")
    BY <1>5 DEF WritePidFile, Runs, In, Running, Starting, Up
  <2> QED
    BY <1>2, <2>1, StatusAges
<1>6. CASE RemoveOwnFile(p)
  <2>1. PICK st \in Status \ {"none"} : SetStatus(p, st) /\ (st \in Running => st \in Up)
    BY <1>1, <1>2, <1>6 DEF RemoveOwnFile, Up
  <2>2. Runs(p)
    BY <1>6 DEF RemoveOwnFile, Runs, In, Running
  <2> QED
    BY <2>1, <2>2, StatusAges
<1>7. CASE UnlinkOwnFile(p)
  <2>1. Runs(p) /\ SetStatus(p, Ended(p))
    BY <1>7 DEF UnlinkOwnFile, Runs, In, Running
  <2> QED
    BY <1>1, <2>1, StatusAges
<1>8. CASE ServerReturns(p)
  <2>1. Runs(p) /\ SetStatus(p, "cleanup") /\ "cleanup" \in Up
    BY <1>8 DEF ServerReturns, Runs, In, Running, Up
  <2> QED
    BY <1>2, <2>1, StatusAges
<1>9. CASE ServerCrash(p)
  BY <1>1, <1>9, StatusAges DEF ServerCrash
<1>10. CASE Dies(p)
  BY <1>1, <1>10, StatusAges DEF Dies
<1> QED
  BY <1>3, <1>4, <1>5, <1>6, <1>7, <1>8, <1>9, <1>10 DEF ServerStep

\* A pid file is written by a server that is up from then on.
LEMMA NamedStays ==
    ASSUME ChaseInv, AllAge,
           \A s \in Slot : \/ file'[s] \in {NoPid, file[s]}
                           \/ file'[s] \in { p \in Pid : server'[p].status = "serve" }
    PROVE  NamedAreUp'
<1> SUFFICES ASSUME NEW s \in Slot, file'[s] # NoPid
             PROVE  server'[file'[s]].status \notin Starting
  BY DEF NamedAreUp, In
<1>1. CASE file'[s] = file[s]
  <2>1. PICK q : q = file[s]
    OBVIOUS
  <2>2. q \in Pid /\ server[q].status # "none" /\ server[q].status \notin Starting
    BY <1>1, <2>1 DEF ChaseInv, FileInv, NamesKnown, Known, NamedAreUp, In
  <2>3. server'[q].status \notin Starting
    BY <2>2 DEF AllAge, Ages, Runs, In, Running, Starting, Up
  <2> QED
    BY <1>1, <2>1, <2>3
<1>2. CASE file'[s] \in { p \in Pid : server'[p].status = "serve" }
  BY <1>2 DEF Starting
<1> QED
  BY <1>1, <1>2

\* A step of c bears children of c, if any.
LEMMA BearsOwn ==
    ASSUME TypeOK, FileInv, NEW c \in Cli, BeginSome(c) \/ Step(c) \/ Interrupt(c),
           NEW p \in Pid, Born(p)
    PROVE  server'[p].parent = c
<1>1. CASE UNCHANGED server \/ server' = Reaped(c)
  BY <1>1, SameUnborn DEF Unborn
<1>2. CASE Spawn(c)
  <2>1. CASE FreePid # {} /\ server' = Spawned(Reaped(c), cmd[c].at, c)
    <3>1. cmd[c].at \in Slot
      BY DEF TypeOK, Command
    <3>2. p = Min(FreePid) /\ server'[p] = [status |-> "check", slot |-> cmd[c].at, parent |-> c]
      BY <2>1, <3>1, SpawnedChild
    <3> QED
      BY <3>2
  <2>2. CASE Fail(c)
    BY <1>1, <2>2 DEF Fail, Exit
  <2> QED
    BY <1>2, <2>1, <2>2 DEF Spawn
<1>3. CASE Abort(c) \/ SendSignal(c)
  <2>1. At(c, {"abort", "signal"})
    BY <1>3 DEF Abort, SendSignal, At
  <2>2. PICK q \in Pid : q = cmd[c].pid /\ Known(q)
    BY <2>1, HeldPid DEF At
  <2>3. CASE Fail(c) \/ Exit(c, FALSE)
    BY <1>1, <2>3 DEF Fail, Exit
  <2>4. CASE \E level : \E st \in Signalled(c, q, level) : SetStatus(q, st)
    BY <2>2, <2>4, SignalLeads DEF Unborn
  <2>5. Delivered(q, 2) \subseteq Signalled(c, q, 2)
    BY DEF Signalled
  <2> QED
    BY <1>3, <2>2, <2>3, <2>4, <2>5 DEF Abort, SendSignal
<1>4. CASE BeginSome(c) \/ Interrupt(c)
  BY <1>1, <1>4 DEF BeginSome, Interrupt, OrchestratorStart, WorkerStart, OrchestratorStop,
     WorkerStop, InfraUp, RedisStart, RedisStop, RedisRestart, Begin, InfraDown
<1>5. CASE \/ Precheck(c) \/ UnlinkStale(c) \/ Inspect(c) \/ DockerRun(c) \/ DockerBoot(c)
           \/ WaitForRedisReady(c) \/ InspectForRemoval(c) \/ DockerRemove(c)
  BY <1>1, <1>5 DEF Precheck, UnlinkStale, Inspect, DockerRun, DockerBoot, WaitForRedisReady,
     InspectForRemoval, DockerRemove, Removed, Fail, Exit
<1>6. CASE EnsureNotRunning(c) \/ UnlinkDead(c) \/ Started(c) \/ GiveUp(c)
  BY <1>1, <1>6 DEF EnsureNotRunning, UnlinkDead, Started, GiveUp, Fail, Exit
<1>7. CASE \/ NextToStop(c) \/ ReadPid(c) \/ DropFile(c) \/ WaitForExit(c)
           \/ Forget(c) \/ Unlink(c)
  BY <1>1, <1>7 DEF NextToStop, ReadPid, DropFile, WaitForExit, Forget, Unlink,
     StopReturns, Exit
<1> QED
  BY <1>2, <1>3, <1>4, <1>5, <1>6, <1>7 DEF Step

LEMMA StepActive ==
    ASSUME NEW c \in Cli, Step(c)
    PROVE  Active(c)
  BY DEF Step, Active, At, Precheck, UnlinkStale, Inspect, DockerRun, DockerBoot,
     WaitForRedisReady, InspectForRemoval, DockerRemove, EnsureNotRunning, UnlinkDead,
     Spawn, Started, GiveUp, Abort, NextToStop, ReadPid, DropFile, SendSignal, WaitForExit,
     Forget, Unlink

LEMMA OKAges ==
    ASSUME NEW c \in Cli, StepOK(c)
    PROVE  AllAge /\ \A d \in Cli \ {c} : cmd'[d] = cmd[d]
  BY DEF StepOK, Done, Others, ServerSettles, AllAge

LEMMA OwnStays ==
    ASSUME ChaseInv, Remember, NEW c \in Cli, StepOK(c),
           BeginSome(c) \/ Step(c) \/ Interrupt(c)
    PROVE  OwnFits(c)'
<1>1. TypeOK /\ AllAge
  BY OKAges, ChaseOwn
<1>2. CASE BeginSome(c)
  BY <1>2, BeginsPlainly, BeginFits, InfraDownFits
<1>3. CASE Step(c)
  <2>1. Serves(c) /\ Active(c)
    BY <1>1, <1>3, StepServes, StepActive
  <2>2. CASE Fulfils(c)
    BY <1>1, <2>2, OverFits DEF Fulfils
  <2>3. CASE Carries(c)
    BY <1>1, <2>1, <2>3, CarriesFits
  <2> QED
    BY <2>1, <2>2, <2>3 DEF Serves
<1>4. CASE Interrupt(c)
  <2>1. cmd'[c] = NoCommand("interrupted", FALSE)
    BY <1>1, <1>4 DEF Interrupt, TypeOK
  <2>2. Over(c)
    BY <2>1 DEF Over
  <2> QED
    BY <1>1, <2>2, OverFits
<1> QED
  BY <1>2, <1>3, <1>4

LEMMA AllOwnStay ==
    ASSUME ChaseInv, Remember, NEW c \in Cli, StepOK(c),
           BeginSome(c) \/ Step(c) \/ Interrupt(c)
    PROVE  \A d \in Cli : OwnFits(d)'
<1>1. TypeOK /\ FileInv /\ AllAge /\ \A d \in Cli \ {c} : cmd'[d] = cmd[d]
  BY OKAges, ChaseOwn
<1>2. ASSUME NEW d \in Cli \ {c}
      PROVE  OwnFits(d)'
  <2>1. \A p \in Pid : Born(p) => server'[p].parent # d
    BY <1>1, BearsOwn
  <2>2. cmd'[d] = cmd[d] /\ d \in Cli
    BY <1>1
  <2> QED
    BY <1>1, <2>1, <2>2, OtherFits
<1> QED
  BY <1>2, OwnStays

LEMMA RedisStays ==
    ASSUME ChaseInv, NEW c \in Cli, BeginSome(c) \/ Step(c) \/ Interrupt(c)
    PROVE  RedisFits'
<1>1. CASE UNCHANGED <<redis, redisBy>>
  BY <1>1 DEF ChaseInv, RedisFits
<1>2. CASE DockerRun(c) \/ DockerBoot(c) \/ DockerRemove(c)
  BY <1>2 DEF ChaseInv, RedisFits, DockerRun, DockerBoot, DockerRemove, redisVars
<1>3. CASE BeginSome(c) \/ Interrupt(c)
  BY <1>1, <1>3 DEF BeginSome, Interrupt, OrchestratorStart, WorkerStart, OrchestratorStop,
     WorkerStop, InfraUp, RedisStart, RedisStop, RedisRestart, Begin, InfraDown, redisVars
<1>4. CASE \/ Precheck(c) \/ UnlinkStale(c) \/ Inspect(c)
           \/ WaitForRedisReady(c) \/ InspectForRemoval(c)
           \/ EnsureNotRunning(c) \/ UnlinkDead(c) \/ Spawn(c) \/ Started(c) \/ GiveUp(c)
           \/ Abort(c)
  BY <1>1, <1>4 DEF Precheck, UnlinkStale, Inspect, WaitForRedisReady, InspectForRemoval,
     EnsureNotRunning, UnlinkDead, Spawn, Started, GiveUp, Abort, redisVars
<1>5. CASE \/ NextToStop(c) \/ ReadPid(c) \/ DropFile(c) \/ SendSignal(c)
           \/ WaitForExit(c) \/ Forget(c) \/ Unlink(c)
  BY <1>1, <1>5 DEF NextToStop, ReadPid, DropFile, SendSignal, WaitForExit, Forget, Unlink,
     redisVars
<1> QED
  BY <1>2, <1>3, <1>4, <1>5 DEF Step

LEMMA CommandChases ==
    ASSUME ChaseInv, Remember, NEW c \in Cli, StepOK(c),
           BeginSome(c) \/ Step(c) \/ Interrupt(c)
    PROVE  ChaseInv'
<1>1. TypeOK /\ FileInv /\ AllAge
  BY OKAges, ChaseOwn
<1>2. FileInv'
  BY <1>1, StepIsOK
<1>3. NamedAreUp'
  <2>1. \A s \in Slot : file'[s] \in {NoPid, file[s]}
    BY <1>1 DEF StepOK, FilesStay, Unlinked, TypeOK
  <2> QED
    BY <1>1, <2>1, NamedStays
<1> QED
  BY <1>2, <1>3, AllOwnStay, RedisStays DEF ChaseInv

\* A server moves, or is started in the foreground, and no command does.
LEMMA ServerChases ==
    ASSUME ChaseInv, Remember, AllAge, FileInv', UNCHANGED cmd, RedisFits',
           \A p \in Pid : Born(p) => server'[p].parent = NoCli,
           \A s \in Slot : \/ file'[s] \in {NoPid, file[s]}
                           \/ file'[s] \in { p \in Pid : server'[p].status = "serve" }
    PROVE  ChaseInv'
<1>1. ASSUME NEW c \in Cli
      PROVE  OwnFits(c)'
  <2>1. cmd'[c] = cmd[c] /\ \A p \in Pid : Born(p) => server'[p].parent # c
    BY ProcessControlAssumption
  <2> QED
    BY <2>1, OtherFits
<1> QED
  BY <1>1, NamedStays DEF ChaseInv

LEMMA ServerFiles ==
    ASSUME TypeOK, NEW p \in Pid, ServerStep(p) \/ ServerReturns(p) \/ ServerCrash(p)
    PROVE  \A s \in Slot : \/ file'[s] \in {NoPid, file[s]}
                           \/ file'[s] \in { q \in Pid : server'[q].status = "serve" }
<1>1. CASE WritePidFile(p)
  <2>1. server'[p].status = "serve"
    BY <1>1 DEF WritePidFile, SetStatus, TypeOK
  <2>2. \A s \in Slot : file'[s] \in {p, file[s]}
    BY <1>1 DEF WritePidFile, TypeOK
  <2> QED
    BY <2>1, <2>2
<1>2. CASE ~WritePidFile(p)
  BY <1>2 DEF ServerStep, CheckPidFile, OpenPidFile, RemoveOwnFile, UnlinkOwnFile, Dies,
     ServerReturns, ServerCrash, Unlinked, fileVars, TypeOK
<1> QED
  BY <1>1, <1>2

LEMMA ServeBears ==
    ASSUME TypeOK, NEW s \in Slot, Serve(s)
    PROVE  AllAge /\ \A p \in Pid : Born(p) => server'[p].parent = NoCli
<1>1. FreePid # {} /\ server' = Spawned(server, s, NoCli)
  BY DEF Serve
<1>2. AllAge
  BY <1>1, SpawnSettles DEF AllAge, ServerSettles
<1>3. \A p \in Pid : Born(p) => server'[p] = [status |-> "check", slot |-> s, parent |-> NoCli]
  BY <1>1, SpawnedChild
<1> QED
  BY <1>2, <1>3

LEMMA ChaseNext ==
    ASSUME ChaseInv, Next
    PROVE  ChaseInv'
<1>1. TypeOK /\ FileInv /\ Remember /\ FileInv'
  BY ActKeeps, EventKeeps DEF Next, ChaseInv, FileInv
<1>2. ASSUME NEW p \in Pid, ServerStep(p) \/ ServerReturns(p) \/ ServerCrash(p)
      PROVE  ChaseInv'
  <2>1. AllAge /\ Unborn
    BY <1>1, <1>2, ServerStepAges
  <2>2. UNCHANGED cmd /\ RedisFits'
    BY <1>2 DEF ServerStep, CheckPidFile, OpenPidFile, WritePidFile, RemoveOwnFile,
       UnlinkOwnFile, Dies, ServerReturns, ServerCrash, redisVars, ChaseInv, RedisFits
  <2>3. \A s \in Slot : \/ file'[s] \in {NoPid, file[s]}
                        \/ file'[s] \in { q \in Pid : server'[q].status = "serve" }
    BY <1>1, <1>2, ServerFiles
  <2> QED
    BY <1>1, <2>1, <2>2, <2>3, ServerChases DEF Unborn
<1>3. ASSUME NEW s \in Slot, Serve(s)
      PROVE  ChaseInv'
  <2>1. AllAge /\ \A p \in Pid : Born(p) => server'[p].parent = NoCli
    BY <1>1, <1>3, ServeBears
  <2>2. UNCHANGED <<cmd, file>> /\ RedisFits'
    BY <1>3 DEF Serve, fileVars, redisVars, ChaseInv, RedisFits
  <2> QED
    BY <1>1, <2>1, <2>2, ServerChases
<1>4. ASSUME RedisExits
      PROVE  ChaseInv'
  <2>1. UNCHANGED <<cmd, file, server>> /\ RedisFits'
    BY <1>4 DEF RedisExits, fileVars, RedisFits
  <2>2. AllAge /\ Unborn
    BY <1>1, <2>1, SameSettles, SameUnborn DEF ServerSettles, AllAge, Unborn, Born
  <2> QED
    BY <1>1, <2>1, <2>2, ServerChases DEF Unborn
<1>5. CASE Act
  <2>1. UNCHANGED events
    BY <1>5 DEF Act
  <2> QED
    BY <1>1, <1>2, <1>5, <2>1, BeginsOK, StepsOK, CommandChases DEF Act
<1>6. CASE Event
  <2>1. CASE \E c \in Cli : Interrupt(c)
    <3>1. Outside
      BY <1>1, <1>6, <2>1 DEF Event, Interrupt, redisVars, Outside, TypeOK
    <3> QED
      BY <1>1, <2>1, <3>1, InterruptStep, CommandChases
  <2>2. CASE OrchestratorServe \/ WorkerServe
    BY <1>3, <2>2, Zero DEF OrchestratorServe, WorkerServe
  <2> QED
    BY <1>2, <1>4, <1>6, <2>1, <2>2 DEF Event
<1> QED
  BY <1>5, <1>6 DEF Next

\* Initially, at every step, and so always.
LEMMA ChaseInit == Init => ChaseInv
<1> SUFFICES ASSUME Init
             PROVE  ChaseInv
  OBVIOUS
<1>1. \A c \in Cli : OwnFits(c)
  BY ProcessControlAssumption DEF Init, OwnFits, StopFits, UpFits, MineFits, NoCommand,
     NoServer, Single, Stops, At
<1>2. NamedAreUp /\ RedisFits
  BY DEF Init, NamedAreUp, RedisFits
<1> QED
  BY <1>1, <1>2, FileInit DEF ChaseInv

LEMMA ChaseStutters == ChaseInv /\ UNCHANGED vars => ChaseInv'
<1> SUFFICES ASSUME ChaseInv, UNCHANGED vars
             PROVE  ChaseInv'
  OBVIOUS
<1>1. FileInv'
  BY FileStutters DEF ChaseInv
<1>2. ASSUME NEW c \in Cli
      PROVE  OwnFits(c)'
  <2>1. /\ OwnFits(c) /\ UNCHANGED <<server, cmd, clean, found, missed>>
        /\ \A points : At(c, points)' <=> At(c, points)
    BY DEF ChaseInv, vars, At
  <2>2. \A p : /\ Known(p)' <=> Known(p)
               /\ Runs(p)' <=> Runs(p)
               /\ In(p, Up)' <=> In(p, Up)
               /\ Sought(c, p)' <=> Sought(c, p)
               /\ Reared(c, p)' <=> Reared(c, p)
               /\ Owes(c, p)' <=> Owes(c, p)
    BY <2>1 DEF Known, Runs, In, Sought, Reared, Owes, Single, At
  <2>3. StopFits(c)'
    BY <2>1, <2>2 DEF OwnFits, StopFits, Single, Stops
  <2>4. UpFits(c)'
    BY <2>1, <2>2 DEF OwnFits, UpFits
  <2>5. MineFits(c)'
    BY <2>1 DEF OwnFits, MineFits
  <2> QED
    BY <2>3, <2>4, <2>5 DEF OwnFits
<1>3. NamedAreUp' /\ RedisFits'
  BY DEF ChaseInv, vars, NamedAreUp, RedisFits, In
<1> QED
  BY <1>1, <1>2, <1>3 DEF ChaseInv

LEMMA ChaseInvariant == Spec => []ChaseInv
<1>1. ChaseInv /\ [Next]_vars => ChaseInv'
  BY ChaseNext, ChaseStutters
<1> QED
  BY <1>1, ChaseInit, PTL DEF Spec

-----------------------------------------------------------------------------
\* The step by which a command ends is its own, and it has kept its promise.
LEMMA EndsFulfil ==
    ASSUME ChaseInv, Next, NEW c \in Cli, EndsNow(c)
    PROVE  Fulfils(c) /\ AllAge /\ Remember
<1>1. TypeOK /\ FileInv /\ Remember /\ cmd'[c] # cmd[c]
  BY ChaseOwn DEF Next, EndsNow, Active, At
<1>2. PICK d \in Cli : \/ UNCHANGED events /\ (BeginSome(d) \/ Step(d))
                       \/ Interrupt(d) /\ Outside
  <2>1. CASE Act
    BY <1>1, <2>1 DEF Act, ServerStep, CheckPidFile, OpenPidFile, WritePidFile,
       RemoveOwnFile, UnlinkOwnFile, Dies
  <2>2. CASE Event
    <3>1. \E d \in Cli : Interrupt(d)
      BY <1>1, <2>2 DEF Event, OrchestratorServe, WorkerServe, Serve, ServerReturns,
         ServerCrash, RedisExits
    <3>2. Outside
      BY <1>1, <2>2, <3>1 DEF Event, Interrupt, redisVars, Outside, TypeOK
    <3> QED
      BY <3>1, <3>2
  <2> QED
    BY <2>1, <2>2 DEF Next
<1>3. StepOK(d)
  BY <1>1, <1>2, BeginsOK, StepsOK, InterruptStep
<1>4. d = c /\ AllAge
  BY <1>1, <1>3, OKAges
<1>5. Step(c)
  <2>1. ~Interrupt(c)
    BY <1>1 DEF EndsNow, Interrupt, NoCommand, TypeOK
  <2>2. ~BeginSome(c)
    BY DEF EndsNow, Active, At, BeginSome, OrchestratorStart, WorkerStart, OrchestratorStop,
       WorkerStop, InfraUp, RedisStart, RedisStop, RedisRestart, Begin, InfraDown
  <2> QED
    BY <1>2, <1>4, <2>1, <2>2
<1>6. Serves(c) /\ ~Carries(c)
  BY <1>1, <1>4, <1>5, StepServes DEF EndsNow, Carries
<1> QED
  BY <1>1, <1>4, <1>6 DEF Serves

(***************************************************************************)
(* A stop or an infra down that reports success has stopped every server   *)
(* that was up when it began, infra down every worker, unless there was a  *)
(* race on its pid file: for any number of commands, servers and pid       *)
(* files, also where signals are refused or take their effect late.        *)
(***************************************************************************)
THEOREM SuccessStops == Spec => SuccessMeansStopped
<1>1. ASSUME ChaseInv, Next, NEW c \in Cli, EndsNow(c), cmd'[c].ok,
             NEW p \in found[c], server[p].slot \in clean,
             cmd[c].op = "down" => server[p].slot # 0
      PROVE  ~Runs(p)'
  <2>1. Fulfils(c) /\ AllAge
    BY <1>1, EndsFulfil
  <2>0. Owes(c, p)
    <3>1. Stops(c)
      BY <1>1, ChaseOwn DEF OwnFits, StopFits
    <3> QED
      BY <1>1, <2>1, <3>1 DEF Stops, Owes, Fulfils
  <2>2. /\ p \in Pid /\ server[p].status # "none"
        /\ Runs(p) => In(p, Up)
        /\ Runs(p) => Sought(c, p)
    BY <1>1, <2>0, ChaseOwn DEF OwnFits, StopFits, Known
  <2>3. Runs(p)' => Runs(p)
    BY <2>1, <2>2, AgesOne DEF Born
  <2> QED
    BY <1>1, <2>1, <2>2, <2>3 DEF Fulfils, Stays
<1>2. ChaseInv /\ [Next]_vars =>
        [\A c \in Cli : EndsNow(c) /\ cmd'[c].ok =>
            \A p \in found[c] :
                server[p].slot \in clean /\ (cmd[c].op = "down" => server[p].slot # 0)
                    => ~Runs(p)']_vars
  BY <1>1
<1> QED
  BY <1>2, ChaseInvariant, PTL DEF Spec, SuccessMeansStopped

(***************************************************************************)
(* An infra up that fails leaves no child of its own that it has not       *)
(* mistaken for another, on a file without a race, and no container of its *)
(* own that Docker has not refused to remove, wherever it fails and        *)
(* whatever else goes on.                                                  *)
(***************************************************************************)
THEOREM FailureLeavesNothing == Spec => FailedUpLeavesNothing
<1>1. ASSUME ChaseInv, Next, NEW c \in Cli, EndsNow(c), cmd[c].op = "up", ~cmd'[c].ok
      PROVE  /\ \A p \in Pid \ missed' :
                   Runs(p)' /\ server'[p].slot \in clean' => server'[p].parent # c
             /\ cmd[c].mine => redisBy' # c \/ Refuses(c)
  <2>1. Fulfils(c) /\ AllAge /\ Remember /\ TypeOK
    BY <1>1, EndsFulfil, ChaseOwn
  <2>2. Unborn /\ (cmd[c].mine => redisBy' # c \/ Refuses(c))
    BY <1>1, <2>1 DEF Fulfils
  <2>3. ASSUME NEW p \in Pid \ missed', Runs(p)', server'[p].slot \in clean',
               server'[p].parent = c
        PROVE  FALSE
    <3>1. /\ Runs(p) /\ server'[p].slot = server[p].slot
          /\ server'[p].parent = server[p].parent
      BY <2>1, <2>2, <2>3, AgesOne DEF Unborn
    <3>2. p \notin missed /\ server[p].slot \in clean
      BY <2>1, <2>3, <3>1, MissedStays, RememberType
    <3>3. Reared(c, p)
      BY <1>1, <2>3, <3>1, <3>2, ChaseOwn DEF OwnFits, UpFits
    <3> QED
      BY <1>1, <2>1, <2>3, <3>1, <3>2, <3>3 DEF Fulfils, Stays
  <2> QED
    BY <2>2, <2>3
<1>2. ChaseInv /\ [Next]_vars =>
        [\A c \in Cli : EndsNow(c) /\ cmd[c].op = "up" /\ ~cmd'[c].ok =>
            /\ \A p \in Pid \ missed' :
                  Runs(p)' /\ server'[p].slot \in clean' => server'[p].parent # c
            /\ cmd[c].mine => redisBy' # c \/ Refuses(c)]_vars
  BY <1>1
<1> QED
  BY <1>2, ChaseInvariant, PTL DEF Spec, FailedUpLeavesNothing
=============================================================================
