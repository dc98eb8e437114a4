---------------------------- MODULE SetupProofs ----------------------------
(***************************************************************************)
(* For any number of runs and cleaners: the runs in a sandbox share one    *)
(* segment, which counts them, and a clean restores the sandbox.           *)
(***************************************************************************)
EXTENDS Setup, FiniteSetTheorems, TLAPS

Boxes == [dir : BOOLEAN, data : BOOLEAN, meta : Names \cup {Nil, "torn"},
          map : {"absent", "torn", "whole"}, config : BOOLEAN]
Memory == [stage : {"none", "empty", "sized", "ready"}, count : Nat,
           lock : BOOLEAN, ready : BOOLEAN]
Stations == Cleaning \cup Counted \cup
            {"start", "cleaned", "load", "policy", "open", "create", "truncate",
             "layout", "enter", "done", "failed"}

\* The values the variables take.
TypeOK ==
    /\ box \in Boxes
    /\ sock \in Runs \cup {Nil}
    /\ shm \in [Names -> Segs \cup {Nil}]
    /\ mem \in [Segs -> Memory]
    /\ daemon \in [Runs -> {"none", "starting", "listening", "stopping", "gone"}]
    /\ saves \in [Runs -> Names \cup {Nil}]
    /\ pc \in [Procs -> Stations]
    /\ how \in [Procs -> {"run", "clean", "force", "purge"}]
    /\ fresh \in [Procs -> BOOLEAN]
    /\ name \in [Procs -> Names \cup {Nil}]
    /\ seg \in [Procs -> Segs \cup {Nil}]
    /\ early \subseteq Runs /\ solo \subseteq Procs

\* Only runs start daemons and are counted, only cleaners end in a clean.
Roles ==
    \A p \in Procs :
        /\ how[p] = "run" <=> p \in Runs
        /\ pc[p] \notin Cleaning \cup {"start", "cleaned", "done", "failed"} => p \in Runs
        /\ pc[p] = "cleaned" => p \notin Runs
        /\ pc[p] = "start" => name[p] = Nil

BeforeSegment == Cleaning \cup {"start", "load", "policy", "open", "create"}
AtSegment == {"enter"} \cup Counted

\* A segment with a name, or mapped by someone, was created.
Made ==
    /\ \A n \in Names : shm[n] # Nil => mem[shm[n]].stage # "none"
    /\ \A p \in Procs : seg[p] # Nil => mem[seg[p]].stage # "none"

\* A run makes its own segment alone; it has one when it is counted or has
\* started a daemon.
Alone(r) ==
    /\ pc[r] \in BeforeSegment => seg[r] = Nil /\ mem[r].stage = "none"
    /\ pc[r] = "truncate" => seg[r] = r /\ mem[r].stage = "empty"
    /\ pc[r] = "layout" => seg[r] = r /\ mem[r].stage = "sized"
    /\ pc[r] \in AtSegment => seg[r] # Nil
    /\ daemon[r] # "none" => seg[r] # Nil

Mapped ==
    /\ Made
    /\ \A r \in Runs : Alone(r)
    /\ \A r \in early : pc[r] \in Counted \cup {"done", "failed"}

-----------------------------------------------------------------------------
(* What an action does to a segment.                                       *)

LEMMA Written ==
    ASSUME TypeOK, NEW s \in Segs, NEW m \in Memory, mem' = [mem EXCEPT ![s] = m]
    PROVE  /\ mem' \in [Segs -> Memory] /\ mem'[s] = m
           /\ \A t \in Segs \ {s} : mem'[t] = mem[t]
BY DEF TypeOK

\* Counted up and down, a count stays a number.
LEMMA Wraps ==
    \A n \in Nat : (n + 1) % Wrap \in Nat /\ (n + Wrap - 1) % Wrap \in Nat
<1>1. Wrap \in Nat \ {0}
  BY WrapAssumption, ProcsAssumption, FS_CardinalityType
<1> QED
  BY <1>1

\* Only s changes: its stage is g and its count is c.
Becomes(s, g, c) ==
    /\ mem' \in [Segs -> Memory] /\ mem'[s].stage = g /\ mem'[s].count = c
    /\ \A t \in Segs \ {s} : mem'[t] = mem[t]

LEMMA CreateMem ==
    ASSUME NEW r \in Runs, TypeOK, Mapped, Create(r)
    PROVE  Becomes(r, "empty", mem[r].count)
<1>1. r \in Segs
  BY DEF Segs, Names, Procs
<1>2. mem[r] \in Memory /\ [mem[r] EXCEPT !.stage = "empty"] \in Memory
  BY <1>1 DEF TypeOK, Memory
<1>3. mem' = [mem EXCEPT ![r] = [mem[r] EXCEPT !.stage = "empty"]]
  BY <1>1 DEF Create, MakesSegment, TypeOK
<1>4. [mem[r] EXCEPT !.stage = "empty"].stage = "empty"
      /\ [mem[r] EXCEPT !.stage = "empty"].count = mem[r].count
  BY <1>2 DEF Memory
<1> QED
  BY <1>1, <1>2, <1>3, <1>4, Written DEF Becomes

LEMMA TruncateMem ==
    ASSUME NEW r \in Runs, TypeOK, Mapped, Truncate(r)
    PROVE  seg[r] = r /\ Becomes(r, "sized", mem[r].count)
<1>1. r \in Segs /\ seg[r] = r
  BY DEF Segs, Names, Procs, Mapped, Alone, Truncate, Goes
<1>2. mem[r] \in Memory /\ [mem[r] EXCEPT !.stage = "sized"] \in Memory
  BY <1>1 DEF TypeOK, Memory
<1>3. mem' = [mem EXCEPT ![r] = [mem[r] EXCEPT !.stage = "sized"]]
  BY <1>1 DEF Truncate, Changes
<1>4. [mem[r] EXCEPT !.stage = "sized"].stage = "sized"
      /\ [mem[r] EXCEPT !.stage = "sized"].count = mem[r].count
  BY <1>2 DEF Memory
<1> QED
  BY <1>1, <1>2, <1>3, <1>4, Written DEF Becomes

LEMMA LayoutMem ==
    ASSUME NEW r \in Runs, TypeOK, Mapped, Layout(r)
    PROVE  seg[r] = r /\ Becomes(r, "ready", 0)
<1>1. r \in Segs /\ seg[r] = r
  BY DEF Segs, Names, Procs, Mapped, Alone, Layout, Goes
<1> DEFINE m == [NoMem EXCEPT !.stage = "ready"]
<1>2. m \in Memory /\ m.stage = "ready" /\ m.count = 0
  BY DEF NoMem, Memory
<1>3. mem' = [mem EXCEPT ![r] = m]
  BY <1>1 DEF Layout, Changes
<1> QED
  BY <1>1, <1>2, <1>3, Written DEF Becomes

LEMMA EnterMem ==
    ASSUME NEW r \in Runs, TypeOK, Mapped, Enter(r)
    PROVE  /\ seg[r] \in Segs
           /\ Becomes(seg[r], mem[seg[r]].stage, (mem[seg[r]].count + 1) % Wrap)
<1> DEFINE m == mem[seg[r]]
           y == m.ready /\ m.count # 0
<1>1. seg[r] \in Segs
  BY DEF Mapped, Alone, AtSegment, Enter, Goes, TypeOK, Procs
<1>2. m \in Memory
  BY <1>1 DEF TypeOK
<1>3. m.count \in Nat /\ (m.count = 0) \in BOOLEAN /\ y \in BOOLEAN
  BY <1>2 DEF Memory
<1>4. (m.count + 1) % Wrap \in Nat
  BY <1>3, Wraps
<1>5. [m EXCEPT !.count = (@ + 1) % Wrap, !.lock = (m.count = 0), !.ready = @ /\ m.count # 0]
      = [m EXCEPT !.count = (m.count + 1) % Wrap, !.lock = (m.count = 0), !.ready = y]
  BY <1>2 DEF Memory
<1>6. mem' = [mem EXCEPT ![seg[r]] = [m EXCEPT !.count = (m.count + 1) % Wrap,
                                              !.lock = (m.count = 0), !.ready = y]]
  BY <1>5 DEF Enter, Changes
<1> DEFINE c == (m.count + 1) % Wrap
           l == m.count = 0
<1> HIDE DEF m, y, c, l
<1>7. LET k == [m EXCEPT !.count = c, !.lock = l, !.ready = y]
      IN  k \in Memory /\ k.stage = m.stage /\ k.count = c
  <2>1. c \in Nat /\ l \in BOOLEAN /\ y \in BOOLEAN
    BY <1>3, <1>4 DEF c, l
  <2>2. [m EXCEPT !.count = c, !.lock = l, !.ready = y] \in Memory
    BY <1>2, <2>1 DEF Memory
  <2>3. [m EXCEPT !.count = c, !.lock = l, !.ready = y].stage = m.stage
    BY <1>2 DEF Memory
  <2>4. [m EXCEPT !.count = c, !.lock = l, !.ready = y].count = c
    BY <1>2 DEF Memory
  <2> QED
    BY <2>2, <2>3, <2>4
<1> USE DEF c, l
<1>8. Becomes(seg[r], m.stage, (m.count + 1) % Wrap)
  BY <1>1, <1>6, <1>7, Written DEF Becomes
<1> QED
  BY <1>1, <1>8 DEF m

LEMMA BindMem ==
    ASSUME NEW r \in Runs, TypeOK, Mapped, DaemonBinds(r)
    PROVE  /\ seg[r] \in Segs
           /\ Becomes(seg[r], mem[seg[r]].stage, mem[seg[r]].count)
<1> DEFINE m == mem[seg[r]]
<1>1. seg[r] \in Segs
  BY DEF Mapped, Alone, DaemonBinds, TypeOK, Procs
<1>2. m \in Memory
  BY <1>1 DEF TypeOK
<1>3. mem' = [mem EXCEPT ![seg[r]] = [m EXCEPT !.ready = TRUE, !.lock = FALSE]]
  BY <1>1 DEF DaemonBinds, TypeOK
<1> HIDE DEF m
<1>4. LET k == [m EXCEPT !.ready = TRUE, !.lock = FALSE]
      IN  k \in Memory /\ k.stage = m.stage /\ k.count = m.count
  BY <1>2 DEF Memory
<1>5. Becomes(seg[r], m.stage, m.count)
  BY <1>1, <1>3, <1>4, Written DEF Becomes
<1> QED
  BY <1>1, <1>5 DEF m

LEMMA FailMem ==
    ASSUME NEW r \in Runs, TypeOK, Mapped, DaemonFails(r)
    PROVE  /\ seg[r] \in Segs
           /\ Becomes(seg[r], mem[seg[r]].stage, (mem[seg[r]].count + Wrap - 1) % Wrap)
<1> DEFINE m == mem[seg[r]]
<1>1. seg[r] \in Segs
  BY DEF Mapped, Alone, AtSegment, Counted, DaemonFails, Goes, TypeOK, Procs
<1>2. m \in Memory
  BY <1>1 DEF TypeOK
<1>3. (m.count + Wrap - 1) % Wrap \in Nat
  BY <1>2, Wraps DEF Memory
<1>4. mem' = [mem EXCEPT ![seg[r]] =
                 [[m EXCEPT !.count = (@ + Wrap - 1) % Wrap] EXCEPT !.lock = FALSE]]
  BY <1>1 DEF DaemonFails, Changes, CountOut
<1> HIDE DEF m
<1>5. LET k == [[m EXCEPT !.count = (@ + Wrap - 1) % Wrap] EXCEPT !.lock = FALSE]
      IN  k \in Memory /\ k.stage = m.stage /\ k.count = (m.count + Wrap - 1) % Wrap
  BY <1>2, <1>3 DEF Memory
<1>6. Becomes(seg[r], m.stage, (m.count + Wrap - 1) % Wrap)
  BY <1>1, <1>4, <1>5, Written DEF Becomes
<1> QED
  BY <1>1, <1>6 DEF m

LEMMA LeaveMem ==
    ASSUME NEW r \in Runs, TypeOK, Mapped, Leave(r)
    PROVE  /\ seg[r] \in Segs
           /\ Becomes(seg[r], mem[seg[r]].stage, (mem[seg[r]].count + Wrap - 1) % Wrap)
<1> DEFINE m == mem[seg[r]]
<1>1. seg[r] \in Segs
  BY DEF Mapped, Alone, AtSegment, Counted, Leave, Goes, TypeOK, Procs
<1>2. m \in Memory
  BY <1>1 DEF TypeOK
<1>3. (m.count + Wrap - 1) % Wrap \in Nat
  BY <1>2, Wraps DEF Memory
<1>4. mem' = [mem EXCEPT ![seg[r]] = [m EXCEPT !.count = (@ + Wrap - 1) % Wrap]]
  BY <1>1 DEF Leave, Changes, CountOut
<1> HIDE DEF m
<1>5. LET k == [m EXCEPT !.count = (@ + Wrap - 1) % Wrap]
      IN  k \in Memory /\ k.stage = m.stage /\ k.count = (m.count + Wrap - 1) % Wrap
  BY <1>2, <1>3 DEF Memory
<1>6. Becomes(seg[r], m.stage, (m.count + Wrap - 1) % Wrap)
  BY <1>1, <1>4, <1>5, Written DEF Becomes
<1> QED
  BY <1>1, <1>6 DEF m

LEMMA StopMem ==
    ASSUME NEW r \in Runs, TypeOK, Mapped, Stop(r)
    PROVE  /\ seg[r] \in Segs
           /\ Becomes(seg[r], mem[seg[r]].stage, mem[seg[r]].count)
<1> DEFINE m == mem[seg[r]]
<1>1. seg[r] \in Segs
  BY DEF Mapped, Alone, Stop, TypeOK, Procs
<1>2. m \in Memory
  BY <1>1 DEF TypeOK
<1>3. mem' = [mem EXCEPT ![seg[r]] = [m EXCEPT !.ready = FALSE]]
  BY <1>1 DEF Stop, TypeOK
<1> HIDE DEF m
<1>4. LET k == [m EXCEPT !.ready = FALSE]
      IN  k \in Memory /\ k.stage = m.stage /\ k.count = m.count
  BY <1>2 DEF Memory
<1>5. Becomes(seg[r], m.stage, m.count)
  BY <1>1, <1>3, <1>4, Written DEF Becomes
<1> QED
  BY <1>1, <1>5 DEF m

-----------------------------------------------------------------------------
(* The types.                                                              *)

LEMMA TypeInit == Init => TypeOK /\ Roles
<1> SUFFICES ASSUME Init PROVE TypeOK /\ Roles
  OBVIOUS
<1>1. box \in Boxes
  <2>1. Absent \in Boxes /\ Whole(Old) \in Boxes
    BY DEF Boxes, Absent, Whole, Names
  <2> QED
    BY <2>1 DEF Init
<1>2. shm \in [Names -> Segs \cup {Nil}]
  BY DEF Init, Segs, Names
<1>3. mem \in [Segs -> Memory]
  BY DEF Init, NoMem, Memory
<1> QED
  BY <1>1, <1>2, <1>3 DEF Init, TypeOK, Roles, Stations, Cleaning

LEMMA TypeByClean == \A p \in Procs : TypeOK /\ Roles /\ Clean(p) => TypeOK' /\ Roles'
<1> SUFFICES ASSUME NEW p \in Procs, TypeOK, Roles, Clean(p) PROVE TypeOK' /\ Roles'
  OBVIOUS
<1>0. p \in Names /\ Nil \notin Names
  BY ProcsAssumption DEF Names
<1> USE DEF TypeOK, Roles, Stations, Cleaning, Step, Goes, Writes, Reads, Fails, daemons,
        segments, own
<1>1. CASE Begin(p)
  BY <1>1 DEF Begin
<1>2. CASE CheckDir(p)
  BY <1>2 DEF CheckDir
<1>3. CASE GoOn(p)
  BY <1>3 DEF GoOn
<1>15. CASE Refuse(p)
  BY <1>15 DEF Refuse
<1>4. CASE ReadOld(p)
  BY <1>4, ZenonT(40) DEF ReadOld, Boxes
<1>5. CASE RemoveFiles(p)
  BY <1>5 DEF RemoveFiles, Boxes
<1>6. CASE RemoveData(p)
  BY <1>6, ZenonT(40) DEF RemoveData, Boxes
<1>7. CASE RemoveFails(p) \/ FlushFails(p) \/ FinishFails(p) \/ Crash(p)
  BY <1>7, ZenonT(40) DEF RemoveFails, FlushFails, FinishFails, Crash
<1>8. CASE Unlink(p)
  BY <1>8 DEF Unlink
<1>9. CASE RemoveSock(p)
  BY <1>9 DEF RemoveSock
<1>10. CASE Make(p)
  BY <1>0, <1>10, ZenonT(40) DEF Make, Boxes
<1>11. CASE TornMeta(p)
  BY <1>11, ZenonT(40) DEF TornMeta, Flush, Boxes
<1>16. CASE WriteMeta(p)
  BY <1>0, <1>16, ZenonT(40) DEF WriteMeta, Flush, Boxes
<1>17. CASE WriteMap(p)
  BY <1>17, ZenonT(40) DEF WriteMap, Flush, Boxes
<1>12. CASE Finish(p)
  BY <1>12, ZenonT(40) DEF Finish, Boxes
<1>13. CASE Cleaned(p)
  BY <1>13 DEF Cleaned
<1>14. CASE Purge(p)
  BY <1>14, ZenonT(40) DEF Purge, Boxes, Absent
<1> QED
  BY <1>1, <1>2, <1>3, <1>4, <1>5, <1>6, <1>7, <1>8, <1>9, <1>10, <1>11, <1>12, <1>13, <1>14,
     <1>15, <1>16, <1>17 DEF Clean

LEMMA TypeByRun ==
    \A r \in Runs : TypeOK /\ Roles /\ Mapped /\ Run(r) => TypeOK' /\ Roles'
<1> SUFFICES ASSUME NEW r \in Runs, TypeOK, Roles, Mapped, Run(r) PROVE TypeOK' /\ Roles'
  OBVIOUS
<1>0. r \in Procs /\ r \in Names /\ Nil \notin Names /\ "torn" \notin Names
  BY ProcsAssumption DEF Names, Procs
<1> USE <1>0 DEF Stations, Cleaning, Counted, Step, Goes, Reads, Fails,
        daemons, segments, own
<1>1. CASE Prepare(r)
  BY <1>1 DEF Prepare, TypeOK, Roles
<1>2. CASE Load(r)
  BY <1>2 DEF Load, Boxes, TypeOK, Roles
<1>3. CASE LoadFails(r)
  BY <1>3 DEF LoadFails, TypeOK, Roles
<1>17. CASE PolicyFails(r)
  BY <1>17 DEF PolicyFails, TypeOK, Roles
<1>18. CASE CreateFails(r)
  BY <1>18 DEF CreateFails, TypeOK, Roles
<1>19. CASE EnterDies(r)
  BY <1>19 DEF EnterDies, TypeOK, Roles
<1>4. CASE BuildPolicy(r)
  BY <1>4 DEF BuildPolicy, TypeOK, Roles
<1>5. CASE Open(r)
  BY <1>5 DEF Open, Taken, TypeOK, Roles
<1>6. CASE OpenFails(r)
  BY <1>6 DEF OpenFails, TypeOK, Roles
<1>7. CASE Create(r)
  <2>1. mem' \in [Segs -> Memory]
    BY <1>7, CreateMem DEF Becomes
  <2> QED
    BY <1>7, <2>1 DEF Create, MakesSegment, TypeOK, Roles, Segs
<1>8. CASE Truncate(r)
  <2>1. mem' \in [Segs -> Memory]
    BY <1>8, TruncateMem DEF Becomes
  <2> QED
    BY <1>8, <2>1 DEF Truncate, Changes, TypeOK, Roles
<1>9. CASE Layout(r)
  <2>1. mem' \in [Segs -> Memory]
    BY <1>9, LayoutMem DEF Becomes
  <2> QED
    BY <1>9, <2>1 DEF Layout, Changes, TypeOK, Roles
<1>10. CASE Enter(r)
  <2>1. mem' \in [Segs -> Memory]
    BY <1>10, EnterMem DEF Becomes
  <2> QED
    BY <1>10, <2>1 DEF Enter, Changes, TypeOK, Roles
<1>11. CASE DaemonLoads(r)
  BY <1>11 DEF DaemonLoads, Boxes, TypeOK, Roles
<1>12. CASE DaemonBinds(r)
  <2>1. mem' \in [Segs -> Memory]
    BY <1>12, BindMem DEF Becomes
  <2> QED
    BY <1>12, <2>1 DEF DaemonBinds, Boxes, TypeOK, Roles
<1>13. CASE DaemonFails(r)
  <2>1. mem' \in [Segs -> Memory]
    BY <1>13, FailMem DEF Becomes
  <2> QED
    BY <1>13, <2>1 DEF DaemonFails, Changes, TypeOK, Roles
<1>14. CASE Ready(r)
  BY <1>14 DEF Ready, TypeOK, Roles
<1>15. CASE Leave(r)
  <2>1. mem' \in [Segs -> Memory]
    BY <1>15, LeaveMem DEF Becomes
  <2> QED
    BY <1>15, <2>1 DEF Leave, Changes, TypeOK, Roles
<1>16. CASE Stop(r) \/ StopAgain(r)
  <2>1. mem' \in [Segs -> Memory]
    BY <1>16, StopMem DEF Becomes, StopAgain, TypeOK
  <2>2. [box EXCEPT !.meta = saves[r], !.map = "whole"] \in Boxes
    BY DEF Boxes, TypeOK
  <2>3. box' \in Boxes
    BY <1>16, <2>2 DEF Stop, StopAgain, Saves, TypeOK
  <2> QED
    BY <1>16, <2>1, <2>3, ZenonT(40) DEF Stop, StopAgain, Saves, TypeOK, Roles
<1> QED
  BY <1>1, <1>2, <1>3, <1>4, <1>5, <1>6, <1>7, <1>8, <1>9, <1>10, <1>11, <1>12, <1>13, <1>14,
     <1>15, <1>16, <1>17, <1>18, <1>19 DEF Run

\* A process that cleans leaves segments, daemons and the count alone, except
\* that it takes names away.
LEMMA CleanFrame ==
    ASSUME NEW p \in Procs, TypeOK, Roles, Clean(p)
    PROVE  /\ UNCHANGED <<mem, seg, daemon, saves, early, how>>
           /\ \A n \in Names : shm'[n] \in {Nil, shm[n]}
           /\ \A q \in Procs \ {p} : pc'[q] = pc[q]
           /\ pc[p] \in Cleaning \cup {"start", "cleaned"}
           /\ pc'[p] \in Cleaning \cup {"load", "cleaned", "done", "failed"}
           /\ p \in Runs => pc[p] \in Cleaning /\ pc'[p] \in Cleaning \cup {"load", "failed"}
<1> USE DEF TypeOK, Roles, Cleaning, Goes, Writes, Reads, Fails, daemons, segments, own
<1>1. CASE Begin(p)
  BY <1>1 DEF Begin
<1>2. CASE CheckDir(p) \/ GoOn(p) \/ Refuse(p)
  BY <1>2 DEF CheckDir, GoOn, Refuse
<1>3. CASE ReadOld(p)
  BY <1>3 DEF ReadOld
<1>4. CASE RemoveFiles(p) \/ RemoveData(p) \/ RemoveFails(p)
  BY <1>4 DEF RemoveFiles, RemoveData, RemoveFails
<1>5. CASE Unlink(p)
  BY <1>5 DEF Unlink
<1>6. CASE RemoveSock(p) \/ Make(p)
  BY <1>6 DEF RemoveSock, Make
<1>7. CASE TornMeta(p) \/ WriteMeta(p) \/ WriteMap(p) \/ FlushFails(p)
  BY <1>7 DEF TornMeta, WriteMeta, WriteMap, Flush, FlushFails
<1>8. CASE Finish(p) \/ FinishFails(p) \/ Cleaned(p)
  BY <1>8 DEF Finish, FinishFails, Cleaned
<1>9. CASE Purge(p) \/ Crash(p)
  BY <1>9 DEF Purge, Crash
<1> QED
  BY <1>1, <1>2, <1>3, <1>4, <1>5, <1>6, <1>7, <1>8, <1>9 DEF Clean

\* Only what r does changes for r, and it maps a segment once.
LEMMA RunFrame ==
    ASSUME NEW r \in Runs, TypeOK, Roles, Run(r)
    PROVE  /\ \A q \in Procs \ {r} : pc'[q] = pc[q] /\ seg'[q] = seg[q] /\ name'[q] = name[q]
           /\ \A q \in Runs \ {r} : daemon'[q] = daemon[q] /\ saves'[q] = saves[q]
           /\ early' \subseteq early \cup {r} /\ early \subseteq early'
           /\ ~Open(r) /\ ~Create(r) => UNCHANGED <<shm, seg>>
           /\ UNCHANGED how
<1> USE DEF TypeOK, Roles, Goes, Reads, Fails, Changes, daemons, segments, own
<1>1. CASE Prepare(r) \/ Load(r) \/ LoadFails(r) \/ BuildPolicy(r) \/ PolicyFails(r)
  BY <1>1 DEF Prepare, Load, LoadFails, BuildPolicy, PolicyFails
<1>2. CASE Open(r) \/ OpenFails(r) \/ CreateFails(r)
  BY <1>2 DEF Open, OpenFails, CreateFails
<1>3. CASE Create(r)
  BY <1>3 DEF Create, MakesSegment
<1>4. CASE Truncate(r) \/ Layout(r)
  BY <1>4 DEF Truncate, Layout
<1>5. CASE Enter(r)
  BY <1>5 DEF Enter
<1>6. CASE EnterDies(r) \/ Ready(r) \/ Leave(r)
  BY <1>6 DEF EnterDies, Ready, Leave
<1>7. CASE DaemonLoads(r) \/ DaemonBinds(r) \/ DaemonFails(r)
  BY <1>7 DEF DaemonLoads, DaemonBinds, DaemonFails
<1>8. CASE Stop(r) \/ StopAgain(r)
  BY <1>8 DEF Stop, StopAgain, Saves
<1> QED
  BY <1>1, <1>2, <1>3, <1>4, <1>5, <1>6, <1>7, <1>8 DEF Run

-----------------------------------------------------------------------------
(* Segments and who has mapped them.                                       *)

LEMMA MappedInit == Init => Mapped
<1> SUFFICES ASSUME Init PROVE Mapped
  OBVIOUS
<1>1. Nil \notin Names /\ Old \in Names /\ Old \notin Runs /\ Runs \subseteq Names
  BY ProcsAssumption DEF Names, Procs
<1>2. \A n \in Names : shm[n] # Nil => n = Old /\ shm[n] = Old
  BY <1>1 DEF Init
<1>3. \A s \in Segs : mem[s].stage = IF shm[Old] = s THEN "ready" ELSE "none"
  BY DEF Init, NoMem
<1>4. Made
  BY <1>1, <1>2, <1>3 DEF Made, Init, Segs, Procs
<1>5. ASSUME NEW r \in Runs PROVE Alone(r)
  <2>1. mem[r].stage = "none"
    BY <1>1, <1>2, <1>3 DEF Segs
  <2> QED
    BY <1>1, <2>1 DEF Alone, Init, AtSegment, Counted, Procs
<1> QED
  BY <1>4, <1>5 DEF Init, Mapped

LEMMA MappedByClean ==
    ASSUME NEW p \in Procs, TypeOK, Roles, Mapped, Clean(p)
    PROVE  Mapped'
<1>1. Made'
  BY CleanFrame DEF Made, Mapped
<1>2. ASSUME NEW r \in Runs PROVE Alone(r)'
  <2>1. CASE r = p
    BY <2>1, CleanFrame DEF Alone, Mapped, BeforeSegment, AtSegment, Cleaning, Counted
  <2>2. CASE r # p
    BY <2>2, CleanFrame DEF Alone, Mapped, Procs
  <2> QED
    BY <2>1, <2>2
<1>3. \A r \in early' : pc'[r] \in Counted \cup {"done", "failed"}
  BY CleanFrame DEF Mapped, Cleaning, Counted, TypeOK, Procs
<1> QED
  BY <1>1, <1>2, <1>3 DEF Mapped

\* What r does to the segments: none is unmade, and only its own is built.
LEMMA StageFrame ==
    ASSUME NEW r \in Runs, TypeOK, Roles, Mapped, Run(r)
    PROVE  /\ \A s \in Segs : mem[s].stage # "none" => mem'[s].stage # "none"
           /\ \A s \in Segs \ {r} : mem'[s].stage = mem[s].stage
<1> USE DEF Becomes, Reads, Fails, daemons, segments, own
<1>1. CASE Prepare(r) \/ Load(r) \/ LoadFails(r) \/ BuildPolicy(r) \/ PolicyFails(r)
  BY <1>1 DEF Prepare, Load, LoadFails, BuildPolicy, PolicyFails
<1>2. CASE Open(r) \/ OpenFails(r) \/ CreateFails(r) \/ EnterDies(r) \/ Ready(r)
  BY <1>2 DEF Open, OpenFails, CreateFails, EnterDies, Ready
<1>3. CASE DaemonLoads(r) \/ StopAgain(r)
  BY <1>3 DEF DaemonLoads, StopAgain
<1>4. CASE Create(r)
  BY <1>4, CreateMem
<1>5. CASE Truncate(r)
  BY <1>5, TruncateMem
<1>6. CASE Layout(r)
  BY <1>6, LayoutMem
<1>7. CASE Enter(r)
  BY <1>7, EnterMem
<1>8. CASE DaemonBinds(r)
  BY <1>8, BindMem
<1>9. CASE DaemonFails(r)
  BY <1>9, FailMem
<1>10. CASE Leave(r)
  BY <1>10, LeaveMem
<1>11. CASE Stop(r)
  BY <1>11, StopMem
<1> QED
  BY <1>1, <1>2, <1>3, <1>4, <1>5, <1>6, <1>7, <1>8, <1>9, <1>10, <1>11 DEF Run

LEMMA MappedByRun ==
    ASSUME NEW r \in Runs, TypeOK, Roles, Mapped, Run(r)
    PROVE  Mapped'
<1>0. Runs \subseteq Procs /\ Procs \subseteq Segs /\ Segs = Names /\ Nil \notin Names
  BY ProcsAssumption DEF Names, Procs, Segs
<1>1. Made'
  <2>1. CASE Open(r)
    <3>1. name[r] \in Names /\ shm[name[r]] \in Segs /\ UNCHANGED shm
      BY <2>1, <1>0 DEF Open, Taken, TypeOK, segments
    <3>2. mem[shm[name[r]]].stage # "none"
      BY <3>1, <1>0 DEF Mapped, Made
    <3> QED
      BY <2>1, <1>0, <3>1, <3>2, StageFrame, RunFrame DEF Open, Mapped, Made, TypeOK
  <2>2. CASE Create(r)
    <3>1. mem'[r].stage = "empty"
      BY <2>2, CreateMem DEF Becomes
    <3> QED
      BY <2>2, <1>0, <3>1, StageFrame, RunFrame DEF Create, MakesSegment, Mapped, Made, TypeOK
  <2>3. CASE ~Open(r) /\ ~Create(r)
    BY <2>3, <1>0, StageFrame, RunFrame DEF Mapped, Made, TypeOK
  <2> QED
    BY <2>1, <2>2, <2>3
<1>2. ASSUME NEW q \in Runs \ {r} PROVE Alone(q)'
  BY <1>0, StageFrame, RunFrame DEF Mapped, Alone
<1>5. Stop(r) => mem'[r].stage = mem[r].stage
  <2> SUFFICES ASSUME Stop(r) PROVE mem'[r].stage = mem[r].stage
    OBVIOUS
  <2>1. Becomes(seg[r], mem[seg[r]].stage, mem[seg[r]].count)
    BY StopMem
  <2> QED
    BY <1>0, <2>1 DEF Becomes
<1>3. Alone(r)'
  <2>0. Alone(r) /\ r \in Procs /\ r \in Segs /\ r # Nil
    BY <1>0 DEF Mapped
  <2> USE <2>0 DEF Alone, BeforeSegment, AtSegment, Cleaning, Counted, Goes, Reads, Fails,
          Changes, TypeOK, daemons, segments, own
  <2>1. CASE Prepare(r)
    BY <2>1 DEF Prepare
  <2>2. CASE Load(r) \/ LoadFails(r)
    BY <2>2 DEF Load, LoadFails
  <2>3. CASE BuildPolicy(r) \/ PolicyFails(r)
    BY <2>3 DEF BuildPolicy, PolicyFails
  <2>4. CASE Open(r)
    BY <2>4, <1>0 DEF Open, Taken
  <2>5. CASE OpenFails(r) \/ CreateFails(r)
    BY <2>5 DEF OpenFails, CreateFails
  <2>6. CASE Create(r)
    BY <2>6, CreateMem DEF Becomes, Create, MakesSegment
  <2>7. CASE Truncate(r)
    BY <2>7, TruncateMem DEF Becomes, Truncate
  <2>8. CASE Layout(r)
    BY <2>8 DEF Layout
  <2>9. CASE Enter(r)
    BY <2>9 DEF Enter
  <2>10. CASE EnterDies(r) \/ Ready(r)
    BY <2>10, ZenonT(40) DEF EnterDies, Ready
  <2>11. CASE DaemonLoads(r)
    BY <2>11 DEF DaemonLoads
  <2>12. CASE DaemonBinds(r)
    BY <2>12 DEF DaemonBinds
  <2>13. CASE DaemonFails(r)
    BY <2>13 DEF DaemonFails
  <2>14. CASE Leave(r)
    BY <2>14 DEF Leave
  <2>15. CASE Stop(r)
    BY <2>15, <1>5 DEF Stop, Saves
  <2>16. CASE StopAgain(r)
    BY <2>16 DEF StopAgain, Saves
  <2> QED
    BY <2>1, <2>2, <2>3, <2>4, <2>5, <2>6, <2>7, <2>8, <2>9, <2>10, <2>11, <2>12, <2>13, <2>14,
       <2>15, <2>16 DEF Run
<1>4. \A q \in early' : pc'[q] \in Counted \cup {"done", "failed"}
  <2>1. ASSUME NEW q \in early, q # r PROVE pc'[q] \in Counted \cup {"done", "failed"}
    BY <2>1, <1>0, RunFrame DEF Mapped, TypeOK
  <2> USE DEF Mapped, Counted, Goes, Reads, Fails, Changes, TypeOK
  <2>2. r \in early' => pc'[r] \in Counted \cup {"done", "failed"}
    <3>1. CASE Prepare(r) \/ Load(r) \/ LoadFails(r) \/ BuildPolicy(r) \/ PolicyFails(r)
      BY <3>1, <1>0 DEF Prepare, Load, LoadFails, BuildPolicy, PolicyFails
    <3>2. CASE Open(r) \/ OpenFails(r) \/ Create(r) \/ CreateFails(r)
      BY <3>2, <1>0 DEF Open, OpenFails, Create, MakesSegment, CreateFails
    <3>3. CASE Truncate(r) \/ Layout(r)
      BY <3>3, <1>0 DEF Truncate, Layout
    <3>4. CASE Enter(r)
      BY <3>4, <1>0 DEF Enter
    <3>5. CASE EnterDies(r) \/ Ready(r) \/ Leave(r)
      BY <3>5, <1>0 DEF EnterDies, Ready, Leave
    <3>6. CASE DaemonLoads(r) \/ DaemonBinds(r) \/ DaemonFails(r)
      BY <3>6, <1>0 DEF DaemonLoads, DaemonBinds, DaemonFails
    <3>7. CASE Stop(r) \/ StopAgain(r)
      BY <3>7, <1>0 DEF Stop, StopAgain, Saves
    <3> QED
      BY <3>1, <3>2, <3>3, <3>4, <3>5, <3>6, <3>7 DEF Run
  <2> QED
    BY <2>1, <2>2, RunFrame
<1> QED
  BY <1>1, <1>2, <1>3, <1>4 DEF Mapped

\* All of it together, for the invariants that follow.
Base == TypeOK /\ Roles /\ Mapped

LEMMA BaseInit == Init => Base
BY TypeInit, MappedInit DEF Base

LEMMA BaseNext == Base /\ [Next]_vars => Base'
<1>1. Base /\ UNCHANGED vars => Base'
  BY DEF Base, TypeOK, Roles, Mapped, Made, Alone, vars, daemons, segments, own
<1> QED
  BY <1>1, TypeByClean, TypeByRun, MappedByClean, MappedByRun DEF Base, Next

-----------------------------------------------------------------------------
(* The count.                                                              *)

\* The runs that are counted in a segment.
In(s) == {r \in Runs : pc[r] \in Counted /\ seg[r] = s}

\* Before the layout only early runs are in a segment; it is what the layout
\* overwrites.
CountOf(s) ==
    \/ mem[s].stage = "ready" /\ mem[s].count = Cardinality(In(s))
    \/ mem[s].stage # "ready" /\ In(s) \subseteq early
    \/ \E r \in early : seg[r] = s

CountInv == \A s \in Segs : CountOf(s)

\* There are fewer runs than the count can tell apart.
LEMMA InFinite ==
    \A s : /\ IsFiniteSet(In(s)) /\ Cardinality(In(s)) \in Nat
          /\ Cardinality(In(s)) < Wrap
<1> TAKE s
<1>1. In(s) \subseteq Runs
  BY DEF In
<1>2. IsFiniteSet(In(s)) /\ Cardinality(In(s)) <= Cardinality(Runs)
  BY <1>1, ProcsAssumption, FS_Subset
<1> QED
  BY <1>2, ProcsAssumption, WrapAssumption, FS_CardinalityType

LEMMA InFinitePrime ==
    \A s : /\ IsFiniteSet(In(s)') /\ Cardinality(In(s)') \in Nat
          /\ Cardinality(In(s)') < Wrap
<1> TAKE s
<1>1. In(s)' \subseteq Runs
  BY DEF In
<1>2. IsFiniteSet(In(s)') /\ Cardinality(In(s)') <= Cardinality(Runs)
  BY <1>1, ProcsAssumption, FS_Subset
<1> QED
  BY <1>2, ProcsAssumption, WrapAssumption, FS_CardinalityType

LEMMA CountInit == Init => CountInv
<1> SUFFICES ASSUME Init, NEW s \in Segs PROVE CountOf(s)
  BY DEF CountInv
<1>1. In(s) = {}
  BY DEF Init, In, Counted, Procs
<1>2. mem[s].count = 0
  BY DEF Init, NoMem
<1>3. Cardinality(In(s)) = 0
  BY <1>1, FS_EmptySet
<1> QED
  BY <1>1, <1>2, <1>3 DEF CountOf

\* A segment stays counted while nobody enters or leaves it.
LEMMA CountSame ==
    ASSUME NEW s \in Segs, CountOf(s), In(s)' = In(s),
           mem'[s].stage = mem[s].stage, mem'[s].count = mem[s].count,
           early \subseteq early', \A q \in early : seg'[q] = seg[q]
    PROVE  CountOf(s)'
BY DEF CountOf

LEMMA CountByClean ==
    ASSUME NEW p \in Procs, Base, CountInv, Clean(p)
    PROVE  CountInv'
<1> SUFFICES ASSUME NEW s \in Segs PROVE CountOf(s)'
  BY DEF CountInv
<1>1. In(s)' = In(s)
  BY CleanFrame, ZenonT(40) DEF Base, In, Cleaning, Counted, Procs
<1> QED
  BY <1>1, CountSame, CleanFrame DEF Base, CountInv

\* An early run keeps the segment it was early in.
LEMMA EarlyStays ==
    ASSUME NEW r \in Runs, Base, Run(r)
    PROVE  early \subseteq early' /\ \A q \in early : seg'[q] = seg[q]
<1>1. early \subseteq Runs /\ Runs \subseteq Procs
  BY DEF Base, TypeOK, Procs
<1>2. r \in early => ~Open(r) /\ ~Create(r)
  BY DEF Base, Mapped, Counted, Open, Create, MakesSegment, Goes
<1> QED
  BY <1>1, <1>2, RunFrame DEF Base

LEMMA Enters ==
    ASSUME NEW r \in Runs, NEW s \in Segs, s = seg[r], Base, CountInv, Enter(r)
    PROVE  CountOf(s)'
<1>0. s \in Segs /\ CountOf(s) /\ r \in Procs /\ seg' = seg
  BY EnterMem DEF Base, CountInv, Enter, Changes, own, Procs
<1>1. mem'[s].stage = mem[s].stage /\ mem'[s].count = (mem[s].count + 1) % Wrap
  BY EnterMem DEF Base, Becomes
<1>2. mem[s].stage \in {"sized", "ready"}
  <2>1. mem[s].stage # "none" /\ mem[s].stage # "empty"
    BY <1>0, ProcsAssumption DEF Base, Mapped, Made, Enter, Segs
  <2> QED
    BY <1>0, <2>1 DEF Base, TypeOK, Memory
<1>3. In(s)' = In(s) \cup {r} /\ r \notin In(s)
  BY <1>0 DEF Base, TypeOK, In, Enter, Goes, Counted, Procs
<1>4. Cardinality(In(s)') = Cardinality(In(s)) + 1
  BY <1>3, InFinite, FS_AddElement
<1>5. (Cardinality(In(s)) + 1) % Wrap = Cardinality(In(s)) + 1
  <2>1. Cardinality(In(s)) + 1 < Wrap
    BY <1>4, InFinitePrime
  <2> QED
    BY <2>1, InFinite, WrapAssumption
<1>6. early \subseteq early' /\ \A q \in early : seg'[q] = seg[q]
  BY <1>0 DEF Enter
<1>7. CASE mem[s].stage = "sized"
  BY <1>7, <1>0 DEF Enter, CountOf
<1>8. CASE mem[s].stage = "ready" /\ mem[s].count = Cardinality(In(s))
  BY <1>8, <1>1, <1>4, <1>5 DEF CountOf
<1>9. CASE \E q \in early : seg[q] = s
  BY <1>9, <1>6, <1>0 DEF CountOf
<1> QED
  BY <1>0, <1>2, <1>7, <1>8, <1>9 DEF CountOf

\* r leaves s, which counts one less.
LEMMA Exits ==
    ASSUME NEW r \in Runs, NEW s \in Segs, Base, CountInv, Run(r), r \in In(s),
           pc'[r] \notin Counted,
           mem'[s].stage = mem[s].stage,
           mem'[s].count = (mem[s].count + Wrap - 1) % Wrap
    PROVE  CountOf(s)'
<1>1. In(s)' = In(s) \ {r}
  <2>1. Runs \subseteq Procs
    BY DEF Procs
  <2>2. \A q \in Runs \ {r} : pc'[q] = pc[q] /\ seg'[q] = seg[q]
    BY <2>1, RunFrame DEF Base
  <2> QED
    BY <2>2 DEF In
<1>2. Cardinality(In(s)') = Cardinality(In(s)) - 1
  BY <1>1, InFinite, FS_RemoveElement
<1>3. (Cardinality(In(s)) + Wrap - 1) % Wrap = Cardinality(In(s)) - 1
  <2> DEFINE n == Cardinality(In(s))
  <2>1. n - 1 \in Nat /\ n < Wrap /\ n \in Nat /\ Wrap \in Nat
    BY <1>2, InFinite, InFinitePrime, WrapAssumption
  <2> HIDE DEF n
  <2>2. (n + Wrap - 1) % Wrap = n - 1
    BY <2>1
  <2> QED
    BY <2>2 DEF n
<1> QED
  BY <1>1, <1>2, <1>3, EarlyStays DEF CountInv, CountOf

LEMMA CountByRun ==
    ASSUME NEW r \in Runs, Base, CountInv, Run(r)
    PROVE  CountInv'
<1> SUFFICES ASSUME NEW s \in Segs PROVE CountOf(s)'
  BY DEF CountInv
<1>0. r \in Procs /\ r \in Segs /\ Alone(r) /\ CountOf(s) /\ TypeOK /\ Roles /\ Mapped
  BY DEF Procs, Segs, Names, Base, Mapped, CountInv
<1>1. \A q \in Runs \ {r} : pc'[q] = pc[q] /\ seg'[q] = seg[q]
  BY <1>0, RunFrame DEF Procs
<1>e. early \subseteq early' /\ \A q \in early : seg'[q] = seg[q]
  BY EarlyStays
<1> DEFINE Same == mem'[s].stage = mem[s].stage /\ mem'[s].count = mem[s].count
           Out == pc[r] \notin Counted /\ pc'[r] \notin Counted
           Stays == pc[r] \in Counted /\ pc'[r] \in Counted /\ seg'[r] = seg[r]
           Away == seg[r] # s /\ seg'[r] # s
<1>2. Out \/ Stays \/ Away => In(s)' = In(s)
  BY <1>1 DEF In
<1>3. Same /\ (Out \/ Stays \/ Away) => CountOf(s)'
  BY <1>0, <1>2, <1>e, CountSame
<1> USE DEF Counted, Goes, Reads, Fails, Changes, daemons, segments, own
<1>4. CASE Prepare(r) \/ Load(r) \/ LoadFails(r) \/ BuildPolicy(r) \/ PolicyFails(r)
  BY <1>4, <1>3, <1>0 DEF TypeOK, Prepare, Load, LoadFails, BuildPolicy, PolicyFails
<1>5. CASE Open(r) \/ OpenFails(r) \/ CreateFails(r) \/ EnterDies(r)
  BY <1>5, <1>3, <1>0 DEF TypeOK, Open, OpenFails, CreateFails, EnterDies
<1>6. CASE Create(r)
  <2>1. Out /\ mem[r].stage = "none"
    BY <1>6, <1>0 DEF TypeOK, Create, MakesSegment, Alone, BeforeSegment
  <2>2. Becomes(r, "empty", mem[r].count)
    BY <1>6, <1>0, CreateMem
  <2>3. CASE s = r
    BY <2>1, <2>2, <2>3, <1>0, <1>2, <1>e DEF Becomes, CountOf
  <2>4. CASE s # r
    BY <2>1, <2>2, <2>4, <1>3 DEF Becomes
  <2> QED
    BY <2>3, <2>4
<1>7. CASE Truncate(r)
  <2>1. Out /\ mem[r].stage = "empty"
    BY <1>7, <1>0 DEF TypeOK, Truncate, Alone
  <2>2. Becomes(r, "sized", mem[r].count)
    BY <1>7, <1>0, TruncateMem
  <2>3. CASE s = r
    BY <2>1, <2>2, <2>3, <1>0, <1>2, <1>e DEF Becomes, CountOf
  <2>4. CASE s # r
    BY <2>1, <2>2, <2>4, <1>3 DEF Becomes
  <2> QED
    BY <2>3, <2>4
<1>8. CASE Layout(r)
  <2>1. Out /\ mem[r].stage = "sized"
    BY <1>8, <1>0 DEF TypeOK, Layout, Alone
  <2>2. Becomes(r, "ready", 0)
    BY <1>8, <1>0, LayoutMem
  <2>3. CASE s = r
    <3>1. CASE In(s) = {}
      <4>1. Cardinality(In(s)') = 0
        BY <3>1, <2>1, <1>2, FS_EmptySet
      <4> QED
        BY <4>1, <2>2, <2>3 DEF Becomes, CountOf
    <3>2. CASE In(s) # {}
      <4>1. \E q \in early : seg[q] = s
        BY <3>2, <2>1, <2>3, <1>0 DEF CountOf, In
      <4> QED
        BY <4>1, <1>e DEF CountOf
    <3> QED
      BY <3>1, <3>2
  <2>4. CASE s # r
    BY <2>1, <2>2, <2>4, <1>3 DEF Becomes
  <2> QED
    BY <2>3, <2>4
<1>9. CASE Enter(r)
  <2>1. CASE s = seg[r]
    BY <1>9, <2>1, Enters
  <2>2. CASE s # seg[r]
    BY <1>9, <2>2, <1>3, <1>0, EnterMem DEF Becomes, Enter
  <2> QED
    BY <2>1, <2>2
<1>10. CASE DaemonLoads(r) \/ Ready(r)
  BY <1>10, <1>3, <1>0 DEF TypeOK, DaemonLoads, Ready
<1>11. CASE DaemonBinds(r)
  <2>1. Same
    BY <1>11, <1>0, BindMem DEF Becomes
  <2> QED
    BY <1>11, <2>1, <1>3, <1>0 DEF TypeOK, DaemonBinds
<1>12. CASE DaemonFails(r) \/ Leave(r)
  <2>1. seg' = seg /\ pc[r] \in Counted /\ pc'[r] \notin Counted
    BY <1>12, <1>0 DEF TypeOK, DaemonFails, Leave
  <2>2. Becomes(seg[r], mem[seg[r]].stage, (mem[seg[r]].count + Wrap - 1) % Wrap)
    BY <1>12, <1>0, FailMem, LeaveMem
  <2>3. CASE s = seg[r]
    BY <2>1, <2>2, <2>3, Exits DEF Becomes, In
  <2>4. CASE s # seg[r]
    BY <2>1, <2>2, <2>4, <1>3 DEF Becomes
  <2> QED
    BY <2>3, <2>4
<1>13. CASE Stop(r)
  <2>1. Same
    BY <1>13, <1>0, StopMem DEF Becomes
  <2> QED
    BY <1>13, <2>1, <1>3, <1>0 DEF TypeOK, Stop, Saves
<1>14. CASE StopAgain(r)
  BY <1>14, <1>3, <1>0 DEF TypeOK, StopAgain, Saves
<1> QED
  BY <1>4, <1>5, <1>6, <1>7, <1>8, <1>9, <1>10, <1>11, <1>12, <1>13, <1>14 DEF Run

LEMMA CountNext == Base /\ CountInv /\ [Next]_vars => CountInv'
<1>1. CountInv /\ UNCHANGED vars => CountInv'
  BY DEF CountInv, CountOf, In, vars, daemons, segments, own
<1> QED
  BY <1>1, CountByClean, CountByRun DEF Next

-----------------------------------------------------------------------------
(* A name that is drawn is a new one.                                      *)

\* p has not drawn its name yet.
Unmade == {"start", "exists", "probe", "read", "files", "data", "unlink", "sock", "make"}

NotUsed(p) ==
    /\ box.meta # p /\ shm[p] = Nil
    /\ \A q \in Procs : name[q] # p
    /\ \A r \in Runs : saves[r] # p

NamesFresh == \A p \in Procs : pc[p] \in Unmade => NotUsed(p)

LEMMA NamesInit == Init => NamesFresh
<1> SUFFICES ASSUME Init, NEW p \in Procs PROVE NotUsed(p)
  BY DEF NamesFresh
<1>1. p # Old /\ p # Nil /\ p \in Names
  BY ProcsAssumption DEF Names
<1>2. box.meta \in {Old, Nil} /\ shm[p] = Nil
  BY <1>1 DEF Init, Absent, Whole
<1> QED
  BY <1>1, <1>2 DEF Init, NotUsed

LEMMA NamesByClean ==
    ASSUME NEW a \in Procs, Base, NamesFresh, Clean(a)
    PROVE  NamesFresh'
<1> SUFFICES ASSUME NEW p \in Procs, pc'[p] \in Unmade PROVE NotUsed(p)'
  BY DEF NamesFresh
<1>0. /\ p \in Names /\ p # Nil /\ p # "torn" /\ TypeOK /\ saves' = saves
      /\ \A n \in Names : shm'[n] \in {Nil, shm[n]}
      /\ \A q \in Procs \ {a} : pc'[q] = pc[q]
  BY ProcsAssumption, CleanFrame DEF Base, Names
<1> USE DEF TypeOK, Unmade, Goes, Writes, Reads, Fails, own
<1>1. pc[p] \in Unmade => NotUsed(p)
  BY DEF NamesFresh
<1>2. CASE Begin(a) \/ CheckDir(a) \/ GoOn(a) \/ Refuse(a)
  BY <1>0, <1>1, <1>2 DEF Begin, CheckDir, GoOn, Refuse, NotUsed
<1>3. CASE ReadOld(a)
  BY <1>0, <1>1, <1>3 DEF ReadOld, NotUsed
<1>4. CASE RemoveFiles(a) \/ RemoveData(a) \/ RemoveFails(a)
  BY <1>0, <1>1, <1>4, ZenonT(40) DEF RemoveFiles, RemoveData, RemoveFails, NotUsed, Boxes
<1>5. CASE Unlink(a) \/ RemoveSock(a)
  BY <1>0, <1>1, <1>5 DEF Unlink, RemoveSock, NotUsed
<1>6. CASE Make(a)
  BY <1>0, <1>1, <1>6 DEF Make, NotUsed, Boxes
<1>7. CASE TornMeta(a)
  BY <1>0, <1>1, <1>7 DEF TornMeta, Flush, NotUsed, Boxes
<1>8. CASE WriteMeta(a)
  BY <1>0, <1>1, <1>8 DEF WriteMeta, Flush, NotUsed, Boxes
<1>9. CASE WriteMap(a)
  BY <1>0, <1>1, <1>9 DEF WriteMap, Flush, NotUsed, Boxes
<1>12. CASE FlushFails(a)
  BY <1>0, <1>1, <1>12 DEF FlushFails, NotUsed
<1>10. CASE Finish(a) \/ FinishFails(a) \/ Cleaned(a)
  BY <1>0, <1>1, <1>10 DEF Finish, FinishFails, Cleaned, NotUsed, Boxes
<1>11. CASE Purge(a) \/ Crash(a)
  BY <1>0, <1>1, <1>11 DEF Purge, Crash, NotUsed, Absent
<1> QED
  BY <1>2, <1>3, <1>4, <1>5, <1>6, <1>7, <1>8, <1>9, <1>10, <1>11, <1>12 DEF Clean

LEMMA NamesByRun ==
    ASSUME NEW r \in Runs, Base, NamesFresh, Run(r)
    PROVE  NamesFresh'
<1> SUFFICES ASSUME NEW p \in Procs, pc'[p] \in Unmade PROVE NotUsed(p)'
  BY DEF NamesFresh
<1>0. /\ p \in Names /\ p # Nil /\ p # "torn" /\ TypeOK /\ r \in Procs
      /\ \A q \in Procs \ {r} : pc'[q] = pc[q]
  BY ProcsAssumption, RunFrame DEF Base, Names, Procs
<1> USE DEF TypeOK, Unmade, Goes, Reads, Fails, Changes, daemons, segments, own
<1>1. pc[p] \in Unmade => NotUsed(p)
  BY DEF NamesFresh
<1>2. CASE Prepare(r) \/ LoadFails(r) \/ BuildPolicy(r) \/ PolicyFails(r)
  BY <1>0, <1>1, <1>2 DEF Prepare, LoadFails, BuildPolicy, PolicyFails, NotUsed
<1>3. CASE Load(r)
  BY <1>0, <1>1, <1>3 DEF Load, NotUsed
<1>4. CASE Open(r) \/ OpenFails(r) \/ CreateFails(r)
  BY <1>0, <1>1, <1>4 DEF Open, OpenFails, CreateFails, NotUsed
<1>5. CASE Create(r)
  BY <1>0, <1>1, <1>5 DEF Create, MakesSegment, NotUsed
<1>6. CASE Truncate(r) \/ Layout(r)
  BY <1>0, <1>1, <1>6 DEF Truncate, Layout, NotUsed
<1>7. CASE Enter(r)
  BY <1>0, <1>1, <1>7 DEF Enter, NotUsed
<1>8. CASE EnterDies(r) \/ Ready(r) \/ Leave(r)
  BY <1>0, <1>1, <1>8 DEF EnterDies, Ready, Leave, NotUsed
<1>9. CASE DaemonLoads(r)
  BY <1>0, <1>1, <1>9 DEF DaemonLoads, NotUsed
<1>10. CASE DaemonBinds(r)
  BY <1>0, <1>1, <1>10 DEF DaemonBinds, NotUsed, Boxes
<1>11. CASE DaemonFails(r)
  BY <1>0, <1>1, <1>11 DEF DaemonFails, NotUsed
<1>12. CASE Stop(r) \/ StopAgain(r)
  <2>1. box'.meta \in {box.meta, saves[r]}
    BY <1>0, <1>12 DEF Stop, StopAgain, Saves, Boxes
  <2> QED
    BY <1>0, <1>1, <1>12, <2>1 DEF Stop, StopAgain, Saves, NotUsed
<1> QED
  BY <1>2, <1>3, <1>4, <1>5, <1>6, <1>7, <1>8, <1>9, <1>10, <1>11, <1>12 DEF Run

LEMMA NamesNext == Base /\ NamesFresh /\ [Next]_vars => NamesFresh'
<1>1. NamesFresh /\ UNCHANGED vars => NamesFresh'
  BY DEF NamesFresh, NotUsed, vars, daemons, segments, own
<1> QED
  BY <1>1, NamesByClean, NamesByRun DEF Next

-----------------------------------------------------------------------------
(* A clean that nobody interferes with.                                    *)

Idle(r) == daemon[r] \in {"none", "gone"}
AfterMake == {"torn meta", "meta", "map", "config", "cleaned", "load", "policy", "open", "create"}

\* Where a clean that is alone has come to, up to where it ends or, for a run,
\* up to where its daemon saves.
SoloAt(p) ==
    /\ Working \subseteq {p} /\ pc[p] # "failed"
    /\ pc[p] \in Cleaning => \A r \in Runs : Idle(r)
    /\ pc[p] = "data" => box.meta = Nil /\ box.map = "absent"
    /\ p \in Runs =>
          /\ pc[p] \notin {"probe", "read", "files", "data", "unlink", "sock"}
          /\ pc[p] = "exists" => ~box.dir
          /\ pc[p] = "make" => fresh[p]
    /\ pc[p] \notin Unmade \cup {"done"} =>
          box.dir /\ box.data /\ name[p] = p /\ (p \in Runs => fresh[p])
    /\ pc[p] \in AfterMake => shm[p] = Nil
    /\ pc[p] \in {"map", "config"} => box.meta = p
    /\ pc[p] = "config" => box.map = "whole"
    /\ pc[p] \notin Cleaning \cup {"start", "done"} =>
          /\ box.meta = p /\ box.map = "whole"
          /\ p \in Runs => box.config
    /\ pc[p] = "enter" => mem[seg[p]].stage = "ready"

SoloInv == \A p \in solo : SoloAt(p)

LEMMA SoloByClean ==
    ASSUME NEW p \in Procs, Base, NamesFresh, SoloInv, Clean(p)
    PROVE  SoloInv'
<1>0. /\ p \in Names /\ p # Nil /\ p # "torn" /\ TypeOK /\ daemon' = daemon
      /\ \A q \in Procs \ {p} : pc'[q] = pc[q]
      /\ p \in Runs => pc[p] \in Cleaning
  BY ProcsAssumption, CleanFrame DEF Base, Names
<1>1. CASE Begin(p)
  <2>1. solo' \subseteq {p} /\ pc'[p] = "exists" /\ p \notin Runs
    BY <1>0, <1>1 DEF Begin, Base, Roles, TypeOK
  <2>2. p \in solo' => Working' \subseteq {p} /\ \A r \in Runs : Idle(r)'
    BY <1>0, <1>1 DEF Begin, Working, Quiet, Idle
  <2> QED
    BY <2>1, <2>2, ZenonT(40) DEF SoloInv, SoloAt, Unmade, AfterMake, Cleaning
<1>2. ASSUME ~Begin(p) PROVE solo' \subseteq solo \cap {p}
  BY <1>2 DEF Clean, CheckDir, GoOn, Refuse, ReadOld, RemoveFiles, RemoveData, RemoveFails, Unlink,
       RemoveSock, Make, TornMeta, WriteMeta, WriteMap, Flush, FlushFails, Finish, FinishFails,
       Cleaned, Purge, Crash, Goes, Fails, Step
<1>3. ASSUME ~Begin(p), p \in solo' PROVE SoloAt(p)'
  <2>0. SoloAt(p) /\ TypeOK /\ (pc[p] \in Unmade => NotUsed(p))
    BY <1>2, <1>3 DEF SoloInv, NamesFresh, Base
  <2>w. Working' \subseteq {p}
    BY <2>0, <1>0 DEF SoloAt, Working
  <2>i. \A r \in Runs : Idle(r)' = Idle(r)
    BY <1>0 DEF Idle
  <2> USE <1>0, <2>0, <2>w, <2>i
      DEF SoloAt, TypeOK, Goes, Writes, Reads, Unmade, AfterMake, Cleaning, own, segments
  <2>1. CASE CheckDir(p)
    BY <2>1 DEF CheckDir
  <2>2. CASE GoOn(p)
    BY <2>2 DEF GoOn
  <2>3. CASE Refuse(p)
    BY <2>3 DEF Refuse, Listening, Idle
  <2>4. CASE ReadOld(p)
    BY <2>4 DEF ReadOld
  <2>5. CASE RemoveFiles(p)
    BY <2>5 DEF RemoveFiles, Boxes
  <2>6. CASE RemoveData(p)
    BY <2>6 DEF RemoveData, Boxes
  <2>7. CASE RemoveFails(p)
    BY <2>7 DEF RemoveFails
  <2>8. CASE Unlink(p)
    BY <2>8 DEF Unlink
  <2>9. CASE RemoveSock(p)
    BY <2>9 DEF RemoveSock
  <2>10. CASE Make(p)
    BY <2>10, ZenonT(40) DEF Make, NotUsed, Boxes
  <2>11. CASE TornMeta(p)
    BY <2>11, ZenonT(40) DEF TornMeta, Flush, Boxes
  <2>12. CASE WriteMeta(p)
    BY <2>12 DEF WriteMeta, Flush, Boxes
  <2>13. CASE WriteMap(p)
    BY <2>13 DEF WriteMap, Flush, Boxes
  <2>14. CASE Finish(p)
    BY <2>14 DEF Finish, Boxes
  <2>15. CASE FlushFails(p) \/ FinishFails(p)
    BY <2>15 DEF FlushFails, FinishFails
  <2>16. CASE Cleaned(p)
    BY <2>16 DEF Cleaned
  <2>17. CASE Purge(p) \/ Crash(p)
    BY <2>17, <1>3 DEF Purge, Crash
  <2> QED
    BY <1>3, <2>1, <2>2, <2>3, <2>4, <2>5, <2>6, <2>7, <2>8, <2>9, <2>10, <2>11, <2>12, <2>13,
       <2>14, <2>15, <2>16, <2>17 DEF Clean
<1> QED
  BY <1>1, <1>2, <1>3 DEF SoloInv

LEMMA SoloByRun ==
    ASSUME NEW r \in Runs, Base, SoloInv, Run(r)
    PROVE  SoloInv'
<1>0. /\ r \in Procs /\ r \in Names /\ r # Nil /\ r # "torn" /\ TypeOK
      /\ \A q \in Procs \ {r} : pc'[q] = pc[q]
  BY ProcsAssumption, RunFrame DEF Base, Names, Procs
<1>1. CASE Prepare(r)
  <2>1. solo' \subseteq {r} /\ (r \in solo' => ~box'.dir /\ pc'[r] = "exists")
    BY <1>0, <1>1 DEF Prepare, Reads, TypeOK
  <2>2. r \in solo' => Working' \subseteq {r} /\ \A q \in Runs : Idle(q)'
    BY <1>0, <1>1 DEF Prepare, Reads, daemons, Working, Quiet, Idle
  <2> QED
    BY <2>1, <2>2 DEF SoloInv, SoloAt, Unmade, AfterMake, Cleaning
<1>l. Layout(r) => mem'[seg'[r]].stage = "ready"
  <2> SUFFICES ASSUME Layout(r) PROVE mem'[seg'[r]].stage = "ready"
    OBVIOUS
  <2>1. seg[r] = r /\ Becomes(r, "ready", 0)
    BY LayoutMem DEF Base
  <2> QED
    BY <2>1 DEF Becomes, Layout, Changes, own
<1>2. ASSUME ~Prepare(r) PROVE solo' \subseteq solo \cap {r}
  BY <1>2 DEF Run, Load, LoadFails, BuildPolicy, PolicyFails, Open, OpenFails, Create,
       MakesSegment, CreateFails, Truncate, Layout, Enter, EnterDies, DaemonLoads, DaemonBinds,
       DaemonFails, Ready, Leave, Stop, StopAgain, Saves, Goes, Fails, Step
<1>3. ASSUME ~Prepare(r), r \in solo' PROVE SoloAt(r)'
  <2>0. SoloAt(r) /\ TypeOK
    BY <1>2, <1>3 DEF SoloInv, Base
  <2>p. (pc[r] \notin Cleaning /\ pc'[r] \notin Cleaning) \/ Stop(r) \/ StopAgain(r)
    BY <1>0, <1>3, ZenonT(40) DEF Run, Load, LoadFails, BuildPolicy, PolicyFails, Open, OpenFails, Create,
       MakesSegment, CreateFails, Truncate, Layout, Enter, EnterDies, DaemonLoads, DaemonBinds,
       DaemonFails, Ready, Leave, Goes, Fails, TypeOK, Cleaning
  <2>1. CASE Stop(r) \/ StopAgain(r)
    BY <2>1, <1>3 DEF Stop, StopAgain, Saves
  <2>w. ~Stop(r) /\ ~StopAgain(r) => Working' \subseteq {r} /\ pc'[r] \notin Cleaning
    BY <2>0, <2>p, <1>0 DEF SoloAt, Working
  <2> USE <1>0, <2>0, <2>w, <2>p DEF SoloAt, TypeOK, Goes, Reads, Changes, Unmade, AfterMake,
          Cleaning, daemons, own, segments
  <2>2. CASE ~Stop(r) /\ ~StopAgain(r) /\ Load(r)
    BY <2>2 DEF Load
  <2>3. CASE ~Stop(r) /\ ~StopAgain(r) /\ BuildPolicy(r)
    BY <2>3 DEF BuildPolicy
  <2>4. CASE LoadFails(r)
    BY <2>4 DEF LoadFails
  <2>5. CASE PolicyFails(r)
    BY <2>5 DEF PolicyFails
  <2>6. CASE Open(r)
    BY <2>6 DEF Open, Taken
  <2>7. CASE ~Stop(r) /\ ~StopAgain(r) /\ OpenFails(r)
    BY <2>7 DEF OpenFails
  <2>8. CASE ~Stop(r) /\ ~StopAgain(r) /\ Create(r)
    BY <2>8 DEF Create, MakesSegment
  <2>9. CASE CreateFails(r)
    BY <2>9 DEF CreateFails, Taken
  <2>10. CASE ~Stop(r) /\ ~StopAgain(r) /\ Truncate(r)
    BY <2>10 DEF Truncate
  <2>11. CASE ~Stop(r) /\ ~StopAgain(r) /\ Layout(r)
    BY <2>11, <1>l DEF Layout
  <2>12. CASE ~Stop(r) /\ ~StopAgain(r) /\ Enter(r)
    BY <2>12 DEF Enter
  <2>13. CASE EnterDies(r)
    BY <2>13 DEF EnterDies
  <2>14. CASE ~Stop(r) /\ ~StopAgain(r) /\ DaemonLoads(r)
    BY <2>14 DEF DaemonLoads
  <2>15. CASE ~Stop(r) /\ ~StopAgain(r) /\ DaemonBinds(r)
    BY <2>15 DEF DaemonBinds, Boxes
  <2>16. CASE DaemonFails(r)
    BY <2>16 DEF DaemonFails
  <2>17. CASE ~Stop(r) /\ ~StopAgain(r) /\ Ready(r)
    BY <2>17 DEF Ready
  <2>18. CASE ~Stop(r) /\ ~StopAgain(r) /\ Leave(r)
    BY <2>18 DEF Leave
  <2> QED
    BY <1>3, <2>1, <2>2, <2>3, <2>4, <2>5, <2>6, <2>7, <2>8, <2>9, <2>10, <2>11, <2>12, <2>13,
       <2>14, <2>15, <2>16, <2>17, <2>18 DEF Run
<1> QED
  BY <1>1, <1>2, <1>3 DEF SoloInv

LEMMA SoloNext == Base /\ NamesFresh /\ SoloInv /\ [Next]_vars => SoloInv'
<1>1. SoloInv /\ UNCHANGED vars => SoloInv'
  BY DEF SoloInv, SoloAt, Working, Idle, vars, daemons, segments, own
<1> QED
  BY <1>1, SoloByClean, SoloByRun DEF Next

-----------------------------------------------------------------------------
(* A sandbox that no clean, crash or purge has disturbed.                  *)

Clear == \A n \in Names : shm[n] = Nil
Sound ==
    /\ box.config /\ box.map # "torn" /\ box.meta # "torn"
    /\ \A n \in Names : shm[n] # Nil => n = box.meta

\* What a process has left of the sandbox where it is.
WorkerAt(p) ==
    /\ pc[p] \notin {"exists", "probe"} => Quiet
    /\ pc[p] \in {"probe", "read"} => box.dir
    /\ pc[p] \in {"files", "data", "unlink"} =>
          box.dir /\ box.config /\ \A n \in Names : shm[n] # Nil => n = name[p]
    /\ pc[p] = "data" => box.meta = Nil /\ box.map = "absent"
    /\ pc[p] \in {"sock", "make"} =>
          Clear /\ (box.dir => box.config) /\ (~box.dir => fresh[p])
    /\ pc[p] \in {"torn meta", "meta", "map", "config"} =>
          box.dir /\ box.data /\ Clear /\ (box.config \/ fresh[p]) /\ name[p] = p
    /\ pc[p] \in {"map", "config"} => box.meta = p
    /\ pc[p] = "config" => box.map = "whole"

RunAt(r) ==
    /\ name[r] # Nil => name[r] = box.meta
    /\ seg[r] # Nil => name[r] # Nil /\ seg[r] = shm[name[r]]

Calm ==
    /\ \A p, q \in Working : p = q
    /\ \A p \in Working : WorkerAt(p)
    /\ ~box.dir => box.config = FALSE /\ box.meta = Nil /\ box.map = "absent" /\ Clear /\ Quiet
    /\ box.dir /\ (\A p \in Working : pc[p] \in {"exists", "probe", "read"}) => Sound
    /\ \A r \in InFlight : RunAt(r)
    /\ \A r \in Runs : ~Idle(r) => saves[r] = box.meta

CalmInv == undisturbed => Calm

LEMMA CalmInit == Init => CalmInv
<1> SUFFICES ASSUME Init PROVE Calm
  BY DEF CalmInv
<1>1. Working = {} /\ InFlight = {} /\ Quiet
  BY DEF Init, Working, InFlight, Quiet, Cleaning, Counted, Procs
<1>2. Nil \notin Names /\ Old \in Names /\ Old # "torn"
  BY ProcsAssumption DEF Names
<1>3. ~box.dir => box.config = FALSE /\ box.meta = Nil /\ box.map = "absent" /\ Clear
  BY <1>2 DEF Init, Absent, Whole, Clear
<1>4. box.dir => Sound
  BY <1>2 DEF Init, Absent, Whole, Sound
<1> QED
  BY <1>1, <1>3, <1>4 DEF Calm, Init, Idle

LEMMA CalmByClean ==
    ASSUME NEW p \in Procs, Base, CalmInv, Clean(p)
    PROVE  CalmInv'
<1> SUFFICES ASSUME undisturbed' PROVE Calm'
  BY DEF CalmInv
<1>0. /\ p \in Names /\ p # Nil /\ p # "torn" /\ TypeOK /\ Roles /\ Nil \notin Names
      /\ UNCHANGED <<daemon, saves, seg>>
      /\ \A q \in Procs \ {p} : pc'[q] = pc[q]
      /\ pc[p] \in Cleaning \cup {"start", "cleaned"}
      /\ pc'[p] \in Cleaning \cup {"load", "cleaned", "done", "failed"}
      /\ p \in Runs => pc[p] \in Cleaning /\ pc'[p] \in Cleaning \cup {"load", "failed"}
  BY ProcsAssumption, CleanFrame DEF Base, Names
<1>1. undisturbed /\ Working \subseteq {p} /\ Calm
  BY DEF CalmInv, Clean, Begin, CheckDir, GoOn, Refuse, ReadOld, RemoveFiles, RemoveData,
       RemoveFails, Unlink, RemoveSock, Make, TornMeta, WriteMeta, WriteMap, Flush, FlushFails,
       Finish, FinishFails, Cleaned, Purge, Crash, Goes, Fails, Step
<1>2. Working' = IF pc'[p] \in Cleaning THEN {p} ELSE {}
  BY <1>0, <1>1 DEF Working
<1>3. Working = IF pc[p] \in Cleaning THEN {p} ELSE {}
  BY <1>0, <1>1 DEF Working
<1>4. pc'[p] = "load" => p \in Runs
  BY TypeByClean DEF Base, Roles, Cleaning
<1>5. InFlight' = IF pc'[p] = "load" THEN InFlight \cup {p} ELSE InFlight
  <2>1. \A q \in Runs \ {p} : q \in InFlight' <=> q \in InFlight
    BY <1>0 DEF InFlight, Procs
  <2>2. p \notin InFlight /\ (p \in InFlight' <=> pc'[p] = "load")
    BY <1>0, <1>4 DEF InFlight, Cleaning, Counted
  <2>3. InFlight \subseteq Runs /\ InFlight' \subseteq Runs
    BY DEF InFlight
  <2> QED
    BY <2>1, <2>2, <2>3
<1>6. (\A r \in Runs : Idle(r)' = Idle(r)) /\ (pc'[p] # "load" => Quiet' = Quiet)
  BY <1>0, <1>5 DEF Idle, Quiet
<1>7. \A q \in Procs \ {p} : name'[q] = name[q]
  BY <1>0 DEF TypeOK, Clean, Begin, CheckDir, GoOn, Refuse, ReadOld, RemoveFiles, RemoveData,
       RemoveFails, Unlink, RemoveSock, Make, TornMeta, WriteMeta, WriteMap, Flush, FlushFails,
       Finish, FinishFails, Cleaned, Purge, Crash, Goes, Fails, Reads, Writes, own
<1>8. pc[p] \in {"start", "exists", "probe", "read", "cleaned"} => UNCHANGED <<box, shm>>
  BY DEF Clean, Begin, CheckDir, GoOn, Refuse, ReadOld, RemoveFiles, RemoveData,
       RemoveFails, Unlink, RemoveSock, Make, TornMeta, WriteMeta, WriteMap, Flush, FlushFails,
       Finish, FinishFails, Cleaned, Purge, Crash, Goes, Fails, Reads, Step, segments
<1> DEFINE Past == Cleaning \ {"exists", "probe", "read"}
\* A process past its first look is alone; what it does nobody sees.
<1>9. pc[p] \in Past => Quiet
  BY <1>1, <1>3 DEF Calm, WorkerAt, Cleaning
<1>10. (\A q \in InFlight : RunAt(q)') /\ (\A q \in Runs : ~Idle(q)' => saves'[q] = box'.meta)
  <2>1. CASE pc[p] \in Past
    BY <2>1, <1>6, <1>9 DEF Quiet, Idle
  <2>2. CASE pc[p] \notin Past
    <3>1. UNCHANGED <<box, shm>>
      BY <2>2, <1>0, <1>8
    <3>2. \A q \in InFlight : q \in Procs \ {p}
      BY <1>0 DEF InFlight, Cleaning, Counted, Procs
    <3> QED
      BY <3>1, <3>2, <1>0, <1>1, <1>6, <1>7 DEF Calm, RunAt
  <2> QED
    BY <2>1, <2>2
<1> DEFINE Bare == box.config = FALSE /\ box.meta = Nil /\ box.map = "absent" /\ Clear /\ Quiet
<1>11. ASSUME pc'[p] \in Cleaning => WorkerAt(p)', ~box'.dir => Bare',
              box'.dir /\ pc'[p] \notin Past => Sound', pc'[p] = "load" => RunAt(p)'
       PROVE  Calm'
  BY <1>2, <1>5, <1>10, <1>11 DEF Calm
<1>12. /\ pc[p] \in Cleaning => WorkerAt(p)
       /\ ~box.dir => Bare
       /\ box.dir /\ pc[p] \notin Past => Sound
  BY <1>1, <1>3 DEF Calm
<1>13. Past = {"files", "data", "unlink", "sock", "make", "torn meta", "meta", "map", "config"}
  BY DEF Cleaning
<1>31. p \in Runs /\ pc[p] \in Cleaning => seg'[p] = Nil
  BY <1>0 DEF Base, Mapped, Alone, BeforeSegment
<1> HIDE DEF Past
<1> USE <1>0, <1>6, <1>12, <1>13
    DEF TypeOK, Goes, Writes, Reads, Cleaning, WorkerAt, Sound, Clear, own, segments
<1>14. CASE Begin(p)
  BY <1>14, <1>11 DEF Begin
<1>15. CASE CheckDir(p)
  BY <1>15, <1>11 DEF CheckDir
<1>16. CASE GoOn(p)
  BY <1>16, <1>11 DEF GoOn
<1>17. CASE Refuse(p)
  BY <1>17, <1>11 DEF Refuse, Fails
<1>30. CASE Cleaned(p)
  BY <1>30, <1>11 DEF Cleaned
<1>18. CASE ReadOld(p)
  BY <1>18, <1>11 DEF ReadOld
<1>19. CASE RemoveFiles(p)
  BY <1>19, <1>11 DEF RemoveFiles, Boxes
<1>20. CASE RemoveData(p)
  BY <1>20, <1>11 DEF RemoveData, Boxes
<1>21. CASE RemoveFails(p) \/ FlushFails(p) \/ FinishFails(p)
  BY <1>21 DEF RemoveFails, FlushFails, FinishFails
<1>22. CASE Unlink(p)
  <2>3. name[p] \in Names \cup {Nil} /\ \A n \in Names : shm[n] # Nil => n = name[p]
    BY <1>22 DEF Unlink
  <2>4. shm' = IF name[p] = Nil THEN shm ELSE [shm EXCEPT ![name[p]] = Nil]
    BY <1>22 DEF Unlink
  <2>1. \A n \in Names : shm'[n] = Nil
    BY <2>3, <2>4, ZenonT(40)
  <2>2. pc[p] = "unlink" /\ pc'[p] = "sock" /\ box' = box
    BY <1>22 DEF Unlink
  <2> QED
    BY <2>1, <2>2, <1>11
<1>23. CASE RemoveSock(p)
  BY <1>23, <1>11 DEF RemoveSock
<1>24. CASE Make(p)
  BY <1>24, <1>11 DEF Make, Boxes
<1>25. CASE TornMeta(p)
  BY <1>25, <1>11 DEF TornMeta, Flush, Boxes
<1>26. CASE WriteMeta(p)
  BY <1>26, <1>11 DEF WriteMeta, Flush, Boxes
<1>27. CASE WriteMap(p)
  BY <1>27, <1>11 DEF WriteMap, Flush, Boxes
<1>28. CASE Finish(p)
  <2>1. pc[p] = "config" /\ name' = name /\ box'.meta = p /\ box'.map = "whole" /\ box'.dir
        /\ shm' = shm
    BY <1>28 DEF Finish, Boxes
  <2>2. box'.config = (box.config \/ fresh[p])
    BY <1>28 DEF Finish, Boxes
  <2>3. pc'[p] = IF p \in Runs THEN "load" ELSE "cleaned"
    BY <1>28 DEF Finish
  <2>4. p \in Runs => RunAt(p)'
    BY <1>31, <2>1 DEF RunAt
  <2>5. Sound'
    BY <2>1, <2>2
  <2> QED
    BY <2>1, <2>3, <2>4, <2>5, <1>11
<1>29. CASE Purge(p) \/ Crash(p)
  BY <1>29 DEF Purge, Crash
<1> QED
  BY <1>14, <1>15, <1>16, <1>17, <1>18, <1>19, <1>20, <1>21, <1>22, <1>23, <1>24, <1>25, <1>26,
     <1>27, <1>28, <1>29, <1>30 DEF Clean

LEMMA CalmByRun ==
    ASSUME NEW r \in Runs, Base, CalmInv, Run(r)
    PROVE  CalmInv'
<1> SUFFICES ASSUME undisturbed' PROVE Calm'
  BY DEF CalmInv
<1>0. /\ r \in Procs /\ r \in Names /\ r # Nil /\ TypeOK /\ Roles /\ Nil \notin Names
      /\ "torn" \notin Names /\ InFlight \subseteq Runs /\ InFlight' \subseteq Runs
      /\ Runs \subseteq Procs
      /\ \A q \in Procs \ {r} : pc'[q] = pc[q] /\ seg'[q] = seg[q] /\ name'[q] = name[q]
      /\ \A q \in Runs \ {r} : daemon'[q] = daemon[q] /\ saves'[q] = saves[q]
      /\ ~Open(r) /\ ~Create(r) => UNCHANGED <<shm, seg>>
  BY ProcsAssumption, RunFrame DEF Base, Names, Procs, InFlight
<1>a. Alone(r)
  BY DEF Base, Mapped
<1>1. /\ undisturbed /\ Calm /\ Working \subseteq {r}
      /\ Prepare(r) \/ Stop(r) \/ StopAgain(r) => Working = {}
  BY DEF CalmInv, Run, Prepare, Load, LoadFails, BuildPolicy, PolicyFails, Open, OpenFails, Create,
       MakesSegment, CreateFails, Truncate, Layout, Enter, EnterDies, DaemonLoads, DaemonBinds,
       DaemonFails, Ready, Leave, Stop, StopAgain, Saves, Goes, Fails, Step
<1>2. CASE Prepare(r)
  <2>1. Working = {} /\ box' = box /\ shm' = shm /\ name' = name /\ seg' = seg /\ daemon' = daemon
        /\ saves' = saves /\ pc[r] = "start" /\ pc'[r] = IF box.dir THEN "load" ELSE "exists"
    BY <1>0, <1>1, <1>2 DEF Prepare, Reads, own, segments, daemons, TypeOK
  <2>2. name[r] = Nil /\ seg[r] = Nil
    BY <1>0, <1>a, <2>1 DEF Roles, Alone, BeforeSegment
  <2>3. Working' \subseteq {r} /\ (box.dir => Working' = {})
    BY <1>0, <2>1 DEF Working, Cleaning
  <2>4. InFlight' \subseteq InFlight \cup {r} /\ (~box.dir => InFlight' = InFlight)
    <3>1. \A q \in Runs \ {r} : q \in InFlight' <=> q \in InFlight
      BY <1>0 DEF InFlight
    <3>2. r \notin InFlight /\ (~box.dir => r \notin InFlight')
      BY <2>1 DEF InFlight, Counted
    <3> QED
      BY <1>0, <3>1, <3>2
  <2>5. Idle(r)' = Idle(r) /\ \A q \in Runs : Idle(q)' = Idle(q)
    BY <2>1 DEF Idle
  <2>6. ~box.dir => Quiet'
    BY <1>1, <2>1, <2>4 DEF Calm, Quiet
  <2>7. \A q \in InFlight' : RunAt(q)'
    BY <1>1, <2>1, <2>2, <2>4 DEF Calm, RunAt
  <2>8. \A p \in Working' : WorkerAt(p)'
    BY <2>1, <2>3 DEF WorkerAt
  <2>9. box.dir => Sound'
    BY <1>1, <2>1 DEF Calm, Sound
  <2>10. ~box.dir => Clear'
    BY <1>1, <2>1 DEF Calm, Clear
  <2> QED
    BY <1>1, <2>1, <2>3, <2>5, <2>6, <2>7, <2>8, <2>9, <2>10 DEF Calm
<1>3. CASE ~Prepare(r)
  <2>0. \/ Stop(r) \/ StopAgain(r)
        \/ /\ pc[r] \in Counted \cup {"load", "policy", "open", "create", "truncate", "layout",
                                    "enter"}
           /\ pc'[r] \notin Cleaning
    <3> USE <1>0 DEF Goes, Fails, TypeOK, Cleaning, Counted
    <3>1. CASE Load(r) \/ LoadFails(r) \/ BuildPolicy(r) \/ PolicyFails(r)
      BY <3>1, ZenonT(40) DEF Load, LoadFails, BuildPolicy, PolicyFails
    <3>2. CASE Open(r) \/ OpenFails(r) \/ Create(r) \/ CreateFails(r)
      BY <3>2, ZenonT(40) DEF Open, OpenFails, Create, MakesSegment, CreateFails
    <3>3. CASE Truncate(r) \/ Layout(r) \/ EnterDies(r)
      BY <3>3 DEF Truncate, Layout, EnterDies
    <3>4. CASE Enter(r)
      BY <3>4 DEF Enter
    <3>5. CASE DaemonLoads(r) \/ DaemonBinds(r) \/ DaemonFails(r)
      BY <3>5, ZenonT(40) DEF DaemonLoads, DaemonBinds, DaemonFails
    <3>6. CASE Ready(r) \/ Leave(r)
      BY <3>6, ZenonT(40) DEF Ready, Leave
    <3> QED
      BY <1>3, <3>1, <3>2, <3>3, <3>4, <3>5, <3>6 DEF Run
  <2>1. (r \in InFlight \/ Stop(r) \/ StopAgain(r)) /\ (pc'[r] \in Cleaning => pc'[r] = pc[r])
    BY <2>0 DEF Stop, StopAgain, Saves, InFlight
  <2>2. InFlight' \subseteq InFlight
    <3>1. r \in InFlight' => r \in InFlight
      BY <2>1 DEF Stop, StopAgain, Saves, InFlight
    <3> QED
      BY <1>0, <3>1 DEF InFlight
  <2>3. Working = {} /\ Working' = {}
    <3>1. r \in InFlight => r \notin Working
      BY DEF InFlight, Working, Cleaning, Counted
    <3>2. Working = {}
      BY <1>1, <2>1, <3>1
    <3> QED
      BY <3>2, <2>1, <1>0 DEF Working
  <2>4. box.dir /\ Sound
    <3>1. ~Quiet
      BY <2>1 DEF Quiet, Stop, StopAgain
    <3> QED
      BY <1>1, <2>3, <3>1 DEF Calm
  <2>5. ~Idle(r) => saves[r] = box.meta
    BY <1>1 DEF Calm
  <2>6. r \in InFlight => RunAt(r)
    BY <1>1 DEF Calm
  <2>7. box' \in Boxes /\ box'.dir /\ box'.config = box.config /\ box'.meta = box.meta
        /\ (box'.map = box.map \/ box'.map = "whole")
    <3>1. CASE DaemonBinds(r)
      BY <1>0, <2>4, <3>1 DEF DaemonBinds, TypeOK, Boxes
    <3>2. CASE Stop(r) \/ StopAgain(r)
      <4>1. ~Idle(r)
        BY <3>2 DEF Stop, StopAgain, Idle
      <4>2. box' = box \/ box' = [box EXCEPT !.meta = saves[r], !.map = "whole"]
        BY <3>2 DEF Stop, StopAgain, Saves
      <4>3. CASE box' = box
        BY <1>0, <2>4, <4>3 DEF TypeOK
      <4>4. CASE box' = [box EXCEPT !.meta = saves[r], !.map = "whole"]
        <5>1. /\ box'.meta = saves[r] /\ box'.map = "whole"
              /\ box'.dir = box.dir /\ box'.config = box.config
          BY <1>0, <4>4 DEF TypeOK, Boxes
        <5>2. box' \in Boxes
          BY <1>0, <4>4 DEF TypeOK, Boxes
        <5> QED
          BY <2>4, <2>5, <4>1, <5>1, <5>2
      <4> QED
        BY <4>2, <4>3, <4>4
    <3>3. CASE ~DaemonBinds(r) /\ ~Stop(r) /\ ~StopAgain(r)
      <4>1. box' = box
        BY <1>3, <3>3 DEF Run, Load, LoadFails, BuildPolicy, PolicyFails, Open, OpenFails, Create,
           MakesSegment, CreateFails, Truncate, Layout, Enter, EnterDies, DaemonLoads,
           DaemonFails, Ready, Leave, Reads, Fails, Changes
      <4> QED
        BY <1>0, <2>4, <4>1 DEF TypeOK
    <3> QED
      BY <3>1, <3>2, <3>3
  <2>8. ~Idle(r)' => saves'[r] = box'.meta
    <3>1. CASE DaemonLoads(r)
      BY <1>0, <3>1 DEF DaemonLoads, TypeOK
    <3>2. CASE DaemonBinds(r) \/ Stop(r) \/ StopAgain(r)
      BY <1>0, <2>5, <2>7, <3>2 DEF DaemonBinds, Stop, StopAgain, Saves, TypeOK, Idle
    <3>3. CASE ~DaemonLoads(r) /\ ~DaemonBinds(r) /\ ~Stop(r) /\ ~StopAgain(r)
      <4>1. daemon' = daemon /\ saves' = saves
        BY <1>3, <3>3 DEF Run, Load, LoadFails, BuildPolicy, PolicyFails, Open, OpenFails, Create,
           MakesSegment, CreateFails, Truncate, Layout, Enter, EnterDies, DaemonFails, Ready, Leave,
           Reads, Fails, Changes, daemons
      <4> QED
        BY <2>5, <2>7, <4>1 DEF Idle
    <3> QED
      BY <3>1, <3>2, <3>3
  <2>9. \A q \in Runs : ~Idle(q)' => saves'[q] = box'.meta
    BY <1>0, <1>1, <2>7, <2>8 DEF Calm, Idle
  <2>10. name'[r] = name[r] \/ Load(r)
    BY <1>3 DEF Run, LoadFails, BuildPolicy, PolicyFails, Open, OpenFails, Create,
       MakesSegment, CreateFails, Truncate, Layout, Enter, EnterDies, DaemonLoads, DaemonBinds,
       DaemonFails, Ready, Leave, Stop, StopAgain, Saves, Reads, Fails, Changes, own
  <2>11. Sound' /\ \A q \in InFlight' : RunAt(q)'
    <3>1. CASE Create(r)
      <4>1. name[r] \in Names /\ name[r] = box.meta /\ shm[name[r]] = Nil /\ r \in InFlight
        BY <1>0, <2>6, <3>1 DEF Create, MakesSegment, Goes, TypeOK, InFlight, RunAt
      <4>2. name' = name /\ box' = box /\ shm' = [shm EXCEPT ![name[r]] = r] /\ seg'[r] = r
        BY <1>0, <3>1 DEF Create, MakesSegment, TypeOK
      <4>3. Sound'
        BY <1>0, <2>4, <4>1, <4>2 DEF Sound, TypeOK
      <4>4. RunAt(r)'
        BY <1>0, <4>1, <4>2 DEF RunAt, TypeOK
      <4>5. ASSUME NEW q \in InFlight, q # r PROVE RunAt(q)'
        <5>1. RunAt(q) /\ seg'[q] = seg[q]
          BY <1>0, <1>1, <4>5 DEF Calm
        <5>2. seg[q] = Nil
          BY <4>1, <5>1 DEF RunAt
        <5> QED
          BY <4>2, <5>1, <5>2 DEF RunAt
      <4> QED
        BY <2>2, <4>3, <4>4, <4>5
    <3>2. CASE ~Create(r)
      <4>1. shm' = shm
        BY <1>0, <3>2 DEF Open, segments
      <4>2. Sound'
        BY <2>4, <2>7, <4>1 DEF Sound
      <4>3. r \in InFlight => RunAt(r)'
        <5>1. CASE Open(r)
          BY <1>0, <2>6, <2>7, <4>1, <5>1 DEF Open, Taken, RunAt, TypeOK
        <5>2. CASE Load(r)
          <6>1. name'[r] = box.meta /\ seg[r] = Nil /\ seg'[r] = seg[r]
            BY <1>0, <1>a, <5>2 DEF Load, Goes, Alone, BeforeSegment, TypeOK, own
          <6> QED
            BY <2>7, <6>1 DEF RunAt
        <5>3. CASE ~Open(r) /\ ~Load(r)
          BY <1>0, <2>6, <2>7, <2>10, <3>2, <4>1, <5>3 DEF RunAt
        <5> QED
          BY <5>1, <5>2, <5>3
      <4>4. ASSUME NEW q \in InFlight, q # r PROVE RunAt(q)'
        BY <1>0, <1>1, <2>7, <4>1, <4>4 DEF Calm, RunAt
      <4> QED
        BY <2>2, <4>2, <4>3, <4>4
    <3> QED
      BY <3>1, <3>2
  <2> QED
    BY <2>3, <2>7, <2>9, <2>11 DEF Calm
<1> QED
  BY <1>2, <1>3

LEMMA CalmNext == Base /\ CalmInv /\ [Next]_vars => CalmInv'
<1>1. ASSUME CalmInv, UNCHANGED vars PROVE CalmInv'
  <2>1. /\ Working' = Working /\ InFlight' = InFlight
        /\ UNCHANGED <<box, shm, name, seg, pc, fresh, daemon, saves, undisturbed>>
    BY <1>1 DEF vars, daemons, segments, own, Working, InFlight
  <2>2. Quiet' = Quiet /\ Clear' = Clear /\ Sound' = Sound
    BY <2>1 DEF Quiet, Clear, Sound
  <2>3. \A p : WorkerAt(p) <=> WorkerAt(p)'
    BY <2>1, <2>2 DEF WorkerAt
  <2>4. \A r : (RunAt(r) <=> RunAt(r)') /\ (Idle(r) <=> Idle(r)')
    BY <2>1 DEF RunAt, Idle
  <2> QED
    BY <1>1, <2>1, <2>2, <2>3, <2>4 DEF CalmInv, Calm
<1> QED
  BY <1>1, CalmByClean, CalmByRun DEF Next

-----------------------------------------------------------------------------
(* Theorems.                                                               *)

\* Values stay in their types, for any number of processes: in particular a
\* count that is taken out is a number (running, src/shm/state.rs).
THEOREM TypeCorrect == Spec => []TypeOK
<1> QED
  BY BaseInit, BaseNext, PTL DEF Spec, Base

\* The count of a segment that has its layout is the number of runs in it,
\* unless one of them counted itself in before the layout was written, for
\* any number of runs, whatever is cleaned, purged or killed meanwhile
\* (ShmState::create and open, cmd_clean).
THEOREM CountKeptInvariant == Spec => []CountKept
<1>1. Init => Base /\ CountInv
  BY BaseInit, CountInit
<1>2. (Base /\ CountInv) /\ [Next]_vars => (Base /\ CountInv)'
  BY BaseNext, CountNext
<1>3. CountInv => CountKept
  BY DEF CountInv, CountOf, In, CountKept
<1> QED
  BY <1>1, <1>2, <1>3, PTL DEF Spec

LEMMA CalmAlways == Spec => [](Base /\ CalmInv)
<1>1. Init => Base /\ CalmInv
  BY BaseInit, CalmInit
<1>2. (Base /\ CalmInv) /\ [Next]_vars => (Base /\ CalmInv)'
  BY BaseNext, CalmNext
<1> QED
  BY <1>1, <1>2, PTL DEF Spec

\* All runs in a sandbox that was not disturbed have read the name that
\* metadata.bin holds and mapped the one segment with that name, although
\* several may try to create it, a clean may have come before them, and
\* daemons save the name they have read (prepare_context, ShmState::create,
\* flush).
THEOREM RunsAgreeInvariant == Spec => []RunsAgree
<1>1. CalmInv => RunsAgree
  BY DEF CalmInv, Calm, RunAt, RunsAgree
<1> QED
  BY <1>1, CalmAlways, PTL

\* Without disturbance the only segment in /dev/shm is the one that the
\* metadata names, or the one that the process that cleans is about to
\* unlink: cmd_clean leaves none behind.
THEOREM NothingLeaksInvariant == Spec => []NothingLeaks
<1>1. Base /\ CalmInv => NothingLeaks
  <2> SUFFICES ASSUME Base, Calm, NEW n \in Names, shm[n] # Nil
               PROVE  \/ n = box.meta
                      \/ \E p \in Working : name[p] = n \/ pc[p] \in {"exists", "probe", "read"}
    BY DEF CalmInv, NothingLeaks
  <2>1. box.dir /\ ~Clear
    BY DEF Calm, Clear
  <2>2. CASE \A p \in Working : pc[p] \in {"exists", "probe", "read"}
    BY <2>1, <2>2 DEF Calm, Sound
  <2>3. ASSUME NEW p \in Working, pc[p] \notin {"exists", "probe", "read"} PROVE name[p] = n
    <3>1. WorkerAt(p) /\ pc[p] \in Cleaning
      BY DEF Calm, Working
    <3> QED
      BY <2>1, <2>3, <3>1 DEF WorkerAt, Cleaning
  <2> QED
    BY <2>2, <2>3
<1> QED
  BY <1>1, CalmAlways, PTL

\* A clean that nobody interferes with succeeds from whatever state of
\* .sandbox an earlier one left, and what it leaves can be loaded; a run can
\* build its policy from it too, if no earlier one was killed (cmd_clean,
\* init_sandbox, flush).
THEOREM CleanRestoresInvariant == Spec => []CleanRestores
<1>1. Init => NamesFresh /\ SoloInv
  BY NamesInit DEF Init, SoloInv
<1>2. Base /\ (NamesFresh /\ SoloInv) /\ [Next]_vars => (NamesFresh /\ SoloInv)'
  BY NamesNext, SoloNext
<1>3. Base /\ CalmInv /\ SoloInv => CleanRestores
  <2> SUFFICES ASSUME Base, CalmInv, NEW p \in solo, SoloAt(p)
               PROVE  /\ pc[p] # "failed"
                      /\ pc[p] \in {"cleaned", "load"} =>
                           /\ box = [Whole(p) EXCEPT !.config = box.config]
                           /\ undisturbed => box.config
    BY DEF SoloInv, CleanRestores
  <2>1. pc[p] # "failed"
    BY DEF SoloAt
  <2> SUFFICES ASSUME pc[p] \in {"cleaned", "load"}
               PROVE  /\ box = [Whole(p) EXCEPT !.config = box.config]
                      /\ undisturbed => box.config
    BY <2>1
  <2>2. box.dir /\ box.data /\ box.meta = p /\ box.map = "whole"
    BY DEF SoloAt, Unmade, Cleaning
  <2>3. box = [Whole(p) EXCEPT !.config = box.config]
    <3>1. box = [dir |-> TRUE, data |-> TRUE, meta |-> p, map |-> "whole", config |-> box.config]
      BY <2>2 DEF Base, TypeOK, Boxes
    <3> DEFINE w == [Whole(p) EXCEPT !.config = box.config]
    <3>2. box.config \in BOOLEAN /\ p \in Names
      BY DEF Base, TypeOK, Boxes, Names
    <3>3. Whole(p) \in Boxes
      BY <3>2 DEF Whole, Boxes
    <3>4. w \in Boxes
      BY <3>2, <3>3 DEF Boxes
    <3>5. w.dir = TRUE /\ w.data = TRUE /\ w.meta = p /\ w.map = "whole" /\ w.config = box.config
      BY <3>2 DEF Whole
    <3> HIDE DEF w
    <3>6. w = [dir |-> TRUE, data |-> TRUE, meta |-> p, map |-> "whole", config |-> box.config]
      BY <3>4, <3>5 DEF Boxes
    <3> QED
      BY <3>1, <3>6 DEF w
  <2>4. Working = {}
    BY DEF SoloAt, Working, Cleaning
  <2>5. undisturbed => box.config
    BY <2>2, <2>4 DEF CalmInv, Calm, Sound
  <2> QED
    BY <2>3, <2>5
<1> QED
  BY <1>1, <1>2, <1>3, CalmAlways, PTL DEF Spec
=============================================================================
