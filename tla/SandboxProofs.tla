--------------------------- MODULE SandboxProofs ---------------------------
(***************************************************************************)
(* For all bounds and all kinds of faults: what the command finds around   *)
(* itself when it starts, and what the run returns.  For all               *)
(* configurations: which files of the host it may write, and which it does *)
(* not see (module Policy).                                                *)
(***************************************************************************)
EXTENDS Sandbox, Policy, TLAPS

Surroundings ==
    [user : {"root", "user"}, userns : BOOLEAN, mountns : BOOLEAN, rootfs : BOOLEAN, at : [Places -> Found],
     cwd : {"root", "tmp"}, cwdOn : Found, filter : BOOLEAN, caps : SUBSET Capabilities]

\* The steps after each of those that prepare something, and the command.
PastFilter  == {"caps", "take terminal", "exec", "command"}
PastTmpfs   == PastFilter \cup {"filter"}
PastChdir   == PastTmpfs \cup {"tmpfs"}
PastChroot  == PastChdir \cup {"chdir"}
PastDev     == PastChroot \cup {"chroot"}
PastProc    == PastDev \cup {"bind dev"}
PastFuse    == PastProc \cup {"bind proc"}
PastMountNs == PastFuse \cup {"bind fuse", "await fuse", "fork"}
PastUserNs  == PastMountNs \cup {"mountns"}

\* What each step has prepared is there at every later one; FUSE has been
\* mounted before it is bound, and shows /tmp until the tmpfs covers it.  Root
\* does not get past the first step, and only the last takes all capabilities.
Prepared ==
    /\ env \in Surroundings
    /\ child \in PastUserNs => env.userns /\ env.user # "root"
    /\ child \in PastMountNs => env.mountns
    /\ child = "bind fuse" => fuse \in {"serving", "dead"}
    /\ child \in PastFuse => env.at["root"] = "fuse"
    /\ child \in PastFuse \ PastTmpfs => env.at["tmp"] = "fuse"
    /\ child \in PastProc => env.at["proc"] = "host"
    /\ child \in PastDev => env.at["dev"] = "host" /\ (use_pty => env.at["tty"] = "slave")
    /\ child \in PastChroot => env.rootfs
    /\ child \in PastChdir => env.cwdOn = "fuse"
    /\ child \in PastTmpfs => env.at["tmp"] = "tmpfs"
    /\ child \in PastFilter => env.filter
    /\ child = "command" => env.caps = {}

\* A step that leaves the child's surroundings alone, and the child where it is
\* or past all its steps.
LEMMA PreparedStays ==
    ASSUME Prepared, UNCHANGED <<env, use_pty>>,
           child' = child \/ child' \in {"userns", "exited", "reaped"},
           fuse' = fuse \/ child' # child \/ child # "bind fuse" \/ fuse' \in {"serving", "dead"}
    PROVE  Prepared'
  BY DEF Prepared, PastFilter, PastTmpfs, PastChdir, PastChroot, PastDev,
         PastProc, PastFuse, PastMountNs, PastUserNs

LEMMA PreparedInit == Init => Prepared
<1> SUFFICES ASSUME Init PROVE Prepared
  OBVIOUS
<1>1. env \in Surroundings
  BY DEF Init, Surroundings, Places, Found
<1> QED
  BY <1>1 DEF Init, Prepared, PastFilter, PastTmpfs, PastChdir, PastChroot, PastDev,
         PastProc, PastFuse, PastMountNs, PastUserNs

LEMMA PreparedByChild == Prepared /\ ChildStep => Prepared'
<1> SUFFICES ASSUME Prepared, ChildStep PROVE Prepared'
  OBVIOUS
<1> USE DEF Prepared, Surroundings, Places, Found, Does, Ends, ParentVars, mode,
            PastFilter, PastTmpfs, PastChdir, PastChroot, PastDev, PastProc, PastFuse,
            PastMountNs, PastUserNs
<1>1. CASE CreateUserNs
  BY <1>1 DEF CreateUserNs
<1>2. CASE CreateMountNs
  BY <1>2 DEF CreateMountNs
<1>3. CASE ForkFuse
  BY <1>3 DEF ForkFuse
<1>4. CASE FuseReady
  BY <1>4 DEF FuseReady
<1>5. CASE NoFuse
  BY <1>5 DEF NoFuse
<1>6. CASE BindFuse
  BY <1>6 DEF BindFuse
<1>7. CASE BindProc
  BY <1>7 DEF BindProc
<1>8. CASE BindDev
  BY <1>8 DEF BindDev
<1>9. CASE Chroot
  BY <1>9 DEF Chroot
<1>10. CASE Chdir
  BY <1>10 DEF Chdir
<1>11. CASE MountTmpfs
  BY <1>11 DEF MountTmpfs
<1>12. CASE ApplyFilter
  BY <1>12 DEF ApplyFilter
<1>13. CASE DropCapabilities
  <2>1. PICK kept \in SUBSET Listed :
            Does("caps", "take terminal", [env EXCEPT !.caps = @ \ (Listed \ kept)])
    BY <1>13 DEF DropCapabilities
  <2> QED
    BY <2>1
<1>14. CASE TakeTerminal
  BY <1>14 DEF TakeTerminal
<1>15. CASE Exec
  BY <1>15 DEF Exec
<1>16. CASE RootRefused
  BY <1>16 DEF RootRefused
<1> QED
  BY <1>16, <1>1, <1>2, <1>3, <1>4, <1>5, <1>6, <1>7, <1>8, <1>9, <1>10, <1>11, <1>12, <1>13,
     <1>14, <1>15 DEF ChildStep

\* Nobody else touches what the child has prepared.
LEMMA PreparedByOthers ==
    Prepared /\ (SetupFails \/ Others \/ Relay \/ StartFails \/ RelayFails
                 \/ Resize \/ ResizeInPoll) => Prepared'
<1>1. ASSUME Prepared, SetupFails PROVE Prepared'
  BY <1>1, PreparedStays DEF SetupFails, Ends, ParentVars, mode
<1>2. ASSUME Prepared, Others PROVE Prepared'
  <2> USE DEF ParentVars, mode
  <2>1. CASE FuseMounts \/ FuseFails \/ FuseDies
    BY <1>2, <2>1, PreparedStays DEF FuseMounts, FuseFails, FuseDies, FuseBecomes, Prepared
  <2>2. CASE CommandWrites \/ CommandReads \/ CommandLetsGo \/ BackgroundEnds \/ Type
    BY <1>2, <2>2, PreparedStays DEF CommandWrites, CommandReads, CommandLetsGo,
       BackgroundEnds, Type, world
  <2>3. CASE CommandEnds
    BY <1>2, <2>3, PreparedStays DEF CommandEnds, Ends
  <2> QED
    BY <1>2, <2>1, <2>2, <2>3 DEF Others
<1>3. ASSUME Prepared, Relay PROVE Prepared'
  <2> USE DEF mode, world, line
  <2>1. CASE Spawn \/ WaitExit \/ Reap
    BY <1>3, <2>1, PreparedStays DEF Spawn, WaitExit, Reap
  <2>2. CASE MakeRaw \/ Install \/ GetSize \/ SetSize \/ Poll \/ ReadMaster
    BY <1>3, <2>2, PreparedStays DEF MakeRaw, Install, GetSize, SetSize, Poll, ReadMaster
  <2>3. CASE MasterClosed \/ ReadStdin \/ WriteMaster \/ WriteHungUp
    BY <1>3, <2>3, PreparedStays DEF MasterClosed, ReadStdin, WriteMaster, WriteHungUp
  <2>4. CASE Winch \/ Check \/ DrainOver
    BY <1>3, <2>4, PreparedStays DEF Winch, Check, DrainOver
  <2> QED
    BY <1>3, <2>1, <2>2, <2>3, <2>4 DEF Relay
<1>4. ASSUME Prepared, StartFails \/ RelayFails \/ Resize \/ ResizeInPoll PROVE Prepared'
  BY <1>4, PreparedStays DEF StartFails, RelayFails, Resize, ResizeInPoll, mode, world
<1> QED
  BY <1>1, <1>2, <1>3, <1>4

\* At every step from the fork to the command, all that the earlier steps were to
\* prepare is in place (run_setup_stage1 and 2): none skips or undoes another's.
THEOREM PreparedInvariant == Spec => []Prepared
<1>1. Prepared /\ [Next]_vars => Prepared'
  <2> SUFFICES ASSUME Prepared, [Next]_vars PROVE Prepared'
    OBVIOUS
  <2>1. CASE UNCHANGED vars
    BY <2>1, PreparedStays DEF vars, world, mode
  <2> QED
    BY <2>1, PreparedByChild, PreparedByOthers DEF Next
<1> QED
  BY <1>1, PreparedInit, PTL DEF Spec

\* Whatever fails and however long each party takes, the command never starts
\* without all that is to confine it (run_setup_stage1 and 2, exec_command).
THEOREM AlwaysConfined == Spec => []CommandConfined
<1>1. Prepared => CommandConfined
  BY DEF Prepared, CommandConfined, PastFilter, PastTmpfs, PastChdir, PastChroot,
         PastDev, PastProc, PastFuse, PastMountNs, PastUserNs
<1> QED
  BY <1>1, PreparedInvariant, PTL

-----------------------------------------------------------------------------
(* What the run returns.                                                   *)

\* A child that has ended left a status; the relay has learned of it exactly if
\* it reaped the child, has closed the user's input since, and only then set a
\* deadline; so a write, for which the input is open, finds nothing learned.
Reported ==
    /\ parent = "start" => child = "none"
    /\ child \in {"exited", "reaped"} => status \in Codes \cup {"killed"}
    /\ child_exit # "none" => child = "reaped" /\ child_exit = ExitCode(status) /\ ~stdin_open
    /\ drain # "unset" => child_exit # "none"
    /\ parent = "write master" => child_exit = "none"
    /\ child = "reaped" => child_exit # "none" \/ parent = "done"

OutcomeInv == Reported /\ OutcomeFaithful

\* The child goes on, or ends; the run does not see it yet.
LEMMA OutcomeByOthers ==
    ASSUME OutcomeInv, UNCHANGED <<parent, result, stdin_open, child_exit, drain>>,
           \/ UNCHANGED <<child, status>>
           \/ /\ child \notin {"exited", "reaped"} /\ child' # "reaped"
              /\ child' = "exited" => status' \in Codes \cup {"killed"}
              /\ child # "none"
    PROVE  OutcomeInv'
  BY DEF OutcomeInv, Reported, OutcomeFaithful

\* The run returns the child's code, or with an error that is none.
LEMMA OutcomeByReturn ==
    ASSUME OutcomeInv, parent # "done", NEW r, Returns(r),
           UNCHANGED <<child, status, stdin_open, child_exit, drain>>,
           r \in Codes => child = "reaped" /\ r = ExitCode(status),
           r = "hung up" => parent = "write master"
    PROVE  OutcomeInv'
  BY DEF OutcomeInv, Reported, OutcomeFaithful, Returns

\* A step of the relay's loop by which it learns nothing.
LEMMA OutcomeByLoop ==
    ASSUME OutcomeInv, parent # "done", parent' \notin {"start", "done"},
           parent' = "write master" => stdin_open,
           UNCHANGED <<child, status, child_exit, drain>>,
           ~stdin_open => ~stdin_open'
    PROVE  OutcomeInv'
  BY DEF OutcomeInv, Reported, OutcomeFaithful

LEMMA OutcomeInit == Init => OutcomeInv
  BY DEF Init, OutcomeInv, Reported, OutcomeFaithful, Codes

LEMMA OutcomeByChild == OutcomeInv /\ (ChildStep \/ SetupFails \/ Others) => OutcomeInv'
<1> USE DEF ParentVars, relay, Does, Ends, Codes
<1>1. ASSUME OutcomeInv, ChildStep PROVE OutcomeInv'
  BY <1>1, OutcomeByOthers DEF ChildStep, CreateUserNs, CreateMountNs, ForkFuse, FuseReady,
     RootRefused, NoFuse, BindFuse, BindProc, BindDev, Chroot, Chdir, MountTmpfs, ApplyFilter,
     DropCapabilities, TakeTerminal, Exec
<1>2. ASSUME OutcomeInv, SetupFails PROVE OutcomeInv'
  BY <1>2, OutcomeByOthers DEF SetupFails, Steps
<1>3. ASSUME OutcomeInv, Others PROVE OutcomeInv'
  BY <1>3, OutcomeByOthers DEF Others, FuseMounts, FuseFails, FuseDies, FuseBecomes,
     CommandWrites, CommandReads, CommandLetsGo, CommandEnds, BackgroundEnds, Type, world
<1> QED
  BY <1>1, <1>2, <1>3

LEMMA OutcomeByRelay == OutcomeInv /\ Relay => OutcomeInv'
<1> SUFFICES ASSUME OutcomeInv, Relay PROVE OutcomeInv'
  OBVIOUS
<1> USE DEF Goes, relay, world, OutcomeInv
<1>1. CASE Spawn
  BY <1>1 DEF Spawn, Reported, OutcomeFaithful
<1>2. CASE WaitExit
  <2>1. child_exit = "none"
    BY <1>2 DEF WaitExit, Reported
  <2> QED
    BY <1>2, <2>1 DEF WaitExit, Returns, Reported, OutcomeFaithful, ExitCode, Codes
<1>3. CASE MakeRaw \/ Install \/ GetSize \/ SetSize \/ Poll \/ ReadMaster
  <2>1. ~stdin_open => ~stdin_open'
    BY <1>3, Zenon DEF MakeRaw, Install, GetSize, SetSize, Poll, ReadMaster
  <2> QED
    BY <1>3, <2>1, OutcomeByLoop DEF MakeRaw, Install, GetSize, SetSize, Poll, ReadMaster
<1>4. CASE Reap
  <2>1. status \in Codes \cup {"killed"} => ExitCode(status) # "none"
    BY DEF ExitCode, Codes
  <2> QED
    BY <1>4, <2>1 DEF Reap, Reported, OutcomeFaithful
<1>5. CASE MasterClosed
  <2>1. CASE child_exit = "none"
    BY <1>5, <2>1, OutcomeByLoop DEF MasterClosed
  <2>2. CASE child_exit # "none"
    <3>1. child = "reaped" /\ child_exit = ExitCode(status) /\ child_exit # "hung up"
      BY <2>2 DEF Reported, ExitCode, Codes
    <3> QED
      BY <1>5, <2>2, <3>1, OutcomeByReturn DEF MasterClosed
  <2> QED
    BY <2>1, <2>2
<1>6. CASE ReadStdin
  <2>1. ~stdin_open => ~stdin_open'
    BY <1>6, Zenon DEF ReadStdin
  <2> QED
    BY <1>6, <2>1, OutcomeByLoop DEF ReadStdin
<1>7. CASE WriteMaster
  BY <1>7, OutcomeByLoop DEF WriteMaster
<1>8. CASE WriteHungUp
  BY <1>8, OutcomeByReturn DEF WriteHungUp, Codes
<1>9. CASE Winch
  BY <1>9, OutcomeByLoop DEF Winch
<1>10. CASE Check
  <2>1. CASE drain # "over"
    BY <1>10, <2>1, OutcomeByLoop DEF Check
  <2>2. CASE drain = "over"
    <3>1. child = "reaped" /\ child_exit = ExitCode(status) /\ child_exit # "hung up"
      BY <2>2 DEF Reported, ExitCode, Codes
    <3> QED
      BY <1>10, <2>2, <3>1, OutcomeByReturn DEF Check
  <2> QED
    BY <2>1, <2>2
<1>11. CASE DrainOver
  BY <1>11 DEF DrainOver, Reported, OutcomeFaithful
<1> QED
  BY <1>1, <1>2, <1>3, <1>4, <1>5, <1>6, <1>7, <1>8, <1>9, <1>10, <1>11 DEF Relay

\* What the relay has learned of the child's end is true, and known in time
\* (relay_pty_io, wait_setup_exit).
THEOREM OutcomeInvariant == Spec => []OutcomeInv
<1>1. OutcomeInv /\ [Next]_vars => OutcomeInv'
  <2> SUFFICES ASSUME OutcomeInv, [Next]_vars PROVE OutcomeInv'
    OBVIOUS
  <2>1. CASE StartFails \/ RelayFails \/ ResizeInPoll
    BY <2>1, OutcomeByReturn DEF StartFails, RelayFails, ResizeInPoll, Calls, Codes, relay, world
  <2>2. CASE Resize \/ UNCHANGED vars
    BY <2>2, OutcomeByOthers DEF Resize, vars, relay, world
  <2> QED
    BY <2>1, <2>2, OutcomeByChild, OutcomeByRelay DEF Next
<1> QED
  BY <1>1, OutcomeInit, PTL DEF Spec

\* An exit code is the child's and the child is reaped; and no error replaces a
\* code the relay knows (relay_pty_io, wait_setup_exit).
THEOREM OutcomeCorrect == Spec => []OutcomeFaithful
<1>1. OutcomeInv => OutcomeFaithful
  BY DEF OutcomeInv
<1> QED
  BY <1>1, OutcomeInvariant, PTL

-----------------------------------------------------------------------------
(* What the variables may be.                                              *)

\* The chunks, and the sizes of the window: counted from 0.
Chunks ==
    /\ hostSize \in 0..MaxResize /\ ptySize \in 0..MaxResize /\ size \in 0..MaxResize
    /\ in \in 0..Capacity /\ out \in 0..Capacity /\ output \in 0..MaxOutput
    /\ typed \in Nat /\ keys \in Nat /\ typed + keys <= MaxKeys

\* What the poll found to read is there until the relay reads it or closes the
\* user's input.
Readable ==
    parent \in {"reap", "read master", "read stdin"} /\ stdin_open /\ "stdin" \in polled =>
        typed > 0

\* Where everybody is, and what they have.
Stations ==
    /\ parent \in Calls \cup {"start", "wait", "winch", "check", "done"}
    /\ result \in Codes \cup Errors \cup {"none"}
    /\ terminal \in {"cooked", "raw"}
    /\ polled \subseteq {"master", "stdin"}
    /\ child_exit \in Codes \cup {"none"}
    /\ drain \in {"unset", "running", "over"}
    /\ child \in Steps \cup {"none", "command", "exited", "reaped"}
    /\ status \in Codes \cup {"none", "killed"}
    /\ fuse \in {"none", "starting", "serving", "failed", "dead"}
    /\ held \subseteq {"command", "background"}

Flags == use_pty \in BOOLEAN /\ handler \in BOOLEAN /\ winch \in BOOLEAN /\ stdin_open \in BOOLEAN

LEMMA TypeIs == Chunks /\ Stations /\ Flags /\ Prepared => TypeOK
<1> SUFFICES ASSUME Chunks, Stations, Flags, Prepared PROVE TypeOK
  OBVIOUS
<1>1. env.at \in [Places -> Found] /\ env.cwdOn \in Found
  BY DEF Prepared, Surroundings
<1>2. typed + keys \in 0..MaxKeys
  BY BoundsAssumption DEF Chunks
<1>3. {hostSize, ptySize, size} \subseteq 0..MaxResize /\ {in, out} \subseteq 0..Capacity
  BY DEF Chunks
<1>4. output \in 0..MaxOutput
  BY DEF Chunks
<1> QED
  BY <1>1, <1>2, <1>3, <1>4 DEF Stations, Flags, TypeOK

LEMMA ChunksInit == Init => Chunks
  BY BoundsAssumption DEF Init, Chunks

\* What a step may do to the chunks and sizes.
LEMMA Moves ==
    ASSUME Readable, [Next]_vars
    PROVE  /\ \/ hostSize' = hostSize
              \/ hostSize < MaxResize /\ hostSize' = hostSize + 1
           /\ ptySize' = ptySize \/ ptySize' = size
           /\ size' = size \/ size' = hostSize
           /\ \/ in' = in
              \/ in > 0 /\ in' = in - 1
              \/ in < Capacity /\ in' = in + 1
           /\ \/ out' = out /\ output' = output
              \/ out > 0 /\ out' = out - 1 /\ output' = output
              \/ output > 0 /\ out < Capacity /\ out' = out + 1 /\ output' = output - 1
           /\ \/ typed' \in {0, typed} /\ keys' = keys
              \/ typed > 0 /\ typed' = typed - 1 /\ keys' = keys
              \/ keys > 0 /\ keys' = keys - 1 /\ typed' = typed + 1
<1> USE DEF ParentVars, relay, mode, sizes, line, world
<1>1. CASE ChildStep \/ SetupFails
  <2>1. UNCHANGED <<ParentVars, line>>
    BY <1>1 DEF ChildStep, SetupFails, CreateUserNs, CreateMountNs, ForkFuse, FuseReady, RootRefused, NoFuse,
           BindFuse, BindProc, BindDev, Chroot, Chdir, MountTmpfs, ApplyFilter, DropCapabilities,
           TakeTerminal, Exec, Does, Ends
  <2> QED
    BY <2>1
<1>2. CASE FuseMounts \/ FuseFails \/ FuseDies \/ CommandLetsGo \/ CommandEnds \/ BackgroundEnds
  BY <1>2 DEF FuseMounts, FuseFails, FuseDies, FuseBecomes, CommandLetsGo, CommandEnds,
              BackgroundEnds, Ends
<1>3. CASE CommandWrites \/ CommandReads \/ Type
  BY <1>3 DEF CommandWrites, CommandReads, Type
<1>4. CASE Spawn \/ WaitExit \/ MakeRaw \/ Install
  BY <1>4 DEF Spawn, WaitExit, MakeRaw, Install, Goes, Returns
<1>5. CASE GetSize \/ SetSize \/ Winch \/ Check \/ DrainOver
  BY <1>5 DEF GetSize, SetSize, Winch, Check, DrainOver, Goes, Returns
<1>6. CASE Poll \/ Reap \/ ReadMaster
  BY <1>6 DEF Poll, Reap, ReadMaster, Goes
<1>7. CASE ReadStdin
  BY <1>7 DEF ReadStdin, Readable
<1>8. CASE MasterClosed \/ WriteMaster \/ WriteHungUp
  BY <1>8 DEF MasterClosed, WriteMaster, WriteHungUp, Goes, Returns
<1>9. CASE StartFails \/ RelayFails \/ Resize \/ ResizeInPoll
  BY <1>9 DEF StartFails, RelayFails, Resize, ResizeInPoll, Returns
<1>10. CASE UNCHANGED vars
  BY <1>10 DEF vars
<1> QED
  BY <1>1, <1>2, <1>3, <1>4, <1>5, <1>6, <1>7, <1>8, <1>9, <1>10 DEF Next, Others, Relay

LEMMA ChunksNext == Chunks /\ Readable /\ [Next]_vars => Chunks'
  BY Moves, BoundsAssumption DEF Chunks

LEMMA OneMore == \A n \in Nat : n + 1 > 0
  OBVIOUS

LEMMA ReadableNext == Readable /\ typed \in Nat /\ [Next]_vars => Readable'
<1> SUFFICES ASSUME Readable, typed \in Nat, [Next]_vars PROVE Readable'
  OBVIOUS
<1> USE DEF Readable, ParentVars, relay, mode, sizes, line, world
<1>1. CASE ChildStep \/ SetupFails
  <2>1. UNCHANGED <<ParentVars, line>>
    BY <1>1 DEF ChildStep, SetupFails, CreateUserNs, CreateMountNs, ForkFuse, FuseReady, RootRefused, NoFuse,
           BindFuse, BindProc, BindDev, Chroot, Chdir, MountTmpfs, ApplyFilter, DropCapabilities,
           TakeTerminal, Exec, Does, Ends
  <2> QED
    BY <2>1
<1>2. CASE FuseMounts \/ FuseFails \/ FuseDies \/ CommandLetsGo \/ CommandEnds \/ BackgroundEnds
  BY <1>2 DEF FuseMounts, FuseFails, FuseDies, FuseBecomes, CommandLetsGo, CommandEnds,
              BackgroundEnds, Ends
<1>3. CASE CommandWrites \/ CommandReads \/ Type
  <2>1. UNCHANGED <<parent, stdin_open, polled>> /\ (typed' = typed \/ typed' = typed + 1)
    BY <1>3 DEF CommandWrites, CommandReads, Type
  <2>2. typed' = typed \/ typed' > 0
    BY <2>1, OneMore
  <2> QED
    BY <2>1, <2>2
<1>6. CASE Poll
  <2>1. "stdin" \in polled' => typed > 0
    BY <1>6 DEF Poll
  <2> QED
    BY <1>6, <2>1 DEF Poll, Goes
<1>7. CASE Reap
  BY <1>7 DEF Reap, Goes
<1>8. CASE ReadMaster
  BY <1>8 DEF ReadMaster, Goes
<1>9. CASE Relay /\ parent' \notin {"reap", "read master", "read stdin"}
  BY <1>9
<1>10. CASE DrainOver
  BY <1>10 DEF DrainOver
<1>11. Relay => Poll \/ Reap \/ ReadMaster \/ DrainOver
                  \/ parent' \notin {"reap", "read master", "read stdin"}
  BY DEF Relay, Spawn, WaitExit, MakeRaw, Install, GetSize, SetSize, MasterClosed, ReadStdin,
         WriteMaster, WriteHungUp, Winch, Check, Goes, Returns
<1>4. CASE StartFails \/ RelayFails \/ Resize \/ ResizeInPoll
  BY <1>4 DEF StartFails, RelayFails, Resize, ResizeInPoll, Returns
<1>5. CASE UNCHANGED vars
  BY <1>5 DEF vars
<1> QED
  BY <1>1, <1>2, <1>3, <1>4, <1>5, <1>6, <1>7, <1>8, <1>9, <1>10, <1>11 DEF Next, Others

LEMMA FlagsNext == Flags /\ [Next]_vars => Flags'
<1> SUFFICES ASSUME Flags, [Next]_vars PROVE Flags'
  OBVIOUS
<1> USE DEF Flags, ParentVars, relay, mode, sizes, line, world
<1>1. CASE ChildStep \/ SetupFails \/ Others
  <2>1. UNCHANGED ParentVars
    BY <1>1 DEF ChildStep, SetupFails, CreateUserNs, CreateMountNs, ForkFuse, FuseReady, RootRefused, NoFuse,
           BindFuse, BindProc, BindDev, Chroot, Chdir, MountTmpfs, ApplyFilter, DropCapabilities,
           TakeTerminal, Exec, Does, Ends, Others, FuseMounts, FuseFails, FuseDies, FuseBecomes,
           CommandLetsGo, CommandEnds, BackgroundEnds, CommandWrites, CommandReads, Type
  <2> QED
    BY <2>1
<1>2. CASE Relay
  BY <1>2 DEF Relay, Spawn, WaitExit, MakeRaw, Install, GetSize, SetSize, Poll, Reap, ReadMaster,
              MasterClosed, ReadStdin, WriteMaster, WriteHungUp, Winch, Check, DrainOver,
              Goes, Returns
<1>3. CASE StartFails \/ RelayFails \/ Resize \/ ResizeInPoll
  BY <1>3 DEF StartFails, RelayFails, Resize, ResizeInPoll, Returns
<1>4. CASE UNCHANGED vars
  BY <1>4 DEF vars
<1> QED
  BY <1>1, <1>2, <1>3, <1>4 DEF Next

LEMMA StationsNext == Stations /\ Reported /\ [Next]_vars => Stations'
<1> SUFFICES ASSUME Stations, Reported, [Next]_vars PROVE Stations'
  OBVIOUS
<1> USE DEF Stations, ParentVars, relay, mode, sizes, line, world
<1>1. CASE ChildStep \/ SetupFails
  <2>1. /\ UNCHANGED <<ParentVars, line>>
        /\ child' \in Steps \cup {"command", "exited"}
        /\ status' \in {status, "exit 1"}
        /\ fuse' \in {fuse, "starting"}
        /\ held' \subseteq held \cup {"command"}
    BY <1>1 DEF ChildStep, SetupFails, CreateUserNs, CreateMountNs, ForkFuse, FuseReady, RootRefused, NoFuse,
           BindFuse, BindProc, BindDev, Chroot, Chdir, MountTmpfs, ApplyFilter, DropCapabilities,
           TakeTerminal, Exec, Does, Ends, Steps
  <2>2. status' \in Codes \cup {"none", "killed"} /\ held' \subseteq {"command", "background"}
    BY <2>1 DEF Codes
  <2> QED
    BY <2>1, <2>2, ZenonT(40)
<1>2. CASE Others
  <2>1. UNCHANGED ParentVars
    BY <1>2 DEF Others, FuseMounts, FuseFails, FuseDies, FuseBecomes, CommandLetsGo, CommandEnds,
                BackgroundEnds, Ends, CommandWrites, CommandReads, Type
  <2>2. /\ child' \in {child, "exited"}
        /\ status' \in {status, "killed"} \cup Codes
        /\ fuse' \in {fuse, "serving", "failed", "dead"}
        /\ held' \subseteq held \cup {"background"}
    BY <1>2 DEF Others, FuseMounts, FuseFails, FuseDies, FuseBecomes, CommandLetsGo, CommandEnds,
                BackgroundEnds, Ends, CommandWrites, CommandReads, Type
  <2> QED
    BY <2>1, <2>2
<1>3. /\ status \in Codes \cup {"killed"} => ExitCode(status) \in Codes
      /\ child_exit # "none" => child_exit \in Codes
  BY DEF ExitCode, Codes
<1>4. CASE Spawn \/ WaitExit \/ MakeRaw \/ Install
  BY <1>3, <1>4, ZenonT(40) DEF Spawn, WaitExit, MakeRaw, Install, Goes, Returns, Calls, Steps, Reported
<1>5. CASE GetSize \/ SetSize \/ Winch \/ Check \/ DrainOver
  BY <1>3, <1>5, ZenonT(40) DEF GetSize, SetSize, Winch, Check, DrainOver, Goes, Returns, Calls, Reported
<1>6. CASE Poll
  BY <1>6 DEF Poll, Goes, Calls
<1>7. CASE Reap \/ ReadMaster \/ ReadStdin
  BY <1>3, <1>7 DEF Reap, ReadMaster, ReadStdin, Goes, Calls, Reported
<1>8. CASE MasterClosed \/ WriteMaster \/ WriteHungUp
  BY <1>3, <1>8, ZenonT(40) DEF MasterClosed, WriteMaster, WriteHungUp, Goes, Returns, Calls, Errors
<1>9. CASE StartFails \/ RelayFails \/ Resize \/ ResizeInPoll
  BY <1>9 DEF StartFails, RelayFails, Resize, ResizeInPoll, Returns, Errors
<1>10. CASE UNCHANGED vars
  BY <1>10 DEF vars
<1> QED
  BY <1>1, <1>2, <1>4, <1>5, <1>6, <1>7, <1>8, <1>9, <1>10 DEF Next, Relay

\* Every variable keeps to the values it is said to have: neither direction of the
\* terminal ever holds more than it can, and no chunk is read that is not there
\* (relay_pty_io).
THEOREM TypeCorrect == Spec => []TypeOK
<1>1. Init => Stations /\ Flags /\ Readable
  BY DEF Init, Stations, Flags, Readable, Calls
<1>2. Stations /\ OutcomeInv /\ [Next]_vars => Stations'
  BY StationsNext DEF OutcomeInv
<1>3. Chunks => typed \in Nat
  BY DEF Chunks
<1> QED
  BY <1>1, <1>2, <1>3, ChunksInit, ChunksNext, ReadableNext, FlagsNext, TypeIs,
     OutcomeInvariant, PreparedInvariant, PTL DEF Spec

-----------------------------------------------------------------------------
(* The policy: what holds of the classification of paths whatever the      *)
(* configuration says.                                                     *)

\* A path below the root is matched by the part below it.
LEMMA RelativeBelowRoot ==
    ASSUME Root \in Paths, NEW s \in Paths
    PROVE  rel(Root \o s) = Relative(s)
<1>1. /\ Len(Root \o s) = Len(Root) + Len(s)
      /\ Len(Root) \in Nat /\ Len(s) \in Nat
      /\ \A i \in 1..Len(Root) : (Root \o s)[i] = Root[i]
      /\ \A i \in 1..Len(s) : (Root \o s)[i + Len(Root)] = s[i]
    BY DEF Paths
<1>2. Below(Root \o s, Root)
    BY <1>1 DEF Below
<1>3. [i \in 1..(Len(Root \o s) - Len(Root)) |-> (Root \o s)[i + Len(Root)]]
        = [i \in 1..Len(s) |-> s[i]]
    BY <1>1
<1>4. s = [i \in 1..Len(s) |-> s[i]]
    BY DEF Paths
<1>. QED
    BY <1>2, <1>3, <1>4 DEF rel

\* The two functions of the policy agree: what is logged is exactly what is
\* redirected to copies and not exempted (classify and should_log go through
\* the lists separately; config.rs gives one table for both).
THEOREM LoggedIffCopied ==
    \A p \in Paths :
        should_log(p) <=> classify(p) = "CopyOnWrite" /\ rel(p) \notin DisableLog
<1>. TAKE p \in Paths
<1>1. ImplicitlyWhitelisted(p) <=>
          \/ ~rel(p).absolute /\ root_is_whitelisted
          \/ cwd_is_whitelisted /\ \E c \in Cwd : Below(p, c)
    BY DEF ImplicitlyWhitelisted
<1>. QED
    BY <1>1 DEF should_log, classify

\* The sandbox's own files are hidden from the command and never logged,
\* wherever the root and the working directory are and whatever else is on the
\* whitelist, unless .sandbox itself is (from_config's implicit globs).
THEOREM SandboxHidden ==
    ASSUME Root \in Paths, ".sandbox" \in Names,
           Relative(<<".sandbox">>) \notin Whitelist
    PROVE  \A s \in Paths :
               LET p == Root \o (<<".sandbox">> \o s)
               IN  classify(p) = "FuseOnly" /\ ~should_log(p)
<1>. TAKE s \in Paths
<1>. DEFINE t == <<".sandbox">> \o s
<1>1. t \in Paths /\ Len(t) > 0 /\ t[1] = ".sandbox"
    BY DEF Paths
<1>. HIDE DEF t
<1>2. rel(Root \o t) = Relative(t)
    BY <1>1, RelativeBelowRoot
<1>3. Relative(t) \in blacklist
    BY <1>1 DEF blacklist, ImplicitBlacklist, Relative
<1>4. classify(Root \o t) = "FuseOnly" /\ ~should_log(Root \o t)
    BY <1>2, <1>3 DEF classify, should_log
<1>. QED
    BY <1>4 DEF t

\* A host file is written through only if the user asked for it, or it lies
\* below the root or the working directory, neither of them blacklisted: for
\* every other path a write goes to a copy (classify).
THEOREM PassthroughAsked ==
    ASSUME NEW p \in Paths, classify(p) = "Passthrough"
    PROVE  \/ rel(p) \in Whitelist
           \/ Below(p, Root) /\ Relative(<<>>) \notin Blacklist
           \/ \E c \in Cwd : Below(p, c) /\ cwd_is_whitelisted
<1>1. rel(p) \in Whitelist \/ ImplicitlyWhitelisted(p)
    BY DEF classify
<1>2. ~rel(p).absolute => Below(p, Root)
    BY DEF rel, Absolute
<1>. QED
    BY <1>1, <1>2 DEF ImplicitlyWhitelisted, root_is_whitelisted

\* The user's blacklist wins over the whitelist, the root and the working
\* directory (config.rs: blacklist, whitelist, default).
THEOREM BlacklistWins ==
    ASSUME NEW p \in Paths, rel(p) \in Blacklist
    PROVE  classify(p) = "FuseOnly" /\ ~should_log(p)
BY DEF classify, should_log, blacklist
=============================================================================
