------------------------------ MODULE Sandbox ------------------------------
(***************************************************************************)
(* The processes of one sandbox: the run that the user started, the child  *)
(* that prepares the sandbox and becomes the command, the FUSE daemon that *)
(* the child forks, and the terminal that the run relays.                  *)
(*                                                                         *)
(*   src/cli/sandbox.rs     the forks, the wait for FUSE, the relay        *)
(*   src/isolate/stage1.rs  the user namespace                             *)
(*   src/isolate/stage2.rs  mounts, chroot, capabilities                   *)
(*   src/isolate/seccomp.rs the system-call filter                         *)
(*                                                                         *)
(* A step of the child is a function that may fail as a whole.  The two    *)
(* directions of the pseudo terminal are counted in chunks.  When the run  *)
(* has no terminal it only waits.                                          *)
(*                                                                         *)
(* Two things are taken for granted of the outside: a FUSE daemon that has *)
(* mounted answers until it dies (the stat of wait_for_fuse_ready has no   *)
(* limit of its own), and the user's terminal takes what it is given (so   *)
(* write_all_fd to stdout returns).                                        *)
(***************************************************************************)
EXTENDS Naturals

CONSTANTS
    Capacity,   \* chunks that each direction of the terminal holds
    MaxKeys,    \* chunks the user types
    MaxOutput,  \* chunks the command writes
    MaxResize,  \* how often the user resizes the window
    Faults      \* what may fail: "start", "setup", "fuse", "io"

ASSUME BoundsAssumption ==
    /\ Capacity \in Nat \ {0}
    /\ MaxKeys \in Nat /\ MaxOutput \in Nat /\ MaxResize \in Nat

VARIABLES
    \* the run
    parent,      \* where run_in_sandbox is
    result,      \* what it returns
    use_pty,     \* stdin and stdout are terminals
    terminal,    \* the mode of the user's terminal
    handler,     \* the SIGWINCH handler is installed
    winch,       \* WINCH_PENDING
    polled,      \* the descriptors the last poll found readable
    stdin_open,
    child_exit,  \* what the relay has learned of the child's end
    drain,       \* drain_deadline
    size,        \* the window size it has read and not yet written
    \* the others
    child,       \* the step the child is at, or what became of it
    status,      \* what the child ended with
    env,         \* what the child has set up around itself
    fuse,        \* the FUSE daemon
    held,        \* who has the slave of the pseudo terminal open
    in, out,     \* chunks on their way to the slave, to the master
    typed,       \* chunks at the user's terminal that nobody has read
    hostSize, ptySize,
    keys, output \* what the user and the command may still produce

relay == <<polled, stdin_open, child_exit, drain, size>>
line  == <<in, out, typed, keys, output>>
world == <<child, status, env, fuse, held>>
mode  == <<use_pty, terminal, handler>>
sizes == <<winch, hostSize, ptySize>>
vars  == <<parent, result, mode, sizes, relay, world, line>>

Codes  == {"exit 0", "exit 1"}
Errors == {"not started", "terminal error", "interrupted", "hung up"}

\* What the child does before it is the command, in this order.
Steps == {"userns", "mountns", "fork", "await fuse", "bind fuse",
          "bind proc", "bind dev", "chroot", "chdir", "tmpfs", "filter",
          "caps", "take terminal", "exec"}

\* The places of the new root that the steps treat differently, and what a
\* process finds there.
Places == {"root", "proc", "dev", "tty", "tmp"}
Found  == {"nothing", "fuse", "host", "slave", "tmpfs"}

\* One for the 32 capabilities that drop_capabilities lists, twice, since each
\* may go or stay; and one for the nine it does not list.
Listed       == {"CAP_SYS_ADMIN", "CAP_CHOWN"}
Capabilities == Listed \cup {"CAP_BPF"}

\* How waitpid's answer becomes an exit code: a signal counts as 1.
ExitCode(s) == IF s = "killed" THEN "exit 1" ELSE s

\* Where the relay is in a system call on a terminal, which may fail.
Calls == {"raw", "sigaction", "get size", "set size", "poll", "reap",
          "read master", "read stdin", "write master"}

\* From here on the child finds what it names through FUSE.
ThroughFuse == {"bind proc", "bind dev", "chdir", "tmpfs", "take terminal", "exec"}

Init ==
    /\ parent = "start" /\ result = "none"
    /\ use_pty \in BOOLEAN /\ terminal = "cooked" /\ handler = FALSE
    /\ winch = FALSE /\ hostSize = 0 /\ ptySize = 0
    /\ polled = {} /\ stdin_open = TRUE /\ child_exit = "none"
    /\ drain = "unset" /\ size = 0
    /\ child = "none" /\ status = "none" /\ fuse = "none" /\ held = {}
    /\ \E u \in {"root", "user"}, p \in {"root", "tmp"} :
         env = [user |-> u, userns |-> FALSE, mountns |-> FALSE, rootfs |-> FALSE,
                at |-> [q \in Places |-> "nothing"], cwd |-> p, cwdOn |-> "host",
                filter |-> FALSE, caps |-> {}]
    /\ in = 0 /\ out = 0 /\ typed = 0 /\ keys = MaxKeys /\ output = MaxOutput

-----------------------------------------------------------------------------
(* The child: setup(1), setup(2), then the command.                        *)

ParentVars == <<parent, result, mode, sizes, relay>>

\* The process ends; the kernel closes its files.
Ends(s) ==
    /\ child' = "exited" /\ status' = s
    /\ held' = held \ {"command"}
    /\ UNCHANGED <<env, fuse, line, ParentVars>>

\* The step at from is done, and leaves e around the child.
Does(from, to, e) ==
    /\ child = from
    /\ child' = to /\ env' = e
    /\ UNCHANGED <<status, fuse, held, line, ParentVars>>

\* Faulty: root is let through.
CreateAnyUserNs ==
    Does("userns", "mountns", [env EXCEPT !.userns = TRUE, !.caps = Capabilities])

\* UserNs::new maps the user to himself, unless he or his group is root; the
\* new namespace gives all capabilities.
CreateUserNs ==
    /\ env.user # "root"
    /\ Does("userns", "mountns", [env EXCEPT !.userns = TRUE, !.caps = Capabilities])

RootRefused ==
    /\ child = "userns" /\ env.user = "root"
    /\ Ends("exit 1")

\* create_mount_ns: a copy of the mounts that the host does not see.
CreateMountNs == Does("mountns", "fork", [env EXCEPT !.mountns = TRUE])

ForkFuse ==
    /\ child = "fork"
    /\ child' = "await fuse" /\ fuse' = "starting"
    /\ UNCHANGED <<status, env, held, line, ParentVars>>

\* wait_for_fuse_ready finds another device at the mount point.
FuseReady ==
    /\ fuse = "serving"
    /\ Does("await fuse", "bind fuse", env)

\* Faulty: no limit on the wait, only the check that FUSE is alive.
NoFuseUnlessDead ==
    /\ child = "await fuse" /\ fuse \in {"failed", "dead"}
    /\ Ends("exit 1")

\* The FUSE daemon is gone, or ten seconds are over; the answer about the
\* mount may be older than the look at the clock.
NoFuse ==
    /\ child = "await fuse"
    /\ Ends("exit 1")

\* prepare_chroot binds the FUSE mount over the root it has made; what was
\* there before can no longer be seen.
BindFuse ==
    Does("bind fuse", "bind proc",
         [env EXCEPT !.at = [p \in Places |->
             IF fuse \in {"serving", "dead"} THEN "fuse" ELSE "nothing"]])

BindProc == Does("bind proc", "bind dev", [env EXCEPT !.at["proc"] = "host"])

\* The devices one by one, a directory with new terminals, and the slave as
\* tty.
BindDev ==
    Does("bind dev", "chroot",
         [env EXCEPT !.at["dev"] = "host",
                     !.at["tty"] = IF use_pty THEN "slave" ELSE @])

Chroot == Does("chroot", "chdir", [env EXCEPT !.rootfs = TRUE])

\* Faulty: the fresh /tmp is mounted first.
ChdirAfterTmpfs ==
    Does("chdir", "tmpfs",
         [env EXCEPT !.cwdOn = IF env.cwd = "tmp" THEN "tmpfs" ELSE env.at["root"]])

\* chdir to the directory the user was in, as the new root shows it.
Chdir ==
    Does("chdir", "tmpfs",
         [env EXCEPT !.cwdOn = IF env.rootfs THEN env.at[env.cwd] ELSE "host"])

MountTmpfs == Does("tmpfs", "filter", [env EXCEPT !.at["tmp"] = "tmpfs"])

ApplyFilter == Does("filter", "caps", [env EXCEPT !.filter = TRUE])

\* drop_capabilities: each of those it lists goes, unless the call fails,
\* which is ignored; the others stay.
DropCapabilities ==
    \E kept \in SUBSET Listed :
        /\ kept # {} => "setup" \in Faults
        /\ Does("caps", "take terminal",
                [env EXCEPT !.caps = @ \ (Listed \ kept)])

\* exec_command makes the slave its controlling terminal and its three
\* standard files; without a terminal it keeps those of the run.
TakeTerminal ==
    /\ child = "take terminal"
    /\ use_pty => env.at["tty"] = "slave"
    /\ child' = "exec"
    /\ held' = IF use_pty THEN held \cup {"command"} ELSE held
    /\ UNCHANGED <<status, env, fuse, line, ParentVars>>

\* execve: root gets every capability, anybody else loses those he has.
Exec ==
    Does("exec", "command",
         [env EXCEPT !.caps = IF env.user = "root" THEN Capabilities ELSE {}])

\* Any step but the dropping of capabilities, which ignores its errors, ends
\* the process when it fails, as it may once FUSE is dead.
SetupFails ==
    /\ child \in Steps \ {"caps"}
    /\ \/ "setup" \in Faults
       \/ fuse = "dead" /\ child \in ThroughFuse
    /\ Ends("exit 1")

ChildStep ==
    \/ CreateUserNs \/ RootRefused \/ CreateMountNs \/ ForkFuse \/ FuseReady
    \/ NoFuse \/ BindFuse \/ BindProc \/ BindDev \/ Chroot \/ Chdir \/ MountTmpfs
    \/ ApplyFilter \/ DropCapabilities \/ TakeTerminal \/ Exec

-----------------------------------------------------------------------------
(* The FUSE daemon, the command and the user.                              *)

FuseBecomes(from, to) ==
    /\ fuse = from /\ fuse' = to
    /\ UNCHANGED <<child, status, env, held, line, ParentVars>>

FuseMounts == FuseBecomes("starting", "serving")
FuseFails  == "fuse" \in Faults /\ FuseBecomes("starting", "failed")
FuseDies   == "fuse" \in Faults /\ FuseBecomes("serving", "dead")

CommandWrites ==
    /\ child = "command" /\ "command" \in held
    /\ output > 0 /\ out < Capacity
    /\ out' = out + 1 /\ output' = output - 1
    /\ UNCHANGED <<in, typed, keys, world, ParentVars>>

CommandReads ==
    /\ child = "command" /\ "command" \in held /\ in > 0
    /\ in' = in - 1
    /\ UNCHANGED <<out, typed, keys, output, world, ParentVars>>

\* The command closes its terminal and goes on, or leaves it to a process
\* that will outlive it.
CommandLetsGo ==
    /\ child = "command" /\ "command" \in held
    /\ held' \in {held \ {"command"}, held \cup {"background"}}
    /\ UNCHANGED <<child, status, env, fuse, line, ParentVars>>

CommandEnds == child = "command" /\ \E s \in Codes \cup {"killed"} : Ends(s)

BackgroundEnds ==
    /\ "background" \in held
    /\ held' = held \ {"background"}
    /\ UNCHANGED <<child, status, env, fuse, line, ParentVars>>

Type ==
    /\ use_pty /\ parent # "done" /\ keys > 0
    /\ keys' = keys - 1 /\ typed' = typed + 1
    /\ UNCHANGED <<in, out, output, world, ParentVars>>

Others ==
    \/ FuseMounts \/ FuseFails \/ FuseDies
    \/ CommandWrites \/ CommandReads \/ CommandLetsGo \/ CommandEnds
    \/ BackgroundEnds \/ Type

-----------------------------------------------------------------------------
(* The run: run_in_sandbox and relay_pty_io.                               *)

Goes(from, to) == parent = from /\ parent' = to

\* The relay returns: StdinTermiosGuard puts the mode back and discards what
\* was typed.
Returns(r) ==
    /\ parent' = "done" /\ result' = r
    /\ terminal' = "cooked"
    /\ typed' = IF use_pty THEN 0 ELSE typed

\* A directory, the pseudo terminal or the fork cannot be had.
StartFails ==
    /\ parent = "start" /\ "start" \in Faults
    /\ Returns("not started")
    /\ UNCHANGED <<use_pty, handler, sizes, relay, world, in, out, keys, output>>

\* spawn_setup_process; the run has closed its own slave by now.
Spawn ==
    /\ Goes("start", IF use_pty THEN "raw" ELSE "wait")
    /\ child' = "userns"
    /\ UNCHANGED <<result, mode, sizes, relay, status, env, fuse, held, line>>

\* wait_setup_exit: waitpid without WNOHANG.
WaitExit ==
    /\ parent = "wait" /\ child = "exited"
    /\ child' = "reaped"
    /\ Returns(ExitCode(status))
    /\ UNCHANGED <<use_pty, handler, sizes, relay, status, env, fuse, held,
                   in, out, keys, output>>

MakeRaw ==
    /\ Goes("raw", "sigaction")
    /\ terminal' = "raw"
    /\ UNCHANGED <<result, use_pty, handler, sizes, relay, world, line>>

Install ==
    /\ Goes("sigaction", "get size")
    /\ handler' = TRUE
    /\ UNCHANGED <<result, use_pty, terminal, sizes, relay, world, line>>

\* update_pty_winsize, in its two calls; it runs once before the loop too.
GetSize ==
    /\ Goes("get size", "set size")
    /\ size' = hostSize
    /\ UNCHANGED <<result, mode, sizes, polled, stdin_open, child_exit, drain,
                   world, line>>

\* Faulty: the flag is cleared when the size has been copied.
SetSizeClears ==
    /\ Goes("set size", "check")
    /\ ptySize' = size /\ winch' = FALSE
    /\ UNCHANGED <<result, mode, hostSize, relay, world, line>>

SetSize ==
    /\ Goes("set size", "check")
    /\ ptySize' = size
    /\ UNCHANGED <<result, mode, winch, hostSize, relay, world, line>>

\* Faulty: without stdin the master is not polled either.
PollBothOrNone ==
    /\ Goes("poll", "reap")
    /\ polled' = IF ~stdin_open THEN {}
                 ELSE {d \in {"master", "stdin"} :
                         IF d = "master" THEN out > 0 ELSE typed > 0}
    /\ UNCHANGED <<result, mode, sizes, stdin_open, child_exit, drain, size, world, line>>

\* poll returns within 50 ms.  A slave that everybody has closed may be
\* reported as readable.
Poll ==
    /\ Goes("poll", "reap")
    /\ \E hup \in {held = {} /\ child \in {"command", "exited"}, FALSE} :
         polled' = {d \in {"master", "stdin"} :
                      IF d = "master" THEN out > 0 \/ hup ELSE stdin_open /\ typed > 0}
    /\ UNCHANGED <<result, mode, sizes, stdin_open, child_exit, drain, size, world, line>>

\* Faulty: the deadline is not set when the child is reaped.
ReapNoDeadline ==
    /\ Goes("reap", "read master")
    /\ IF child_exit = "none" /\ child = "exited"
         THEN /\ child' = "reaped"
              /\ child_exit' = ExitCode(status)
              /\ stdin_open' = FALSE /\ typed' = 0
         ELSE UNCHANGED <<child, child_exit, stdin_open, typed>>
    /\ UNCHANGED <<result, mode, sizes, polled, drain, size, status, env, fuse, held,
                   in, out, keys, output>>

\* Faulty: every answer of waitpid counts as an end.
ReapAnyAnswer ==
    /\ Goes("reap", "read master")
    /\ child' = IF child = "exited" THEN "reaped" ELSE child
    /\ child_exit' = IF child = "exited" THEN ExitCode(status) ELSE "exit 0"
    /\ drain' = IF drain = "unset" THEN "running" ELSE drain
    /\ stdin_open' = FALSE /\ typed' = 0
    /\ UNCHANGED <<result, mode, sizes, polled, size, status, env, fuse, held,
                   in, out, keys, output>>

\* waitpid with WNOHANG; the first time it succeeds the user's input ends and
\* what the child left behind is drained for 250 ms.
Reap ==
    /\ Goes("reap", "read master")
    /\ IF child_exit = "none" /\ child = "exited"
         THEN /\ child' = "reaped"
              /\ child_exit' = ExitCode(status)
              /\ drain' = "running"
              /\ stdin_open' = FALSE /\ typed' = 0
         ELSE UNCHANGED <<child, child_exit, drain, stdin_open, typed>>
    /\ UNCHANGED <<result, mode, sizes, polled, size, status, env, fuse, held,
                   in, out, keys, output>>

\* A chunk goes from the master to stdout.
ReadMaster ==
    /\ Goes("read master", "read stdin")
    /\ IF "master" \in polled THEN out > 0 /\ out' = out - 1 ELSE UNCHANGED out
    /\ UNCHANGED <<result, mode, sizes, relay, world, in, typed, keys, output>>

\* read returns 0: no slave is left.  The child is waited for unless it is
\* known how it ended.
MasterClosed ==
    /\ parent = "read master" /\ "master" \in polled /\ out = 0
    /\ IF child_exit = "none"
         THEN parent' = "wait" /\ UNCHANGED <<result, terminal, typed>>
         ELSE Returns(child_exit)
    /\ UNCHANGED <<use_pty, handler, sizes, relay, world, in, out, keys, output>>

\* Nothing to read, the end of the user's input, or a chunk for the master.
ReadStdin ==
    /\ parent = "read stdin"
    /\ \/ /\ ~(stdin_open /\ "stdin" \in polled)
          /\ parent' = "winch" /\ UNCHANGED <<stdin_open, typed>>
       \/ /\ stdin_open /\ "stdin" \in polled
          /\ parent' = "winch" /\ stdin_open' = FALSE /\ UNCHANGED typed
       \/ /\ stdin_open /\ "stdin" \in polled
          /\ parent' = "write master" /\ typed' = typed - 1 /\ UNCHANGED stdin_open
    /\ UNCHANGED <<result, mode, sizes, polled, child_exit, drain, size, world,
                   in, out, keys, output>>

\* Faulty: it does not wait for room.
WriteMasterAhead ==
    /\ Goes("write master", "winch")
    /\ held # {}
    /\ in' = in + 1
    /\ UNCHANGED <<result, mode, sizes, relay, world, out, typed, keys, output>>

\* write_all_fd to the master blocks while the slave's queue is full.
WriteMaster ==
    /\ Goes("write master", "winch")
    /\ held # {} /\ in < Capacity
    /\ in' = in + 1
    /\ UNCHANGED <<result, mode, sizes, relay, world, out, typed, keys, output>>

\* With no slave left the write fails.
WriteHungUp ==
    /\ parent = "write master" /\ held = {}
    /\ Returns("hung up")
    /\ UNCHANGED <<use_pty, handler, sizes, relay, world, in, out, keys, output>>

\* WINCH_PENDING.swap(false).
Winch ==
    /\ Goes("winch", IF winch THEN "get size" ELSE "check")
    /\ winch' = FALSE
    /\ UNCHANGED <<result, mode, hostSize, ptySize, relay, world, line>>

\* The end of the loop: the deadline, or another round.
Check ==
    /\ parent = "check"
    /\ IF drain = "over"
         THEN Returns(child_exit)
         ELSE parent' = "poll" /\ UNCHANGED <<result, terminal, typed>>
    /\ UNCHANGED <<use_pty, handler, sizes, relay, world, in, out, keys, output>>

DrainOver ==
    /\ drain = "running" /\ drain' = "over"
    /\ UNCHANGED <<parent, result, mode, sizes, polled, stdin_open, child_exit,
                   size, world, line>>

\* Any call of the relay on a terminal fails for another reason.
RelayFails ==
    /\ "io" \in Faults /\ parent \in Calls
    /\ Returns("terminal error")
    /\ UNCHANGED <<use_pty, handler, sizes, relay, world, in, out, keys, output>>

Relay ==
    \/ Spawn \/ WaitExit \/ MakeRaw \/ Install \/ GetSize \/ SetSize
    \/ Poll \/ Reap \/ ReadMaster \/ MasterClosed \/ ReadStdin
    \/ WriteMaster \/ WriteHungUp \/ Winch \/ Check \/ DrainOver

\* The user resizes the window.  handle_sigwinch sets the flag; calls it
\* interrupts are restarted ...
Resize ==
    /\ hostSize < MaxResize /\ parent # "done"
    /\ hostSize' = hostSize + 1
    /\ winch' = (winch \/ handler)
    /\ UNCHANGED <<parent, result, mode, ptySize, relay, world, line>>

\* ... but poll is not: SA_RESTART does not apply to it, and the relay returns
\* its EINTR: the run ends while the command goes on.
ResizeInPoll ==
    /\ parent = "poll" /\ hostSize < MaxResize
    /\ hostSize' = hostSize + 1 /\ winch' = TRUE
    /\ Returns("interrupted")
    /\ UNCHANGED <<use_pty, handler, ptySize, relay, world, in, out, keys, output>>

Next ==
    \/ ChildStep \/ SetupFails \/ Others \/ Relay
    \/ StartFails \/ RelayFails \/ Resize \/ ResizeInPoll

\* The run and the preparing child get their turn, and clocks go on; nothing
\* is asked of the command and the user, and of the FUSE daemon only that it
\* answers while it serves.
Spec ==
    /\ Init /\ [][Next]_vars
    /\ WF_vars(Relay) /\ WF_vars(DrainOver) /\ WF_vars(ChildStep)

-----------------------------------------------------------------------------
(* Properties.                                                             *)

\* Every variable has the values the code can give it.
TypeOK ==
    /\ parent \in Calls \cup {"start", "wait", "winch", "check", "done"}
    /\ result \in Codes \cup Errors \cup {"none"}
    /\ use_pty \in BOOLEAN /\ handler \in BOOLEAN /\ winch \in BOOLEAN
    /\ terminal \in {"cooked", "raw"}
    /\ polled \subseteq {"master", "stdin"} /\ stdin_open \in BOOLEAN
    /\ child_exit \in Codes \cup {"none"}
    /\ drain \in {"unset", "running", "over"}
    /\ {hostSize, ptySize, size} \subseteq 0..MaxResize
    /\ child \in Steps \cup {"none", "command", "exited", "reaped"}
    /\ status \in Codes \cup {"none", "killed"}
    /\ env.at \in [Places -> Found] /\ env.cwdOn \in Found
    /\ fuse \in {"none", "starting", "serving", "failed", "dead"}
    /\ held \subseteq {"command", "background"}
    /\ {in, out} \subseteq 0..Capacity
    /\ typed + keys \in 0..MaxKeys /\ output \in 0..MaxOutput

\* The command starts with everything around it: in namespaces and a root of
\* its own, which FUSE shows, with the host's processes and devices and a
\* fresh /tmp on top, under the filter; and where the user was, as FUSE shows
\* it, also when that was below /tmp (stage2.rs: the chdir must come before
\* the tmpfs).  It has no capabilities, whatever drop_capabilities leaves:
\* stage1.rs has refused root, and execve takes everybody else's.
CommandConfined ==
    child = "command" =>
        /\ env.userns /\ env.mountns /\ env.rootfs /\ env.filter /\ env.caps = {}
        /\ env.at["root"] = "fuse" /\ env.at["tmp"] = "tmpfs"
        /\ env.at["proc"] = "host" /\ env.at["dev"] = "host"
        /\ env.cwdOn = "fuse"
        /\ use_pty => env.at["tty"] = "slave"

\* An exit code is that of the child, which is reaped.  The command's end and
\* a write that finds the terminal closed race: the error may come first, but
\* never once the relay knows the code (stdin_open is cleared with it).
OutcomeFaithful ==
    parent = "done" =>
        /\ result \in Codes => child = "reaped" /\ result = ExitCode(status)
        /\ result = "hung up" => child_exit = "none" /\ child # "reaped"

\* The relay is stuck in a write to the command's terminal that nobody takes.
\* (Its other wait without a limit, the write to the user's terminal, is
\* taken to return.)
Stuck == parent = "write master" /\ in = Capacity /\ held # {}

\* Preparing ends, with the command or without it, although the FUSE daemon
\* fails, never mounts or dies (run.md: the wait for FUSE is bounded).
SetupEnds == child \in Steps ~> child \notin Steps

\* When the command has ended so does the run, although processes it left
\* behind keep the terminal open; unless the relay is stuck.
RunEnds == child = "exited" ~> (parent = "done" \/ Stuck)

\* A new size of the window reaches the command's terminal, whenever it
\* comes: before the handler is installed, and between the two calls that
\* copy the size.
SizeFollows ==
    (hostSize # ptySize) ~>
        (hostSize = ptySize \/ parent \in {"wait", "done"} \/ Stuck)

\* What the command writes is taken from it, also when the user's input has
\* ended; unless the relay is stuck, when the two may wait for each other.
OutputFlows == out = Capacity ~> (out < Capacity \/ parent = "done" \/ Stuck)
=============================================================================
