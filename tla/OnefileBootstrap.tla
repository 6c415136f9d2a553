--------------------------- MODULE OnefileBootstrap ---------------------------
(***************************************************************************)
(* The bootstrap of a onefile binary on POSIX                              *)
(* (nuitka/build/static_src/OnefileBootstrap.c): it unpacks its payload,   *)
(* runs the program in it as a child process, passes signals on, and       *)
(* removes the payload if it is temporary.  The program's side is in       *)
(* MainProgram.c: it drops the second one of a SIGINT that reaches it      *)
(* twice, and ends itself when the bootstrap is gone.                      *)
(*                                                                         *)
(* The signal handler calls cleanupChildProcess in the middle of whatever  *)
(* the bootstrap does, and so does the end of main.  A call is a frame; a  *)
(* signal pushes one, and only the last frame runs.                        *)
(*                                                                         *)
(* The payload is a directory of files and symbolic links, the program     *)
(* first.  Definitions named Mut... are wrong on purpose, as plausible     *)
(* mistakes that a property is there to catch.                             *)
(***************************************************************************)
EXTENDS Integers, Sequences, FiniteSets

CONSTANTS
    Payload,    \* the entries of the payload in their order
    LinkTo,     \* the targets of those that are symbolic links
    Temporary,  \* _NUITKA_ONEFILE_TEMP_BOOL
    GraceTime,  \* _NUITKA_ONEFILE_CHILD_GRACE_TIME_INT is not -1
    Signals,    \* bound: the signals that arrive, each at most once
    Faults      \* writes and fork can fail, and the bootstrap can be killed

Entries == {Payload[i] : i \in DOMAIN Payload}
Links == DOMAIN LinkTo
Program == Payload[1]

ASSUME PayloadAssumption ==
    /\ Payload \in Seq(Entries) /\ Len(Payload) > 0
    /\ "EOF" \notin Entries
    /\ \A i, j \in DOMAIN Payload : Payload[i] = Payload[j] => i = j
    /\ Links \subseteq Entries \ {Program}
    /\ \A l \in Links : LinkTo[l] \in Entries \ Links

ASSUME OptionsAssumption ==
    /\ Temporary \in BOOLEAN /\ GraceTime \in BOOLEAN /\ Faults \in BOOLEAN
    /\ Signals \subseteq {"SIGINT", "SIGQUIT", "SIGTERM"}

VARIABLES
    disk,       \* what there is of each entry in the payload directory
    dir,        \* whether the payload directory exists
    knownDir,   \* whether it is in created_dir_paths
    created,    \* payload_created
    at,         \* where main is
    next,       \* the next entry to unpack
    handle,     \* handle_process is not 0
    frames,     \* the calls of cleanupChildProcess that have not returned
    exitCode,   \* exit_code of the bootstrap
    child,      \* the state of the child process
    status,     \* how it ended
    collector,  \* history: who got its status from waitpid
    pending,    \* the SIGINT pending for the child, by its sender
    recent,     \* the last SIGINT of the child is less than 100ms ago
    fromParent, \* _last_sigint_from_parent
    interrupts, \* history: how many SIGINT were passed to Python
    unsent      \* bound: the signals that have not arrived yet

files == <<disk, dir, knownDir>>
process == <<child, status, collector>>
sigint == <<pending, recent, fromParent, interrupts>>
main == <<at, next, created, handle, exitCode>>
vars == <<files, main, frames, process, sigint, unsent>>

Ended == at \in {"exit", "fatal", "killed"}
Gone == child \in {"none", "zombie", "reaped"}

Init ==
    /\ disk = [e \in Entries |-> "absent"] /\ dir = FALSE
    /\ knownDir = FALSE /\ created = FALSE
    /\ at = "start" /\ next = 1
    /\ handle = FALSE /\ frames = <<>> /\ exitCode = 0
    /\ child = "none" /\ status = "none" /\ collector = "nobody"
    /\ pending = "none" /\ recent = FALSE /\ fromParent = FALSE
    /\ interrupts = 0
    /\ unsent = Signals

-----------------------------------------------------------------------------
(***************************************************************************)
(* Unpacking, from where the signal handlers are set up.                   *)
(***************************************************************************)
MainRuns(pc) == at = pc /\ frames = <<>>

StartUnpack ==
    /\ MainRuns("start")
    /\ at' = "unpack" /\ created' = Temporary
    /\ UNCHANGED <<files, next, handle, exitCode, frames, process, sigint, unsent>>

(***************************************************************************)
(* createContainingDirectory: created_dir_paths is trusted, whatever has   *)
(* become of the directory since.                                          *)
(***************************************************************************)
CreateContainingDirectory ==
    /\ dir' = (dir \/ ~knownDir)
    /\ knownDir' = TRUE

MutUpToDate(e) == ~Temporary /\ disk[e] # "absent"

\* In cached mode a file with the right checksum is not written, be it
\* executable or not.
UpToDate(e) == ~Temporary /\ disk[e] \in {"contents", "complete"} /\ e \notin Links

UnpackedEntry == IF next <= Len(Payload) THEN Payload[next] ELSE "EOF"

SkipFile ==
    /\ MainRuns("unpack") /\ UnpackedEntry # "EOF" /\ UpToDate(UnpackedEntry)
    /\ next' = next + 1
    /\ UNCHANGED <<files, at, created, handle, exitCode, frames, process, sigint,
                   unsent>>

UnpackLink ==
    /\ MainRuns("unpack") /\ UnpackedEntry \in Links
    /\ CreateContainingDirectory
    /\ \/ /\ dir'
          /\ disk' = [disk EXCEPT ![UnpackedEntry] = "complete"]
          /\ next' = next + 1
          /\ UNCHANGED <<at, exitCode>>
       \/ \* symlink fails
          /\ ~dir'
          /\ at' = "fatal" /\ exitCode' = 2
          /\ UNCHANGED <<disk, next>>
    /\ UNCHANGED <<created, handle, frames, process, sigint, unsent>>

OpenFile ==
    /\ MainRuns("unpack") /\ UnpackedEntry \in Entries \ Links /\ ~UpToDate(UnpackedEntry)
    /\ CreateContainingDirectory
    /\ \/ /\ dir'
          /\ disk' = [disk EXCEPT ![UnpackedEntry] = "partial"]
          /\ at' = "write"
          /\ UNCHANGED exitCode
       \/ \* fatalErrorTempFileCreate
          /\ ~dir'
          /\ at' = "fatal" /\ exitCode' = 2
          /\ UNCHANGED disk
    /\ UNCHANGED <<next, created, handle, frames, process, sigint, unsent>>

(***************************************************************************)
(* writeContainedFile: the last block may stay in the buffer of the file.  *)
(* A file may have been removed since it was opened, then what is written  *)
(* to it is lost.                                                          *)
(***************************************************************************)
Written(e) == IF e = Program THEN "contents" ELSE "complete"

WriteFile ==
    /\ MainRuns("write")
    /\ \/ /\ disk[UnpackedEntry] = "partial"
          /\ disk' = [disk EXCEPT ![UnpackedEntry] = Written(UnpackedEntry)]
       \/ UNCHANGED disk
    /\ at' = "close"
    /\ UNCHANGED <<dir, knownDir, next, created, handle, exitCode, frames, process,
                   sigint, unsent>>

\* The fchmod that makes the program executable, and closeFile.
CloseFile ==
    /\ MainRuns("close")
    /\ disk' = [disk EXCEPT ![UnpackedEntry] = IF @ = "absent" THEN @ ELSE "complete"]
    /\ at' = "unpack" /\ next' = next + 1
    /\ UNCHANGED <<dir, knownDir, created, handle, exitCode, frames, process, sigint,
                   unsent>>

\* fatalErrorTempFiles exits and leaves the payload behind.
WriteFails ==
    /\ Faults
    /\ \/ MainRuns("write") /\ UNCHANGED disk
       \/ \* After the fchmod.
          /\ MainRuns("close")
          /\ disk' = [disk EXCEPT ![UnpackedEntry] = IF @ = "contents" THEN "complete" ELSE @]
    /\ at' = "fatal" /\ exitCode' = 2
    /\ UNCHANGED <<dir, knownDir, next, created, handle, frames, process, sigint, unsent>>

UnpackDone ==
    /\ MainRuns("unpack") /\ UnpackedEntry = "EOF"
    /\ at' = "launch"
    /\ UNCHANGED <<files, next, created, handle, exitCode, frames, process, sigint,
                   unsent>>

-----------------------------------------------------------------------------
(***************************************************************************)
(* The child process.                                                      *)
(***************************************************************************)
Fork ==
    /\ MainRuns("launch")
    /\ child' = "starting" /\ at' = "forked"
    /\ UNCHANGED <<files, next, created, handle, exitCode, frames, status, collector,
                   sigint, unsent>>

Cleanup(sig, forward) == [sig |-> sig, forward |-> forward, at |-> "begin"]

MutForkFails ==
    /\ Faults /\ MainRuns("launch")
    /\ at' = "cleanup" /\ exitCode' = 2
    /\ UNCHANGED <<files, next, created, handle, frames, process, sigint, unsent>>

ForkFails ==
    /\ Faults /\ MainRuns("launch")
    /\ at' = "cleanup" /\ exitCode' = 2
    /\ frames' = <<Cleanup("none", FALSE)>>
    /\ UNCHANGED <<files, next, created, handle, process, sigint, unsent>>

\* Only now the signal handler knows that there is a child.
RememberChild ==
    /\ MainRuns("forked")
    /\ handle' = TRUE /\ at' = "wait"
    /\ UNCHANGED <<files, next, created, exitCode, frames, process, sigint, unsent>>

MutExitStatus == IF status = "signaled" THEN 1 ELSE 0

\* WEXITSTATUS, which is 0 for a child that a signal ended, too.
ExitStatus == IF status = "error" THEN 1 ELSE 0

(***************************************************************************)
(* waitpid_retried returns once: with the status, or with ECHILD and the   *)
(* status 0 if a signal handler has collected the child.                   *)
(***************************************************************************)
WaitChild ==
    /\ MainRuns("wait")
    /\ \/ /\ child = "zombie"
          /\ child' = "reaped" /\ collector' = "main" /\ exitCode' = ExitStatus
       \/ /\ child = "reaped"
          /\ exitCode' = 0
          /\ UNCHANGED <<child, collector>>
    /\ at' = "cleanup"
    /\ frames' = <<Cleanup("none", FALSE)>>
    /\ UNCHANGED <<files, next, created, handle, status, sigint, unsent>>

Exit ==
    /\ MainRuns("cleanup")
    /\ at' = "exit"
    /\ UNCHANGED <<files, next, created, handle, exitCode, frames, process, sigint,
                   unsent>>

\* execv in the child, or fatalErrorChild.
ChildExec ==
    /\ child = "starting"
    /\ \/ /\ disk[Program] = "complete"
          /\ child' = "running" /\ UNCHANGED status
       \/ /\ disk[Program] # "complete"
          /\ child' = "zombie" /\ status' = "error"
    /\ UNCHANGED <<files, main, frames, collector, sigint, unsent>>

ChildExit ==
    /\ child = "running"
    /\ child' = "zombie"
    /\ status' \in {"ok", "error", "signaled"}
    /\ UNCHANGED <<files, main, frames, collector, sigint, unsent>>

(***************************************************************************)
(* A child that is not in execv yet has the handler of the bootstrap, and  *)
(* handle_process is 0 in it: whatever the signal, it removes the payload. *)
(***************************************************************************)
InheritedHandler == IF child = "starting" /\ created THEN "removing" ELSE child

\* A SIGINT, sent to the child: in the program, it is merged with one that is
\* pending.
Pend(sender) ==
    /\ child' = InheritedHandler
    /\ pending' = IF child = "running" /\ pending = "none" THEN sender ELSE pending

MutDuplicate == recent /\ fromParent

Duplicate == recent /\ (pending = "parent" \/ fromParent)

(***************************************************************************)
(* _ourSigintDeduplicationHandler of the program.                          *)
(***************************************************************************)
ChildSigint ==
    /\ child = "running" /\ pending # "none"
    /\ \/ /\ Duplicate
          /\ UNCHANGED <<recent, fromParent, interrupts>>
       \/ /\ ~Duplicate
          /\ recent' = TRUE /\ fromParent' = (pending = "parent")
          /\ interrupts' = interrupts + 1
    /\ pending' = "none"
    /\ UNCHANGED <<files, main, frames, process, unsent>>

(***************************************************************************)
(* 100ms pass: both processes have acted on a signal by then.              *)
(***************************************************************************)
TimePasses ==
    /\ recent /\ pending = "none"
    /\ \A i \in DOMAIN frames : frames[i].at # "begin"
    /\ recent' = FALSE
    /\ UNCHANGED <<files, main, frames, process, pending, fromParent, interrupts,
                   unsent>>

-----------------------------------------------------------------------------
(***************************************************************************)
(* A signal arrives.  From the terminal the process group has it, the same *)
(* as with killpg, but the bootstrap can tell the two apart.               *)
(***************************************************************************)
Forwarded(source) == source # "terminal"

Signal(sig, source) ==
    /\ sig \in unsent /\ ~Ended
    /\ unsent' = unsent \ {sig}
    /\ frames' = Append(frames, Cleanup(sig, Forwarded(source)))
    /\ \/ /\ source = "targeted"
          /\ UNCHANGED <<child, status, pending>>
       \/ /\ source # "targeted" /\ child \in {"none", "zombie", "reaped", "removing"}
          /\ UNCHANGED <<child, status, pending>>
       \/ /\ source # "targeted" /\ child = "starting"
          /\ child' = InheritedHandler
          /\ UNCHANGED <<status, pending>>
       \/ /\ source # "targeted" /\ child = "running" /\ sig = "SIGINT"
          /\ Pend("group") /\ UNCHANGED status
       \/ \* The default action, or a handler of the program.
          /\ source # "targeted" /\ child = "running" /\ sig # "SIGINT"
          /\ \/ child' = "zombie" /\ status' = "signaled"
             \/ UNCHANGED <<child, status>>
          /\ UNCHANGED pending
    /\ UNCHANGED <<files, main, collector, recent, fromParent, interrupts>>

-----------------------------------------------------------------------------
(***************************************************************************)
(* cleanupChildProcess.                                                    *)
(***************************************************************************)
Frame == frames[Len(frames)]

FrameRuns(step) == ~Ended /\ frames # <<>> /\ Frame.at = step
FrameGoesTo(step) == frames' = [frames EXCEPT ![Len(frames)].at = step]
FrameReturns == frames' = SubSeq(frames, 1, Len(frames) - 1)

MutAfterBegin == IF created THEN "remove" ELSE "collect"

AfterBegin == IF handle THEN "collect" ELSE "remove"

\* The SIGINT for the child, which may be gone, or not be the program yet.
BeginCleanup ==
    /\ FrameRuns("begin")
    /\ \/ /\ handle /\ Frame.forward
          /\ Pend("parent")
       \/ /\ ~(handle /\ Frame.forward)
          /\ UNCHANGED <<child, pending>>
    /\ FrameGoesTo(AfterBegin)
    /\ UNCHANGED <<files, main, status, collector, recent, fromParent, interrupts, unsent>>

(***************************************************************************)
(* waitpid_timeout, of which a nested call may collect the child first.    *)
(***************************************************************************)
CollectChild ==
    /\ FrameRuns("collect")
    /\ child \in {"zombie", "reaped"}
    /\ child' = "reaped"
    /\ collector' = IF child = "zombie" THEN "cleanup" ELSE collector
    /\ FrameGoesTo("kill")
    /\ UNCHANGED <<files, main, status, sigint, unsent>>

GraceTimeElapses ==
    /\ FrameRuns("collect")
    /\ GraceTime /\ child \notin {"zombie", "reaped"}
    /\ FrameGoesTo("kill")
    /\ UNCHANGED <<files, main, process, sigint, unsent>>

MutKillChild ==
    /\ FrameRuns("kill")
    /\ FrameGoesTo("remove")
    /\ UNCHANGED <<files, main, process, sigint, unsent>>

\* The SIGKILL, which follows if the child was collected just the same.
KillChild ==
    /\ FrameRuns("kill")
    /\ \/ /\ GraceTime /\ ~Gone
          /\ child' = "zombie" /\ status' = "signaled"
       \/ /\ GraceTime => Gone
          /\ UNCHANGED <<child, status>>
    /\ FrameGoesTo("remove")
    /\ UNCHANGED <<files, main, collector, sigint, unsent>>

Present == {e \in Entries : disk[e] # "absent"}

(***************************************************************************)
(* removeDirectory uses stat, which follows symbolic links: it gives up at *)
(* one whose target it has removed already, and at an entry that the other *)
(* process has removed since it was listed.                                *)
(***************************************************************************)
Dangling(e) == e \in Links /\ disk[LinkTo[e]] = "absent"

RemoveEntry(e) == disk' = [disk EXCEPT ![e] = "absent"]

RemoveNext == \E e \in Present : ~Dangling(e) /\ RemoveEntry(e)
RemoveGivesUp == \E e \in Present : Dangling(e)

RemoveInFrame ==
    /\ FrameRuns("remove") /\ created
    /\ RemoveNext
    /\ UNCHANGED <<dir, knownDir, main, frames, process, sigint, unsent>>

FinishCleanup ==
    /\ FrameRuns("remove")
    /\ \/ /\ ~created
          /\ UNCHANGED dir
       \/ /\ created /\ (RemoveGivesUp \/ child = "removing")
          /\ UNCHANGED dir
       \/ /\ created /\ Present = {}
          /\ dir' = FALSE
    /\ FrameReturns
    /\ UNCHANGED <<disk, knownDir, main, process, sigint, unsent>>

\* The same in the child, which goes on to execv then.
RemoveInChild ==
    /\ child = "removing"
    /\ \/ /\ RemoveNext
          /\ UNCHANGED <<dir, child>>
       \/ /\ RemoveGivesUp \/ FrameRuns("remove")
          /\ child' = "starting"
          /\ UNCHANGED <<disk, dir>>
       \/ /\ Present = {}
          /\ dir' = FALSE /\ child' = "starting"
          /\ UNCHANGED disk
    /\ UNCHANGED <<knownDir, main, frames, status, collector, sigint, unsent>>

-----------------------------------------------------------------------------
(***************************************************************************)
(* The bootstrap is killed, and doOnefileParentMonitoring of the program   *)
(* finds that out: after a KeyboardInterrupt and the grace time it exits.  *)
(* "infinity" makes usleep wait for 71 minutes.                            *)
(***************************************************************************)
BootstrapKilled ==
    /\ Faults /\ ~Ended
    /\ at' = "killed" /\ frames' = <<>>
    /\ UNCHANGED <<files, next, created, handle, exitCode, process, sigint, unsent>>

MonitorExits ==
    /\ Ended /\ child = "running"
    /\ child' = "zombie" /\ status' = "error"
    /\ UNCHANGED <<files, main, frames, collector, sigint, unsent>>

(***************************************************************************)
(* The binary is started again, and in cached mode finds in the directory  *)
(* what the last bootstrap left there.                                     *)
(***************************************************************************)
Restart ==
    /\ Ended /\ Gone /\ ~Temporary
    /\ at' = "start" /\ next' = 1 /\ knownDir' = FALSE
    /\ handle' = FALSE /\ frames' = <<>> /\ exitCode' = 0
    /\ child' = "none" /\ status' = "none" /\ collector' = "nobody"
    /\ pending' = "none" /\ recent' = FALSE /\ fromParent' = FALSE
    /\ UNCHANGED <<disk, dir, created, interrupts, unsent>>

Terminated == Ended /\ Gone /\ UNCHANGED vars

BootstrapSteps ==
    \/ StartUnpack \/ SkipFile \/ UnpackLink \/ OpenFile \/ WriteFile \/ CloseFile
    \/ UnpackDone
    \/ Fork \/ RememberChild \/ WaitChild \/ Exit
    \/ BeginCleanup \/ CollectChild \/ GraceTimeElapses \/ KillChild
    \/ RemoveInFrame \/ FinishCleanup

ChildSteps == ChildExec \/ ChildSigint \/ RemoveInChild \/ MonitorExits

Next ==
    \/ BootstrapSteps \/ ChildSteps
    \/ WriteFails \/ ForkFails \/ BootstrapKilled
    \/ ChildExit \/ TimePasses
    \/ \E sig \in Signals, source \in {"terminal", "group", "targeted"} : Signal(sig, source)
    \/ Restart \/ Terminated

Spec == Init /\ [][Next]_vars

(***************************************************************************)
(* Both processes run.  The program need not end and may ignore a          *)
(* KeyboardInterrupt: there is no fairness for ChildExit, nor for faults   *)
(* and signals.                                                            *)
(***************************************************************************)
FairSpec == Spec /\ WF_vars(BootstrapSteps) /\ WF_vars(ChildSteps)

-----------------------------------------------------------------------------
(***************************************************************************)
(* Every variable has its type, and what is in the directory needs it.     *)
(***************************************************************************)
TypeOK ==
    /\ disk \in [Entries -> {"absent", "partial", "contents", "complete"}]
    /\ dir \in BOOLEAN /\ knownDir \in BOOLEAN /\ created \in BOOLEAN
    /\ at \in {"start", "unpack", "write", "close", "launch", "forked", "wait",
               "cleanup", "exit", "fatal", "killed"}
    /\ next \in 1..(Len(Payload) + 1)
    /\ handle \in BOOLEAN
    /\ frames \in Seq([sig : Signals \cup {"none"}, forward : BOOLEAN,
                       at : {"begin", "collect", "kill", "remove"}])
    /\ exitCode \in 0..2
    /\ child \in {"none", "starting", "removing", "running", "zombie", "reaped"}
    /\ status \in {"none", "ok", "error", "signaled"}
    /\ collector \in {"nobody", "main", "cleanup"}
    /\ pending \in {"none", "group", "parent"}
    /\ recent \in BOOLEAN /\ fromParent \in BOOLEAN
    /\ interrupts \in 0..Cardinality(Signals)
    /\ unsent \subseteq Signals

(***************************************************************************)
(* "temporary" mode "will make sure to remove the unpacked binaries after  *)
(* execution": also if signals had them removed once or more while main    *)
(* was still unpacking or the child was running.                           *)
(***************************************************************************)
PayloadRemoved == at = "exit" /\ Temporary => ~dir

(***************************************************************************)
(* The program does not lose its files: once the bootstrap knows about the *)
(* child, no cleanup, however it is interrupted by others, removes         *)
(* anything before the child has ended.                                    *)
(***************************************************************************)
FilesKept == [][handle /\ child = "running" => disk' = disk]_vars

(***************************************************************************)
(* In cached mode the program only starts with all its files complete,     *)
(* whatever a bootstrap that was killed or failed earlier has left there.  *)
(***************************************************************************)
StartsComplete ==
    ~Temporary /\ child = "running" => \A e \in Entries : disk[e] = "complete"

(***************************************************************************)
(* A signal is one KeyboardInterrupt at most, although the process group   *)
(* and the bootstrap may both deliver it, in any order.                    *)
(***************************************************************************)
OneInterrupt == interrupts <= Cardinality(Signals \ unsent)

(***************************************************************************)
(* A program that failed is not reported as a success, whether or not a    *)
(* signal interrupted the wait for it, unless the handler collected it.    *)
(***************************************************************************)
FailurePassedOn ==
    at = "exit" /\ status = "error" /\ collector = "main" => exitCode # 0

(***************************************************************************)
(* "This is the amount of time in ms, before the child is killed in a hard *)
(* way": a signal that the bootstrap gets once it has a child ends both of *)
(* them, if the program ignores KeyboardInterrupt, too.                    *)
(***************************************************************************)
SignalEnds == (handle /\ frames # <<>>) ~> (Ended /\ child # "running")

(***************************************************************************)
(* A program whose bootstrap was killed ends, too.                         *)
(***************************************************************************)
OrphanEnds == (at = "killed" /\ child = "running") ~> Gone

(***************************************************************************)
(* Neither process is left behind: both of these.                          *)
(***************************************************************************)
ProcessesEnd == SignalEnds /\ OrphanEnds
===============================================================================
