------------------------ MODULE OnefileBootstrapProofs ------------------------
(***************************************************************************)
(* Theorems about the bootstrap, for any payload, links, grace time and    *)
(* set of signals.                                                         *)
(***************************************************************************)
EXTENDS OnefileBootstrap, SequenceTheorems, FiniteSetTheorems, TLAPS

-----------------------------------------------------------------------------
(***************************************************************************)
(* The program keeps its files.  A frame that removes them, once the child *)
(* is known, has seen its end: frames that began before are gone by then,  *)
(* because main does not get to know the child while a frame is there.     *)
(***************************************************************************)
FrameType == [sig : Signals \cup {"none"}, forward : BOOLEAN,
              at : {"begin", "collect", "kill", "remove"}]

SeenEnd(frame) ==
    /\ frame.at = "remove" => Gone
    /\ frame.at = "kill" /\ ~GraceTime => Gone

KeepInv ==
    /\ frames \in Seq(FrameType)
    /\ handle \in BOOLEAN
    /\ handle => at \in {"wait", "cleanup", "exit", "killed"}
    /\ handle => \A i \in 1..Len(frames) : SeenEnd(frames[i])

LEMMA InitKeepInv == Init => KeepInv
BY EmptySeq DEF Init, KeepInv

(***************************************************************************)
(* What a move of the last frame does to the others: nothing.              *)
(***************************************************************************)
LEMMA FrameMoves ==
    ASSUME frames \in Seq(FrameType), frames # <<>>,
           NEW step \in {"begin", "collect", "kill", "remove"}, FrameGoesTo(step)
    PROVE  /\ frames' \in Seq(FrameType)
           /\ Len(frames') = Len(frames) /\ Len(frames) \in 1..Len(frames)
           /\ frames'[Len(frames)].at = step
           /\ \A i \in 1..Len(frames) : i # Len(frames) => frames'[i] = frames[i]
<1> DEFINE last == [frames[Len(frames)] EXCEPT !.at = step]
<1>1. Len(frames) \in 1..Len(frames)
  BY EmptySeq, LenProperties
<1>2. frames[Len(frames)] \in FrameType
  BY <1>1, ElementOfSeq
<1>3. last \in FrameType /\ last.at = step
  BY <1>2 DEF FrameType
<1>4. frames' = [frames EXCEPT ![Len(frames)] = last]
  BY DEF FrameGoesTo
<1> HIDE DEF last
<1> QED
  BY <1>1, <1>3, <1>4, ExceptSeq

(***************************************************************************)
(* A child that is gone stays so as long as its bootstrap knows it.        *)
(***************************************************************************)
LEMMA GoneStays ==
    ASSUME handle => at \in {"wait", "cleanup", "exit", "killed"}, [Next]_vars, handle'
    PROVE  Gone => Gone'
<1> SUFFICES ASSUME Gone PROVE Gone'
  OBVIOUS
<1> USE DEF Gone
<1>1. CASE BootstrapSteps
  BY <1>1 DEF BootstrapSteps, StartUnpack, SkipFile, UnpackLink, OpenFile, WriteFile,
       CloseFile, UnpackDone, Fork, RememberChild, WaitChild, Exit, BeginCleanup,
       CollectChild, GraceTimeElapses, KillChild, RemoveInFrame, FinishCleanup,
       MainRuns, process, main, Pend, InheritedHandler
<1>2. CASE ChildSteps
  BY <1>2 DEF ChildSteps, ChildExec, ChildSigint, RemoveInChild, MonitorExits, process
<1>3. CASE WriteFails \/ ForkFails \/ BootstrapKilled \/ ChildExit \/ TimePasses
  BY <1>3 DEF WriteFails, ForkFails, BootstrapKilled, ChildExit, TimePasses, process
<1>4. ASSUME NEW sig \in Signals, NEW source \in {"terminal", "group", "targeted"},
             Signal(sig, source)
      PROVE  Gone'
  BY <1>4 DEF Signal
<1>5. CASE Restart
  BY <1>5 DEF Restart
<1>6. CASE Terminated \/ UNCHANGED vars
  BY <1>6 DEF Terminated, vars, process
<1> QED
  BY <1>1, <1>2, <1>3, <1>4, <1>5, <1>6 DEF Next

LEMMA FramesStayKeepInv ==
    ASSUME KeepInv, [Next]_vars, UNCHANGED <<frames, handle>>,
           at' = at \/ ~handle \/ at' = "exit"
    PROVE  KeepInv'
<1>1. handle => (Gone => Gone')
  BY GoneStays DEF KeepInv
<1>2. handle => \A i \in 1..Len(frames) : SeenEnd(frames[i]) => SeenEnd(frames[i])'
  BY <1>1 DEF SeenEnd
<1> QED
  BY <1>2 DEF KeepInv

\* What a cleanup does that moves on with its own frame.
LEMMA FrameMovesKeepInv ==
    ASSUME KeepInv, [Next]_vars, frames # <<>>, UNCHANGED <<handle, at>>,
           NEW step \in {"begin", "collect", "kill", "remove"}, FrameGoesTo(step),
           handle /\ step = "remove" => Gone',
           handle /\ step = "kill" => GraceTime \/ Gone'
    PROVE  KeepInv'
<1>1. /\ frames' \in Seq(FrameType)
      /\ Len(frames') = Len(frames)
      /\ frames'[Len(frames)].at = step
      /\ \A i \in 1..Len(frames) : i # Len(frames) => frames'[i] = frames[i]
  BY FrameMoves DEF KeepInv
<1>2. handle => (Gone => Gone')
  BY GoneStays DEF KeepInv
<1>3. ASSUME handle, NEW i \in 1..Len(frames') PROVE SeenEnd(frames[i])'
  <2>1. CASE i = Len(frames)
    BY <1>1, <1>3, <2>1 DEF SeenEnd
  <2>2. CASE i # Len(frames)
    <3>1. SeenEnd(frames[i]) /\ frames'[i] = frames[i]
      BY <1>1, <1>3, <2>2 DEF KeepInv
    <3> QED
      BY <1>2, <1>3, <3>1 DEF SeenEnd
  <2> QED
    BY <2>1, <2>2
<1> QED
  BY <1>1, <1>3 DEF KeepInv

LEMMA OneFrame ==
    ASSUME NEW S, NEW e \in S, NEW s, s = <<e>>
    PROVE  s \in Seq(S) /\ \A i \in 1..Len(s) : s[i] = e
<1>1. <<e>> \in Seq(S) /\ Len(<<e>>) = 1 /\ <<e>>[1] = e
  OBVIOUS
<1>2. s \in Seq(S) /\ Len(s) = 1 /\ s[1] = e
  BY <1>1, Zenon
<1>3. \A i \in 1..1 : i = 1
  OBVIOUS
<1> QED
  BY <1>2, <1>3, Zenon

LEMMA CleanupStartsKeepInv ==
    ASSUME KeepInv, UNCHANGED handle, handle => at' = "cleanup",
           frames' = <<Cleanup("none", FALSE)>>
    PROVE  KeepInv'
<1>1. /\ Cleanup("none", FALSE) \in FrameType
      /\ Cleanup("none", FALSE).at \notin {"kill", "remove"}
  BY DEF Cleanup, FrameType
<1>2. /\ frames' \in Seq(FrameType)
      /\ \A i \in 1..Len(frames') : frames'[i] = Cleanup("none", FALSE)
  <2> DEFINE first == Cleanup("none", FALSE)
  <2>1. first \in FrameType /\ frames' = <<first>>
    BY <1>1
  <2> HIDE DEF first
  <2>2. frames' \in Seq(FrameType) /\ \A i \in 1..Len(frames') : frames'[i] = first
    BY <2>1, OneFrame
  <2> QED
    BY <2>2 DEF first
<1>3. ASSUME NEW i \in 1..Len(frames') PROVE SeenEnd(frames[i])'
  <2>1. frames'[i].at # "remove" /\ frames'[i].at # "kill"
    BY <1>1, <1>2, Zenon
  <2> QED
    BY <2>1, Zenon DEF SeenEnd
<1> QED
  BY <1>2, <1>3 DEF KeepInv

LEMMA FinishCleanupKeepInv == KeepInv /\ FinishCleanup => KeepInv'
<1> SUFFICES ASSUME KeepInv, FinishCleanup PROVE KeepInv'
  OBVIOUS
<1>1. /\ frames # <<>> /\ frames' = SubSeq(frames, 1, Len(frames) - 1)
      /\ UNCHANGED <<handle, at, child>>
  BY DEF FinishCleanup, FrameRuns, FrameReturns, main, process
<1>2. Len(frames) \in Nat \ {0}
  BY <1>1, EmptySeq DEF KeepInv
<1>3. \A i \in 1..(Len(frames) - 1) : frames[i] \in FrameType
  BY <1>2, ElementOfSeq DEF KeepInv
<1>4. /\ frames' \in Seq(FrameType)
      /\ \A i \in 1..Len(frames') : i \in 1..Len(frames) /\ frames'[i] = frames[i]
  <2>1. \A i \in 1..(Len(frames) - 1) : frames[1 + i - 1] = frames[i]
    OBVIOUS
  <2> QED
    BY <1>1, <1>2, <1>3, <2>1, SubSeqProperties
<1>5. ASSUME handle, NEW i \in 1..Len(frames') PROVE SeenEnd(frames[i])'
  BY <1>1, <1>4, <1>5 DEF KeepInv, SeenEnd, Gone
<1> QED
  BY <1>1, <1>4, <1>5 DEF KeepInv

LEMMA SignalKeepInv ==
    ASSUME KeepInv, NEW sig \in Signals, NEW source \in {"terminal", "group", "targeted"},
           Signal(sig, source)
    PROVE  KeepInv'
<1> DEFINE new == Cleanup(sig, Forwarded(source))
<1>1. frames' = Append(frames, new) /\ UNCHANGED <<handle, at>> /\ (Gone => Gone')
  BY DEF Signal, main, Gone
<1>2. new \in FrameType /\ new.at = "begin"
  BY DEF Cleanup, FrameType, Forwarded
<1> HIDE DEF new
<1>3. /\ frames' \in Seq(FrameType) /\ Len(frames') = Len(frames) + 1 /\ Len(frames) \in Nat
      /\ \A i \in 1..Len(frames) : frames'[i] = frames[i]
      /\ frames'[Len(frames) + 1] = new
  BY <1>1, <1>2, AppendProperties, LenProperties DEF KeepInv
<1>4. ASSUME handle, NEW i \in 1..Len(frames') PROVE SeenEnd(frames[i])'
  <2>1. CASE i \in 1..Len(frames)
    BY <1>1, <1>3, <1>4, <2>1 DEF KeepInv, SeenEnd
  <2>2. CASE i = Len(frames) + 1
    BY <1>2, <1>3, <2>2 DEF SeenEnd
  <2> QED
    BY <1>3, <2>1, <2>2
<1> QED
  BY <1>1, <1>3, <1>4 DEF KeepInv

LEMMA NextKeepInv == KeepInv /\ [Next]_vars => KeepInv'
<1> SUFFICES ASSUME KeepInv, [Next]_vars PROVE KeepInv'
  OBVIOUS
<1>1. CASE StartUnpack \/ SkipFile \/ UnpackLink \/ OpenFile \/ WriteFile \/ CloseFile
           \/ UnpackDone \/ Fork \/ Exit
  <2>1. UNCHANGED <<frames, handle>> /\ (~handle \/ at' = "exit")
    BY <1>1 DEF StartUnpack, SkipFile, UnpackLink, OpenFile, WriteFile, CloseFile,
         UnpackDone, Fork, Exit, MainRuns, KeepInv
  <2> QED
    BY <2>1, FramesStayKeepInv
<1>2. CASE RemoveInFrame \/ ChildSteps \/ WriteFails \/ ChildExit \/ TimePasses
           \/ Terminated \/ UNCHANGED vars
  <2>1. UNCHANGED <<frames, handle>> /\ (~handle \/ at' = at)
    BY <1>2 DEF RemoveInFrame, ChildSteps, ChildExec, ChildSigint, RemoveInChild,
         MonitorExits, WriteFails, ChildExit, TimePasses, Terminated, vars, main,
         MainRuns, KeepInv
  <2> QED
    BY <2>1, FramesStayKeepInv
<1>3. CASE RememberChild
  <2>1. /\ frames = <<>> /\ frames' = <<>> /\ handle' = TRUE /\ at' = "wait"
    BY <1>3 DEF RememberChild, MainRuns
  <2> QED
    BY <2>1, EmptySeq DEF KeepInv
<1>4. CASE WaitChild \/ ForkFails
  <2>1. /\ UNCHANGED handle /\ at' = "cleanup"
        /\ frames' = <<Cleanup("none", FALSE)>>
    BY <1>4 DEF WaitChild, ForkFails
  <2> QED
    BY <2>1, CleanupStartsKeepInv
<1>5. CASE BeginCleanup
  <2>1. /\ frames # <<>> /\ UNCHANGED <<handle, at>> /\ FrameGoesTo(AfterBegin)
        /\ AfterBegin \in {"collect", "remove"} /\ (handle => AfterBegin = "collect")
    BY <1>5 DEF BeginCleanup, FrameRuns, AfterBegin, main
  <2> QED
    BY <2>1, FrameMovesKeepInv
<1>6. CASE CollectChild
  <2>1. frames # <<>> /\ UNCHANGED <<handle, at>> /\ FrameGoesTo("kill") /\ Gone'
    BY <1>6 DEF CollectChild, FrameRuns, main, Gone
  <2> QED
    BY <2>1, FrameMovesKeepInv
<1>7. CASE GraceTimeElapses
  <2>1. frames # <<>> /\ UNCHANGED <<handle, at>> /\ FrameGoesTo("kill") /\ GraceTime
    BY <1>7 DEF GraceTimeElapses, FrameRuns, main
  <2> QED
    BY <2>1, FrameMovesKeepInv
<1>8. CASE KillChild
  <2>1. frames # <<>> /\ UNCHANGED <<handle, at>> /\ FrameGoesTo("remove")
    BY <1>8 DEF KillChild, FrameRuns, main
  <2>2. handle /\ ~GraceTime => Gone
    <3>1. Frame.at = "kill" /\ Len(frames) \in 1..Len(frames)
      BY <1>8, EmptySeq, LenProperties DEF KillChild, FrameRuns, KeepInv
    <3> QED
      BY <3>1 DEF Frame, KeepInv, SeenEnd
  <2>3. handle => Gone'
    BY <1>8, <2>2 DEF KillChild, Gone
  <2> QED
    BY <2>1, <2>3, FrameMovesKeepInv
<1>9. CASE FinishCleanup
  BY <1>9, FinishCleanupKeepInv
<1>10. ASSUME NEW sig \in Signals, NEW source \in {"terminal", "group", "targeted"},
              Signal(sig, source)
       PROVE  KeepInv'
  BY <1>10, SignalKeepInv
<1>11. CASE BootstrapKilled
  <2>1. frames' = <<>> /\ UNCHANGED handle /\ at' = "killed"
    BY <1>11 DEF BootstrapKilled
  <2> QED
    BY <2>1, EmptySeq DEF KeepInv
<1>12. CASE Restart
  <2>1. frames' = <<>> /\ handle' = FALSE
    BY <1>12 DEF Restart
  <2> QED
    BY <2>1, EmptySeq DEF KeepInv
<1> QED
  BY <1>1, <1>2, <1>3, <1>4, <1>5, <1>6, <1>7, <1>8, <1>9, <1>10, <1>11, <1>12
     DEF Next, BootstrapSteps

THEOREM KeepInvHolds == Spec => []KeepInv
<1> QED
  BY InitKeepInv, NextKeepInv, PTL DEF Spec

LEMMA StepKeepsFiles ==
    KeepInv /\ [Next]_vars => (handle /\ child = "running" => disk' = disk)
<1> SUFFICES ASSUME KeepInv, [Next]_vars, handle, child = "running" PROVE disk' = disk
  OBVIOUS
<1>1. at \notin {"start", "unpack", "write", "close", "launch"}
  BY DEF KeepInv
<1>2. CASE RemoveInFrame
  <2>1. Frame.at = "remove" /\ Len(frames) \in 1..Len(frames)
    BY <1>2, EmptySeq, LenProperties DEF RemoveInFrame, FrameRuns, KeepInv
  <2> QED
    BY <2>1 DEF Frame, KeepInv, SeenEnd, Gone
<1>3. CASE BootstrapSteps /\ ~RemoveInFrame
  BY <1>1, <1>3 DEF BootstrapSteps, StartUnpack, SkipFile, UnpackLink, OpenFile, WriteFile,
       CloseFile, UnpackDone, Fork, RememberChild, WaitChild, Exit, BeginCleanup,
       CollectChild, GraceTimeElapses, KillChild, FinishCleanup, MainRuns, files
<1>4. CASE ChildSteps
  BY <1>4 DEF ChildSteps, ChildExec, ChildSigint, RemoveInChild, MonitorExits, files
<1>5. CASE WriteFails \/ ForkFails \/ BootstrapKilled \/ ChildExit \/ TimePasses
  BY <1>1, <1>5 DEF WriteFails, ForkFails, BootstrapKilled, ChildExit, TimePasses,
       MainRuns, files
<1>6. ASSUME NEW sig \in Signals, NEW source \in {"terminal", "group", "targeted"},
             Signal(sig, source)
      PROVE  disk' = disk
  BY <1>6 DEF Signal, files
<1>7. CASE Restart \/ Terminated \/ UNCHANGED vars
  BY <1>7 DEF Restart, Terminated, vars, files
<1> QED
  BY <1>2, <1>3, <1>4, <1>5, <1>6, <1>7 DEF Next

(***************************************************************************)
(* No cleanup, whatever signals are nested in it and wherever the          *)
(* bootstrap is, removes a file of a running program that the bootstrap    *)
(* knows of.                                                               *)
(***************************************************************************)
THEOREM FilesKeptHolds == Spec => FilesKept
<1>1. KeepInv /\ [Next]_vars => [handle /\ child = "running" => disk' = disk]_vars
  BY StepKeepsFiles
<1> QED
  BY <1>1, KeepInvHolds, PTL DEF Spec, FilesKept

-----------------------------------------------------------------------------
(***************************************************************************)
(* Cached mode.  Nothing is ever removed, so what main has passed by stays *)
(* written, and a child is only there once main has passed by everything.  *)
(* The program may be there without being executable: then it cannot       *)
(* start.                                                                  *)
(***************************************************************************)
Good(e) == disk[e] = "complete" \/ (e = Program /\ disk[e] = "contents")

AllGood == \A e \in Entries : Good(e)

DiskInv ==
    /\ disk \in [Entries -> {"absent", "partial", "contents", "complete"}]
    /\ \A e \in Entries : disk[e] = "contents" => e = Program
    /\ next \in 1..(Len(Payload) + 1)

UnpackInv ==
    /\ at = "start" => next = 1
    /\ at \in {"unpack", "write", "close"} => \A i \in 1..(next - 1) : Good(Payload[i])
    /\ at \in {"write", "close"} =>
         next <= Len(Payload) /\ disk[Payload[next]] # "absent"
    /\ at \in {"launch", "forked", "wait", "cleanup", "exit"} => AllGood

ChildInv ==
    /\ ~created /\ child # "removing"
    /\ at \in {"start", "unpack", "write", "close", "launch", "fatal"} => child = "none"
    /\ child \in {"starting", "running"} => AllGood
    /\ child = "running" => disk[Program] = "complete"

CacheInv == DiskInv /\ UnpackInv /\ ChildInv

LEMMA PayloadFacts ==
    /\ Len(Payload) \in Nat \ {0}
    /\ \A i \in 1..Len(Payload) : Payload[i] \in Entries
    /\ \A e \in Entries : \E i \in 1..Len(Payload) : e = Payload[i]
    /\ \A i, j \in 1..Len(Payload) : Payload[i] = Payload[j] => i = j
    /\ Program \in Entries /\ Links \subseteq Entries /\ Program \notin Links
    /\ "EOF" \notin Entries
<1>1. Len(Payload) \in Nat \ {0} /\ DOMAIN Payload = 1..Len(Payload)
  BY PayloadAssumption, LenProperties
<1> QED
  BY <1>1, PayloadAssumption DEF Entries, Program

\* Where main is while it unpacks.
LEMMA UnpackedEntryFacts ==
    ASSUME DiskInv
    PROVE  /\ UnpackedEntry = "EOF" => next = Len(Payload) + 1
           /\ UnpackedEntry \in Entries =>
                next <= Len(Payload) /\ UnpackedEntry = Payload[next]
           /\ UnpackedEntry # "EOF" => UnpackedEntry \in Entries
BY PayloadFacts DEF DiskInv, UnpackedEntry

LEMMA InitCacheInv == ~Temporary /\ Init => CacheInv
BY PayloadFacts DEF Init, CacheInv, DiskInv, UnpackInv, ChildInv

(***************************************************************************)
(* A step that leaves the disk alone and does not start a child.           *)
(***************************************************************************)
LEMMA DiskStaysCacheInv ==
    ASSUME CacheInv, UNCHANGED <<disk, next, created>>,
           \/ at' = at
           \/ at' \in {"fatal", "killed"}
           \/ AllGood /\ at' \in {"launch", "forked", "wait", "cleanup", "exit"},
           child' \in {"starting", "running"} => AllGood,
           child' = "running" => child = "running" \/ disk[Program] = "complete",
           child' # "removing",
           at' \in {"start", "unpack", "write", "close", "launch", "fatal"} => child' = "none"
    PROVE  CacheInv'
<1>1. DiskInv'
  BY DEF CacheInv, DiskInv
<1>2. AllGood' = AllGood /\ \A e : Good(e)' = Good(e)
  BY DEF AllGood, Good
<1>3. UnpackInv'
  BY <1>2 DEF CacheInv, UnpackInv
<1>4. ChildInv'
  BY <1>2 DEF CacheInv, ChildInv
<1> QED
  BY <1>1, <1>3, <1>4 DEF CacheInv

(***************************************************************************)
(* A step of main that writes the next entry, or goes on to the one after. *)
(***************************************************************************)
LEMMA WriteCacheInv ==
    ASSUME CacheInv, UNCHANGED <<created, child>>,
           at \in {"unpack", "write", "close"}, at' \in {"unpack", "write", "close", "fatal"},
           next <= Len(Payload),
           NEW v \in {"absent", "partial", "contents", "complete"},
           disk' = [disk EXCEPT ![Payload[next]] = v],
           v = "contents" => Payload[next] = Program,
           \/ next' = next
           \/ next' = next + 1 /\ v \in {"contents", "complete"} /\ at' = "unpack",
           at' \in {"write", "close"} => v # "absent"
    PROVE  CacheInv'
<1>1. next \in 1..Len(Payload) /\ next' \in 1..(Len(Payload) + 1)
  BY PayloadFacts DEF CacheInv, DiskInv
<1>2. Payload[next] \in Entries
  BY <1>1, PayloadFacts
<1>3. DiskInv'
  BY <1>1, <1>2 DEF CacheInv, DiskInv
<1>4. \A i \in 1..(next - 1) : Payload[i] \in Entries /\ Payload[i] # Payload[next]
  BY <1>1, PayloadFacts
<1>5. \A i \in 1..(next - 1) : Good(Payload[i])'
  BY <1>4 DEF CacheInv, DiskInv, UnpackInv, Good
<1>6. \A i \in 1..(next' - 1) : Good(Payload[i])'
  <2>1. CASE next' = next
    BY <1>5, <2>1
  <2>2. CASE next' = next + 1 /\ v \in {"contents", "complete"}
    <3>1. disk'[Payload[next]] = v
      BY <1>2 DEF CacheInv, DiskInv
    <3>2. \A i \in 1..(next' - 1) : i = next \/ i \in 1..(next - 1)
      BY <1>1, <2>2
    <3> QED
      BY <1>5, <2>2, <3>1, <3>2 DEF Good
  <2> QED
    BY <2>1, <2>2
<1>7. at' \in {"write", "close"} => next' = next /\ disk'[Payload[next]] # "absent"
  BY <1>2 DEF CacheInv, DiskInv
<1>8. UnpackInv'
  BY <1>1, <1>6, <1>7 DEF UnpackInv
<1>9. ChildInv'
  BY DEF CacheInv, ChildInv
<1> QED
  BY <1>3, <1>8, <1>9 DEF CacheInv

LEMMA UnpackingCacheInv ==
    ASSUME ~Temporary, CacheInv,
           SkipFile \/ UnpackLink \/ OpenFile \/ WriteFile \/ CloseFile \/ WriteFails
    PROVE  CacheInv'
<1>1. /\ DiskInv /\ child \notin {"starting", "running"} /\ UNCHANGED <<created, child>>
      /\ at \in {"unpack", "write", "close"}
  <2>1. at \in {"unpack", "write", "close"} => child = "none"
    BY DEF CacheInv, ChildInv
  <2>2. at \in {"unpack", "write", "close"} /\ UNCHANGED <<created, child>>
    BY DEF SkipFile, UnpackLink, OpenFile, WriteFile, CloseFile, WriteFails, MainRuns, process
  <2> QED
    BY <2>1, <2>2 DEF CacheInv
<1> DEFINE e == UnpackedEntry
<1>2. CASE at = "unpack" /\ e \notin Entries
  BY <1>1, <1>2, UnpackedEntryFacts, PayloadFacts
     DEF SkipFile, UnpackLink, OpenFile, WriteFile, CloseFile, WriteFails, MainRuns
<1>3. CASE at # "unpack" \/ e \in Entries
  <2>1. next <= Len(Payload) /\ e = Payload[next] /\ e \in Entries
    <3>1. CASE at # "unpack"
      <4>1. next <= Len(Payload) /\ next \in 1..Len(Payload)
        BY <1>1, <3>1, PayloadFacts DEF CacheInv, UnpackInv, DiskInv
      <4> QED
        BY <4>1, PayloadFacts DEF UnpackedEntry
    <3> QED
      BY <1>1, <1>3, <3>1, UnpackedEntryFacts
  <2>2. disk[e] \in {"absent", "partial", "contents", "complete"}
    BY <1>1, <2>1 DEF DiskInv
  <2>3. disk = [disk EXCEPT ![e] = disk[e]]
    BY <1>1 DEF DiskInv
  <2>4. disk[e] = "contents" => e = Program
    BY <1>1, <2>1 DEF DiskInv
  <2>5. at \in {"write", "close"} => disk[e] # "absent"
    BY <2>1 DEF CacheInv, UnpackInv
  <2> HIDE DEF e
  <2>6. CASE SkipFile
    <3>1. /\ disk' = disk /\ next' = next + 1 /\ at' = "unpack"
          /\ disk[e] \in {"contents", "complete"}
      BY <2>6 DEF SkipFile, UpToDate, files, MainRuns, e
    <3> QED
      BY <1>1, <2>1, <2>2, <2>3, <2>4, <3>1, WriteCacheInv
  <2>7. CASE UnpackLink
    <3>1. \/ /\ disk' = [disk EXCEPT ![e] = "complete"] /\ next' = next + 1
             /\ at' = "unpack"
          \/ disk' = disk /\ next' = next /\ at' = "fatal"
      BY <2>7 DEF UnpackLink, MainRuns, e
    <3> QED
      BY <1>1, <2>1, <2>2, <2>3, <2>4, <3>1, WriteCacheInv
  <2>8. CASE OpenFile
    <3>1. \/ /\ disk' = [disk EXCEPT ![e] = "partial"] /\ next' = next /\ at' = "write"
          \/ disk' = disk /\ next' = next /\ at' = "fatal"
      BY <2>8 DEF OpenFile, e
    <3> QED
      BY <1>1, <2>1, <2>2, <2>3, <2>4, <3>1, WriteCacheInv
  <2>9. CASE WriteFile
    <3>1. \/ disk' = [disk EXCEPT ![e] = Written(e)]
          \/ disk' = disk
      BY <2>9 DEF WriteFile, e
    <3>2. at = "write" /\ next' = next /\ at' = "close"
      BY <2>9 DEF WriteFile, MainRuns
    <3>3. Written(e) \in {"contents", "complete"} /\ (Written(e) = "contents" => e = Program)
      BY DEF Written
    <3> QED
      BY <1>1, <2>1, <2>2, <2>3, <2>4, <2>5, <3>1, <3>2, <3>3, WriteCacheInv
  <2>10. CASE CloseFile
    <3>1. /\ at = "close" /\ at' = "unpack" /\ next' = next + 1
          /\ disk' = [disk EXCEPT ![e] = IF disk[e] = "absent" THEN disk[e] ELSE "complete"]
      BY <2>10 DEF CloseFile, MainRuns, e
    <3>2. disk' = [disk EXCEPT ![e] = "complete"]
      BY <2>5, <3>1
    <3> QED
      BY <1>1, <2>1, <3>1, <3>2, WriteCacheInv
  <2>11. CASE WriteFails
    <3>1. /\ at' = "fatal" /\ next' = next
          /\ \/ disk' = disk
             \/ disk' = [disk EXCEPT ![e] = IF disk[e] = "contents" THEN "complete" ELSE disk[e]]
      BY <2>11 DEF WriteFails, e
    <3>2. disk' = disk \/ disk' = [disk EXCEPT ![e] = "complete"]
      BY <2>3, <3>1
    <3> QED
      BY <1>1, <2>1, <2>2, <2>3, <2>4, <3>1, <3>2, WriteCacheInv
  <2> QED
    BY <2>6, <2>7, <2>8, <2>9, <2>10, <2>11
<1> QED
  BY <1>2, <1>3

LEMMA UnpackDoneIsGood == ASSUME CacheInv, UnpackDone PROVE AllGood
<1>1. next = Len(Payload) + 1
  BY UnpackedEntryFacts DEF UnpackDone, CacheInv
<1>2. \A i \in 1..Len(Payload) : Good(Payload[i])
  BY <1>1, PayloadFacts DEF UnpackDone, MainRuns, CacheInv, UnpackInv
<1> QED
  BY <1>2, PayloadFacts DEF AllGood

LEMMA NextCacheInv == ~Temporary /\ CacheInv /\ [Next]_vars => CacheInv'
<1> SUFFICES ASSUME ~Temporary, CacheInv, [Next]_vars PROVE CacheInv'
  OBVIOUS
<1> USE DEF ChildInv
<1>1. /\ ~created /\ child # "removing"
      /\ at \in {"launch", "forked", "wait", "cleanup", "exit"} => AllGood
      /\ child \in {"starting", "running"} => AllGood
  BY DEF CacheInv, UnpackInv
<1>2. CASE StartUnpack
  <2>1. /\ at = "start" /\ at' = "unpack" /\ UNCHANGED <<disk, next, child>>
        /\ ~created'
    BY <1>2 DEF StartUnpack, MainRuns, files, process
  <2>2. DiskInv' /\ ChildInv'
    BY <2>1 DEF CacheInv, DiskInv
  <2>3. \A i \in 1..(next' - 1) : Good(Payload[i])'
    BY <2>1 DEF CacheInv, DiskInv, UnpackInv
  <2> QED
    BY <2>1, <2>2, <2>3 DEF CacheInv, UnpackInv
<1>3. CASE SkipFile \/ UnpackLink \/ OpenFile \/ WriteFile \/ CloseFile \/ WriteFails
  BY <1>3, UnpackingCacheInv
<1>4. CASE UnpackDone
  <2>1. /\ at = "unpack" /\ at' = "launch" /\ UNCHANGED <<disk, next, created, child>>
    BY <1>4 DEF UnpackDone, MainRuns, files, process
  <2>2. child = "none"
    BY <2>1 DEF CacheInv
  <2> QED
    BY <1>4, <2>1, <2>2, UnpackDoneIsGood, DiskStaysCacheInv
<1>5. CASE Fork \/ RememberChild \/ WaitChild \/ Exit \/ ForkFails
  <2>1. /\ UNCHANGED <<disk, next, created>>
        /\ at \in {"launch", "forked", "wait", "cleanup"}
        /\ at' \in {"forked", "wait", "cleanup", "exit"}
        /\ child' = child \/ child' \in {"starting", "reaped"}
    BY <1>5 DEF Fork, RememberChild, WaitChild, Exit, ForkFails, MainRuns, files, process
  <2> QED
    BY <1>1, <2>1, DiskStaysCacheInv
<1>6. CASE BeginCleanup \/ CollectChild \/ GraceTimeElapses \/ KillChild \/ FinishCleanup
           \/ TimePasses \/ Terminated \/ UNCHANGED vars
  <2>1. /\ UNCHANGED <<disk, next, created, at>>
        /\ child' = child \/ (child # "none" /\ child' \in {"zombie", "reaped"})
    BY <1>1, <1>6 DEF BeginCleanup, CollectChild, GraceTimeElapses, KillChild, FinishCleanup,
         TimePasses, Terminated, vars, files, main, process, Gone, Pend, InheritedHandler
  <2> QED
    BY <1>1, <2>1, DiskStaysCacheInv DEF CacheInv
<1>7. CASE RemoveInFrame \/ RemoveInChild
  BY <1>1, <1>7 DEF RemoveInFrame, RemoveInChild
<1>8. CASE ChildExec \/ ChildSigint \/ MonitorExits \/ ChildExit
  <2>1. /\ UNCHANGED <<disk, next, created, at>>
        /\ \/ child' = child
           \/ child # "none" /\ child' = "zombie"
           \/ child = "starting" /\ child' = "running" /\ disk[Program] = "complete"
    BY <1>8 DEF ChildExec, ChildSigint, MonitorExits, ChildExit, files, main, process
  <2> QED
    BY <1>1, <2>1, DiskStaysCacheInv DEF CacheInv
<1>9. ASSUME NEW sig \in Signals, NEW source \in {"terminal", "group", "targeted"},
             Signal(sig, source)
      PROVE  CacheInv'
  <2>1. /\ UNCHANGED <<disk, next, created, at>>
        /\ child' = child \/ (child = "running" /\ child' = "zombie")
    BY <1>1, <1>9 DEF Signal, files, main, Pend, InheritedHandler
  <2> QED
    BY <1>1, <2>1, DiskStaysCacheInv DEF CacheInv
<1>10. CASE BootstrapKilled
  <2>1. UNCHANGED <<disk, next, created, child>> /\ at' = "killed"
    BY <1>10 DEF BootstrapKilled, files, process
  <2> QED
    BY <1>1, <2>1, DiskStaysCacheInv DEF CacheInv
<1>11. CASE Restart
  <2>1. at' = "start" /\ next' = 1 /\ child' = "none" /\ UNCHANGED <<disk, created>>
    BY <1>11 DEF Restart
  <2> QED
    BY <1>1, <2>1, PayloadFacts DEF CacheInv, DiskInv, UnpackInv
<1> QED
  BY <1>2, <1>3, <1>4, <1>5, <1>6, <1>7, <1>8, <1>9, <1>10, <1>11
     DEF Next, BootstrapSteps, ChildSteps

THEOREM CacheInvHolds == ~Temporary => (Spec => []CacheInv)
<1> SUFFICES ASSUME ~Temporary PROVE Spec => []CacheInv
  OBVIOUS
<1>1. Init => CacheInv
  BY InitCacheInv
<1>2. CacheInv /\ [Next]_vars => CacheInv'
  BY NextCacheInv
<1> QED
  BY <1>1, <1>2, PTL DEF Spec

(***************************************************************************)
(* The program starts with all of its files complete only, after any       *)
(* number of bootstraps that were killed, failed or got signals.           *)
(***************************************************************************)
THEOREM StartsCompleteHolds == Spec => []StartsComplete
<1>1. CASE Temporary
  <2>1. StartsComplete
    BY <1>1 DEF StartsComplete
  <2> QED
    BY <2>1, PTL
<1>2. CASE ~Temporary
  <2>1. CacheInv => StartsComplete
    BY PayloadFacts DEF CacheInv, DiskInv, ChildInv, AllGood, Good, StartsComplete
  <2> QED
    BY <1>2, <2>1, CacheInvHolds, PTL
<1> QED
  BY <1>1, <1>2
-----------------------------------------------------------------------------
(***************************************************************************)
(* One KeyboardInterrupt per signal.  What is still to come counts as one  *)
(* interrupt at most: SIGINTs that are pending are merged, and as long as  *)
(* a frame has its SIGINT to send, no time passes, so that what it sends   *)
(* after an interrupt is dropped.                                          *)
(***************************************************************************)
ToSend == \E i \in 1..Len(frames) : frames[i].at = "begin" /\ frames[i].forward

Coming ==
    \/ pending # "none" /\ ~Duplicate
    \/ pending = "none" /\ ~recent /\ ToSend

InterruptInv ==
    /\ frames \in Seq(FrameType)
    /\ interrupts \in Nat /\ unsent \subseteq Signals
    /\ interrupts <= Cardinality(Signals \ unsent)
    /\ Coming => interrupts + 1 <= Cardinality(Signals \ unsent)

LEMMA SignalsFinite ==
    /\ IsFiniteSet(Signals)
    /\ \A S \in SUBSET Signals : IsFiniteSet(S) /\ Cardinality(S) \in Nat
                                   /\ Cardinality(S) <= Cardinality(Signals)
<1>1. IsFiniteSet({"SIGINT", "SIGQUIT", "SIGTERM"})
  <2>1. IsFiniteSet({}) /\ IsFiniteSet({} \cup {"SIGINT"})
    BY FS_EmptySet, FS_AddElement
  <2>2. IsFiniteSet(({} \cup {"SIGINT"}) \cup {"SIGQUIT"})
    BY <2>1, FS_AddElement
  <2>3. IsFiniteSet((({} \cup {"SIGINT"}) \cup {"SIGQUIT"}) \cup {"SIGTERM"})
    BY <2>2, FS_AddElement
  <2>4. (({} \cup {"SIGINT"}) \cup {"SIGQUIT"}) \cup {"SIGTERM"}
          = {"SIGINT", "SIGQUIT", "SIGTERM"}
    OBVIOUS
  <2> QED
    BY <2>3, <2>4
<1>2. IsFiniteSet(Signals)
  BY <1>1, OptionsAssumption, FS_Subset
<1> QED
  BY <1>2, FS_Subset, FS_CardinalityType

LEMMA InitInterruptInv == Init => InterruptInv
<1> SUFFICES ASSUME Init PROVE InterruptInv
  OBVIOUS
<1>1. Signals \ unsent = {} /\ frames = <<>> /\ interrupts = 0 /\ pending = "none"
  BY DEF Init
<1>2. frames \in Seq(FrameType) /\ Len(frames) = 0
  BY <1>1, EmptySeq
<1>3. ~ToSend
  BY <1>2 DEF ToSend
<1> QED
  BY <1>1, <1>2, <1>3, FS_EmptySet DEF Init, InterruptInv, Coming

\* A step with no signal, and that gives no frame anything to send.
LEMMA SameSignalsInterruptInv ==
    ASSUME InterruptInv, UNCHANGED <<interrupts, unsent>>,
           frames' \in Seq(FrameType), Coming' => Coming
    PROVE  InterruptInv'
BY DEF InterruptInv

LEMMA FrameMovesInterruptInv ==
    ASSUME InterruptInv, frames # <<>>, UNCHANGED <<interrupts, unsent, recent, fromParent>>,
           NEW step \in {"collect", "kill", "remove"}, FrameGoesTo(step),
           \/ pending' = pending
           \/ pending = "none" /\ pending' = "parent" /\ Frame.at = "begin" /\ Frame.forward
    PROVE  InterruptInv'
<1>1. /\ frames' \in Seq(FrameType)
      /\ Len(frames') = Len(frames) /\ Len(frames) \in 1..Len(frames)
      /\ frames'[Len(frames)].at = step
      /\ \A i \in 1..Len(frames) : i # Len(frames) => frames'[i] = frames[i]
  BY FrameMoves DEF InterruptInv
<1>2. ToSend' => ToSend
  BY <1>1 DEF ToSend
<1>3. Frame.at = "begin" /\ Frame.forward => ToSend
  BY <1>1 DEF ToSend, Frame
<1>4. Coming' => Coming
  BY <1>2, <1>3 DEF Coming, Duplicate
<1> QED
  BY <1>1, <1>4, SameSignalsInterruptInv

LEMMA SignalInterruptInv ==
    ASSUME InterruptInv, NEW sig \in Signals,
           NEW source \in {"terminal", "group", "targeted"}, Signal(sig, source)
    PROVE  InterruptInv'
<1>1. sig \in unsent /\ unsent' = unsent \ {sig} /\ interrupts' = interrupts
  BY DEF Signal
<1>2. frames' \in Seq(FrameType)
  <2>1. Cleanup(sig, Forwarded(source)) \in FrameType
    BY DEF Cleanup, FrameType, Forwarded
  <2> QED
    BY <2>1, AppendProperties DEF Signal, InterruptInv
<1>3. Signals \ unsent' = (Signals \ unsent) \cup {sig} /\ sig \notin Signals \ unsent
  BY <1>1
<1>4. IsFiniteSet(Signals \ unsent) /\ Cardinality(Signals \ unsent) \in Nat
  BY SignalsFinite
<1>5. Cardinality(Signals \ unsent') = Cardinality(Signals \ unsent) + 1
  BY <1>3, <1>4, FS_AddElement
<1> QED
  BY <1>1, <1>2, <1>4, <1>5 DEF InterruptInv

LEMMA NextInterruptInv == InterruptInv /\ KeepInv' /\ [Next]_vars => InterruptInv'
<1> SUFFICES ASSUME InterruptInv, KeepInv', [Next]_vars PROVE InterruptInv'
  OBVIOUS
<1> USE DEF sigint
<1>0. frames' \in Seq(FrameType)
  BY DEF KeepInv
<1>1. CASE StartUnpack \/ SkipFile \/ UnpackLink \/ OpenFile \/ WriteFile \/ CloseFile
           \/ UnpackDone \/ Fork \/ RememberChild \/ Exit \/ RemoveInFrame \/ ChildExec
           \/ RemoveInChild \/ MonitorExits \/ WriteFails \/ ChildExit \/ Terminated
           \/ UNCHANGED vars
  <2>1. UNCHANGED <<frames, sigint, unsent>>
    BY <1>1 DEF StartUnpack, SkipFile, UnpackLink, OpenFile, WriteFile, CloseFile,
         UnpackDone, Fork, RememberChild, Exit, RemoveInFrame, ChildExec, RemoveInChild,
         MonitorExits, WriteFails, ChildExit, Terminated, vars
  <2>2. Coming' => Coming
    BY <2>1 DEF Coming, Duplicate, ToSend
  <2> QED
    BY <1>0, <2>1, <2>2, SameSignalsInterruptInv
<1>2. CASE WaitChild \/ ForkFails
  <2>1. /\ UNCHANGED <<sigint, unsent>> /\ frames' = <<Cleanup("none", FALSE)>>
    BY <1>2 DEF WaitChild, ForkFails
  <2>2. ~ToSend'
    <3> DEFINE first == Cleanup("none", FALSE)
    <3>1. first \in FrameType /\ ~first.forward
      BY DEF Cleanup, FrameType
    <3>2. frames' = <<first>>
      BY <2>1
    <3> HIDE DEF first
    <3>3. \A i \in 1..Len(frames') : frames'[i] = first
      BY <3>1, <3>2, OneFrame
    <3> QED
      BY <3>1, <3>3 DEF ToSend
  <2>3. Coming' => Coming
    BY <2>1, <2>2 DEF Coming, Duplicate
  <2> QED
    BY <1>0, <2>1, <2>3, SameSignalsInterruptInv
<1>3. CASE BeginCleanup
  <2>1. /\ frames # <<>> /\ UNCHANGED <<interrupts, unsent, recent, fromParent>>
        /\ FrameGoesTo(AfterBegin) /\ AfterBegin \in {"collect", "kill", "remove"}
    BY <1>3 DEF BeginCleanup, FrameRuns, AfterBegin
  <2>2. \/ pending' = pending
        \/ pending = "none" /\ pending' = "parent" /\ Frame.at = "begin" /\ Frame.forward
    BY <1>3 DEF BeginCleanup, FrameRuns, Pend
  <2> HIDE DEF AfterBegin
  <2> QED
    BY <2>1, <2>2, FrameMovesInterruptInv
<1>4. CASE CollectChild \/ GraceTimeElapses \/ KillChild
  <2>1. /\ frames # <<>> /\ UNCHANGED <<sigint, unsent>>
        /\ FrameGoesTo("kill") \/ FrameGoesTo("remove")
    BY <1>4 DEF CollectChild, GraceTimeElapses, KillChild, FrameRuns
  <2> QED
    BY <2>1, FrameMovesInterruptInv
<1>5. CASE FinishCleanup
  <2>1. /\ frames # <<>> /\ frames' = SubSeq(frames, 1, Len(frames) - 1)
        /\ UNCHANGED <<sigint, unsent>>
    BY <1>5 DEF FinishCleanup, FrameRuns, FrameReturns
  <2>2. Len(frames) \in Nat \ {0}
    BY <2>1, EmptySeq DEF InterruptInv
  <2>3. \A i \in 1..(Len(frames) - 1) : frames[i] \in FrameType /\ frames[1 + i - 1] = frames[i]
    BY <2>2, ElementOfSeq DEF InterruptInv
  <2>4. \A i \in 1..Len(frames') : i \in 1..Len(frames) /\ frames'[i] = frames[i]
    BY <2>1, <2>2, <2>3, SubSeqProperties
  <2>5. Coming' => Coming
    BY <2>1, <2>4 DEF Coming, Duplicate, ToSend
  <2> QED
    BY <1>0, <2>1, <2>5, SameSignalsInterruptInv
<1>6. CASE ChildSigint
  <2>1. /\ UNCHANGED <<frames, unsent>> /\ pending # "none" /\ pending' = "none" /\ recent'
        /\ \/ Duplicate /\ interrupts' = interrupts
           \/ ~Duplicate /\ interrupts' = interrupts + 1
    BY <1>6 DEF ChildSigint, Duplicate
  <2>2. ~Coming' /\ (~Duplicate => Coming)
    BY <2>1 DEF Coming
  <2> QED
    BY <2>1, <2>2 DEF InterruptInv
<1>7. CASE TimePasses
  <2>1. /\ UNCHANGED <<frames, unsent, interrupts, pending>> /\ pending = "none"
        /\ \A i \in DOMAIN frames : frames[i].at # "begin"
    BY <1>7 DEF TimePasses
  <2>2. ~ToSend'
    BY <2>1, LenProperties DEF ToSend, InterruptInv
  <2>3. ~Coming'
    BY <2>1, <2>2 DEF Coming
  <2> QED
    BY <1>0, <2>1, <2>3, SameSignalsInterruptInv
<1>8. ASSUME NEW sig \in Signals, NEW source \in {"terminal", "group", "targeted"},
             Signal(sig, source)
      PROVE  InterruptInv'
  BY <1>8, SignalInterruptInv
<1>9. CASE BootstrapKilled \/ Restart
  <2>1. /\ frames' = <<>> /\ UNCHANGED <<interrupts, unsent>>
        /\ \/ UNCHANGED sigint
           \/ pending' = "none"
    BY <1>9 DEF BootstrapKilled, Restart
  <2>2. ~ToSend'
    BY <2>1, EmptySeq DEF ToSend
  <2>3. Coming' => Coming
    BY <2>1, <2>2 DEF Coming, Duplicate
  <2> QED
    BY <1>0, <2>1, <2>3, SameSignalsInterruptInv
<1> QED
  BY <1>1, <1>2, <1>3, <1>4, <1>5, <1>6, <1>7, <1>8, <1>9
     DEF Next, BootstrapSteps, ChildSteps

THEOREM InterruptInvHolds == Spec => []InterruptInv
BY InitInterruptInv, NextInterruptInv, KeepInvHolds, PTL DEF Spec

\* A signal is one KeyboardInterrupt at most: ChildSigint against Signal,
\* BeginCleanup and TimePasses in any order, over restarts, too.
THEOREM OneInterruptHolds == Spec => []OneInterrupt
<1>1. InterruptInv => OneInterrupt
  BY DEF InterruptInv, OneInterrupt
<1> QED
  BY <1>1, InterruptInvHolds, PTL
-----------------------------------------------------------------------------
(***************************************************************************)
(* Types.  KeepInv and InterruptInv have those of frames and interrupts.   *)
(***************************************************************************)
MainType ==
    /\ at \in {"start", "unpack", "write", "close", "launch", "forked", "wait",
               "cleanup", "exit", "fatal", "killed"}
    /\ next \in 1..(Len(Payload) + 1)
    /\ at \in {"write", "close"} => next <= Len(Payload)
    /\ exitCode \in 0..2

StateInv ==
    /\ MainType
    /\ disk \in [Entries -> {"absent", "partial", "contents", "complete"}]
    /\ dir \in BOOLEAN /\ knownDir \in BOOLEAN /\ created \in BOOLEAN
    /\ child \in {"none", "starting", "removing", "running", "zombie", "reaped"}
    /\ status \in {"none", "ok", "error", "signaled"}
    /\ collector \in {"nobody", "main", "cleanup"}
    /\ pending \in {"none", "group", "parent"}
    /\ recent \in BOOLEAN /\ fromParent \in BOOLEAN

LEMMA InitStateInv == Init => StateInv
<1>1. 1 \in 1..(Len(Payload) + 1)
  BY PayloadFacts
<1>2. Init => MainType
  BY <1>1 DEF Init, MainType
<1> QED
  BY <1>2 DEF Init, StateInv

\* An entry that gets another state on the disk.
LEMMA EntryChanges ==
    ASSUME disk \in [Entries -> {"absent", "partial", "contents", "complete"}],
           NEW e, NEW v \in {"absent", "partial", "contents", "complete"},
           disk' = [disk EXCEPT ![e] = v]
    PROVE  disk' \in [Entries -> {"absent", "partial", "contents", "complete"}]
OBVIOUS

LEMMA NextStateInv == StateInv /\ [Next]_vars => StateInv'
<1> SUFFICES ASSUME StateInv, [Next]_vars PROVE StateInv'
  OBVIOUS
<1> USE DEF files, process, sigint, main, MainRuns
<1>2. /\ at = "unpack" /\ UnpackedEntry # "EOF" => next <= Len(Payload)
      /\ next \in Nat /\ Len(Payload) \in Nat
      /\ next <= Len(Payload) => next + 1 \in 1..(Len(Payload) + 1)
  BY PayloadFacts DEF StateInv, MainType, UnpackedEntry
<1>3. CASE StartUnpack \/ UnpackDone \/ Fork \/ ForkFails \/ RememberChild \/ WaitChild \/ Exit
  <2>1. /\ UNCHANGED <<files, next, status, sigint>>
        /\ at' \in {"unpack", "launch", "forked", "wait", "cleanup", "exit"}
        /\ created' = created \/ created' = Temporary
        /\ exitCode' = exitCode \/ exitCode' \in 0..2
        /\ child' = child \/ child' \in {"starting", "reaped"}
        /\ collector' = collector \/ collector' = "main"
    <3>1. CASE WaitChild
      BY <3>1 DEF WaitChild, ExitStatus
    <3>2. CASE StartUnpack
      <4>1. created' = Temporary
        BY <3>2, Zenon DEF StartUnpack
      <4>2. /\ UNCHANGED <<files, next, status, sigint, exitCode, child, collector>>
            /\ at' = "unpack"
        BY <3>2 DEF StartUnpack
      <4> QED
        BY <4>1, <4>2, Zenon
    <3>3. CASE UnpackDone
      BY <3>3 DEF UnpackDone
    <3>4. CASE Fork
      BY <3>4 DEF Fork
    <3>5. CASE ForkFails
      BY <3>5 DEF ForkFails
    <3>6. CASE RememberChild \/ Exit
      BY <3>6 DEF RememberChild, Exit
    <3> QED
      BY <1>3, <3>1, <3>2, <3>3, <3>4, <3>5, <3>6
  <2>2. at' \notin {"write", "close"} /\ next' = next
    BY <2>1
  <2>3. exitCode \in 0..2 => exitCode' \in 0..2
    BY <2>1
  <2>4. MainType'
    BY <2>1, <2>2, <2>3 DEF StateInv, MainType
  <2> QED
    BY <2>1, <2>4, OptionsAssumption DEF StateInv
<1>4. CASE SkipFile
  BY <1>2, <1>4 DEF StateInv, MainType, SkipFile
<1>5. CASE UnpackLink
  <2>1. UnpackedEntry # "EOF"
    BY <1>5, PayloadFacts DEF UnpackLink
  <2>2. disk' \in [Entries -> {"absent", "partial", "contents", "complete"}]
    BY <1>5, EntryChanges DEF UnpackLink, StateInv
  <2> QED
    BY <1>2, <1>5, <2>1, <2>2 DEF StateInv, MainType, UnpackLink, CreateContainingDirectory
<1>6. CASE OpenFile
  <2>1. UnpackedEntry # "EOF"
    BY <1>6, PayloadFacts DEF OpenFile
  <2>2. disk' \in [Entries -> {"absent", "partial", "contents", "complete"}]
    BY <1>6, EntryChanges DEF OpenFile, StateInv
  <2> QED
    BY <1>2, <1>6, <2>1, <2>2 DEF StateInv, MainType, OpenFile, CreateContainingDirectory
<1>7. CASE WriteFile
  <2>1. disk' \in [Entries -> {"absent", "partial", "contents", "complete"}]
    BY <1>7, EntryChanges DEF WriteFile, StateInv, Written
  <2> QED
    BY <1>2, <1>7, <2>1 DEF StateInv, MainType, WriteFile
<1>8. CASE CloseFile \/ WriteFails
  <2>1. disk' \in [Entries -> {"absent", "partial", "contents", "complete"}]
    BY <1>8 DEF CloseFile, WriteFails, StateInv
  <2> QED
    BY <1>2, <1>8, <2>1 DEF StateInv, MainType, CloseFile, WriteFails
<1>9. CASE BeginCleanup \/ CollectChild \/ GraceTimeElapses \/ KillChild
  BY <1>9 DEF StateInv, MainType, BeginCleanup, CollectChild, GraceTimeElapses, KillChild, Pend,
     InheritedHandler
<1>10. CASE RemoveInFrame \/ FinishCleanup \/ RemoveInChild
  <2>1. disk' \in [Entries -> {"absent", "partial", "contents", "complete"}]
    BY <1>10, EntryChanges DEF RemoveInFrame, FinishCleanup, RemoveInChild, RemoveNext,
       RemoveEntry, StateInv
  <2>2. /\ UNCHANGED <<knownDir, main, status, collector, sigint>>
        /\ dir' = dir \/ dir' = FALSE
        /\ child' = child \/ child' = "starting"
    BY <1>10 DEF RemoveInFrame, FinishCleanup, RemoveInChild
  <2>3. MainType'
    BY <2>2 DEF StateInv, MainType
  <2>4. dir' \in BOOLEAN /\ knownDir' \in BOOLEAN /\ created' \in BOOLEAN
    BY <2>2, Zenon DEF StateInv
  <2>5. recent' \in BOOLEAN /\ fromParent' \in BOOLEAN
    BY <2>2, Zenon DEF StateInv
  <2> QED
    BY <2>1, <2>2, <2>3, <2>4, <2>5 DEF StateInv
<1>11. CASE ChildExec \/ ChildSigint \/ MonitorExits \/ ChildExit \/ TimePasses
  <2>1. /\ UNCHANGED <<files, main, collector>>
        /\ child' = child \/ child' \in {"running", "zombie"}
        /\ status' = status \/ status' \in {"ok", "error", "signaled"}
        /\ pending' = pending \/ pending' = "none"
        /\ recent' = recent \/ recent' \in BOOLEAN
        /\ fromParent' = fromParent \/ fromParent' \in BOOLEAN
    BY <1>11 DEF ChildExec, ChildSigint, MonitorExits, ChildExit, TimePasses
  <2>2. at' = at /\ next' = next /\ exitCode' = exitCode
    BY <2>1
  <2>3. MainType'
    BY <2>2 DEF StateInv, MainType
  <2> QED
    BY <2>1, <2>3 DEF StateInv
<1>12. CASE BootstrapKilled \/ Terminated \/ UNCHANGED vars
  BY <1>12 DEF StateInv, MainType, BootstrapKilled, Terminated, vars
<1>13. ASSUME NEW sig \in Signals, NEW source \in {"terminal", "group", "targeted"},
              Signal(sig, source)
       PROVE  StateInv'
  BY <1>13 DEF StateInv, MainType, Signal, Pend, InheritedHandler
<1>14. CASE Restart
  <2>1. 1 \in 1..(Len(Payload) + 1)
    BY <1>2
  <2>2. MainType'
    BY <1>14, <2>1 DEF Restart, MainType
  <2> QED
    BY <1>14, <2>2 DEF StateInv, Restart
<1> QED
  BY <1>3, <1>4, <1>5, <1>6, <1>7, <1>8, <1>9, <1>10, <1>11, <1>12, <1>13, <1>14
     DEF Next, BootstrapSteps, ChildSteps

\* Every variable has its type.
THEOREM TypeCorrect == Spec => []TypeOK
<1>1. StateInv /\ KeepInv /\ InterruptInv => TypeOK
  <2> SUFFICES ASSUME StateInv, KeepInv, InterruptInv PROVE TypeOK
    OBVIOUS
  <2>1. /\ Cardinality(Signals) \in Nat
        /\ Cardinality(Signals \ unsent) \in Nat
        /\ Cardinality(Signals \ unsent) <= Cardinality(Signals)
    BY SignalsFinite
  <2>2. interrupts \in 0..Cardinality(Signals)
    BY <2>1 DEF InterruptInv
  <2> QED
    BY <2>2 DEF StateInv, MainType, KeepInv, InterruptInv, FrameType, TypeOK
<1>2. Spec => []StateInv
  BY InitStateInv, NextStateInv, PTL DEF Spec
<1> QED
  BY <1>1, <1>2, KeepInvHolds, InterruptInvHolds, PTL

-----------------------------------------------------------------------------
(***************************************************************************)
(* The exit code.  What main has of the child is final: the child is       *)
(* collected, and no cleanup changes its status or the exit code then.     *)
(***************************************************************************)
Unpacking == {"start", "unpack", "write", "close", "launch"}

ExitInv ==
    /\ at \in Unpacking => child = "none"
    /\ collector = "main" => /\ at \in {"cleanup", "exit", "killed"}
                             /\ child = "reaped"
                             /\ status = "error" => exitCode # 0

LEMMA InitExitInv == Init => ExitInv
BY DEF Init, ExitInv

LEMMA NextExitInv == ExitInv /\ [Next]_vars => ExitInv'
<1> SUFFICES ASSUME ExitInv, [Next]_vars PROVE ExitInv'
  OBVIOUS
<1> USE DEF files, process, sigint, main, MainRuns, ExitInv, Unpacking
<1>1. CASE StartUnpack \/ SkipFile \/ UnpackLink \/ OpenFile \/ WriteFile \/ CloseFile
           \/ UnpackDone \/ WriteFails
  BY <1>1 DEF StartUnpack, SkipFile, UnpackLink, OpenFile, WriteFile, CloseFile, UnpackDone,
     WriteFails
<1>2. CASE Fork \/ ForkFails \/ RememberChild \/ Exit
  BY <1>2 DEF Fork, ForkFails, RememberChild, Exit
<1>7. CASE WaitChild
  BY <1>7 DEF WaitChild, ExitStatus
<1>3. CASE BeginCleanup \/ CollectChild \/ GraceTimeElapses \/ KillChild \/ RemoveInFrame
           \/ FinishCleanup
  BY <1>3 DEF BeginCleanup, CollectChild, GraceTimeElapses, KillChild, RemoveInFrame,
     FinishCleanup, Gone, Pend, InheritedHandler
<1>4. CASE ChildSteps \/ ChildExit \/ TimePasses
  BY <1>4 DEF ChildSteps, ChildExec, ChildSigint, RemoveInChild, MonitorExits, ChildExit,
     TimePasses
<1>5. ASSUME NEW sig \in Signals, NEW source \in {"terminal", "group", "targeted"},
             Signal(sig, source)
      PROVE  ExitInv'
  BY <1>5 DEF Signal
<1>6. CASE BootstrapKilled \/ Restart \/ Terminated \/ UNCHANGED vars
  BY <1>6 DEF BootstrapKilled, Restart, Terminated, vars
<1> QED
  BY <1>1, <1>2, <1>3, <1>4, <1>5, <1>6, <1>7 DEF Next, BootstrapSteps

THEOREM ExitInvHolds == Spec => []ExitInv
BY InitExitInv, NextExitInv, PTL DEF Spec

\* A program that failed is no success of the bootstrap, whatever interrupted
\* its waitpid.
THEOREM FailurePassedOnHolds == Spec => []FailurePassedOn
<1>1. ExitInv => FailurePassedOn
  BY DEF ExitInv, FailurePassedOn
<1> QED
  BY <1>1, ExitInvHolds, PTL

-----------------------------------------------------------------------------
(***************************************************************************)
(* The temporary payload.  Once main cleans up, nobody unpacks any more,   *)
(* and there is no child that could remove files as well: so each cleanup  *)
(* that returns has removed everything, and the first one of these is      *)
(* enough.  A symbolic link whose target is removed first defeats that.    *)
(***************************************************************************)
RemovedInv ==
    /\ at \in (Unpacking \ {"start"}) \cup {"forked", "wait", "cleanup", "exit"} => created
    /\ at \in {"cleanup", "exit"} => child \in {"none", "reaped"}
    /\ at = "cleanup" => frames # <<>> \/ ~dir
    /\ at = "exit" => ~dir

LEMMA InitRemovedInv == Init => RemovedInv
BY DEF Init, RemovedInv, Unpacking

LEMMA NextRemovedInv ==
    ASSUME Temporary, Links = {}, ExitInv, KeepInv, RemovedInv, [Next]_vars
    PROVE  RemovedInv'
<1> USE DEF files, process, main, MainRuns, RemovedInv, Unpacking
<1>1. CASE StartUnpack \/ SkipFile \/ UnpackLink \/ OpenFile \/ WriteFile \/ CloseFile
           \/ UnpackDone \/ WriteFails \/ Fork \/ RememberChild
  BY <1>1 DEF StartUnpack, SkipFile, UnpackLink, OpenFile, WriteFile, CloseFile, UnpackDone,
     WriteFails, Fork, RememberChild
<1>2. CASE WaitChild \/ ForkFails
  <2>1. /\ at' = "cleanup" /\ UNCHANGED created /\ created
        /\ child' \in {"none", "reaped"} /\ frames' = <<Cleanup("none", FALSE)>>
    BY <1>2 DEF WaitChild, ForkFails, ExitInv
  <2>2. <<Cleanup("none", FALSE)>> # <<>>
    OBVIOUS
  <2> QED
    BY <2>1, <2>2
<1>3. CASE Exit
  BY <1>3 DEF Exit
<1>4. CASE BeginCleanup \/ CollectChild \/ GraceTimeElapses \/ KillChild
  <2>1. /\ frames # <<>> /\ UNCHANGED <<at, created, dir>>
        /\ \E step \in {"collect", "kill", "remove"} : FrameGoesTo(step)
        /\ at # "exit"
        /\ child \in {"none", "reaped"} => child' = child
    BY <1>4 DEF BeginCleanup, CollectChild, GraceTimeElapses, KillChild, FrameRuns,
       AfterBegin, Gone, Ended, Pend, InheritedHandler
  <2>2. Len(frames') = Len(frames) /\ Len(frames) # 0
    BY <2>1, FrameMoves, EmptySeq DEF KeepInv
  <2>3. frames' # <<>>
    BY <2>2, EmptySeq
  <2> QED
    BY <2>1, <2>3
<1>5. CASE RemoveInFrame \/ ChildSteps \/ ChildExit \/ TimePasses \/ Terminated
           \/ UNCHANGED vars
  BY <1>5 DEF RemoveInFrame, ChildSteps, ChildExec, ChildSigint, RemoveInChild, MonitorExits,
     ChildExit, TimePasses, Terminated, vars
<1>6. CASE FinishCleanup
  <2>1. /\ UNCHANGED <<at, created, child>> /\ at # "exit"
        /\ \/ ~created
           \/ RemoveGivesUp \/ child = "removing"
           \/ dir' = FALSE
    BY <1>6 DEF FinishCleanup, FrameRuns, Ended
  <2>2. ~RemoveGivesUp
    BY DEF RemoveGivesUp, Dangling
  <2> QED
    BY <2>1, <2>2
<1>7. ASSUME NEW sig \in Signals, NEW source \in {"terminal", "group", "targeted"},
             Signal(sig, source)
      PROVE  RemovedInv'
  <2>1. /\ UNCHANGED <<at, created, dir>> /\ at # "exit"
        /\ child \in {"none", "reaped"} => child' = child
        /\ frames' = Append(frames, Cleanup(sig, Forwarded(source)))
    BY <1>7 DEF Signal, Ended
  <2>2. frames' # <<>>
    <3> DEFINE new == Cleanup(sig, Forwarded(source))
    <3>1. new \in FrameType
      BY DEF Cleanup, FrameType, Forwarded
    <3> HIDE DEF new
    <3>2. Len(Append(frames, new)) = Len(frames) + 1 /\ Len(frames) \in Nat
      BY <3>1, AppendProperties, LenProperties DEF KeepInv
    <3>3. frames' = Append(frames, new)
      BY <2>1 DEF new
    <3> QED
      BY <3>2, <3>3, EmptySeq
  <2> QED
    BY <2>1, <2>2
<1>8. CASE BootstrapKilled
  BY <1>8 DEF BootstrapKilled
<1>9. CASE Restart
  BY <1>9 DEF Restart
<1> QED
  BY <1>1, <1>2, <1>3, <1>4, <1>5, <1>6, <1>7, <1>8, <1>9 DEF Next, BootstrapSteps

\* A temporary payload with no symbolic links is gone when the bootstrap exits,
\* however many cleanups there were, at whatever time.
THEOREM PayloadRemovedHolds == Links = {} => (Spec => []PayloadRemoved)
<1> SUFFICES ASSUME Links = {} PROVE Spec => []PayloadRemoved
  OBVIOUS
<1>1. CASE Temporary
  <2>1. Init => RemovedInv
    BY InitRemovedInv
  <2>2. ExitInv /\ KeepInv /\ RemovedInv /\ [Next]_vars => RemovedInv'
    BY <1>1, NextRemovedInv
  <2>3. RemovedInv => PayloadRemoved
    BY DEF RemovedInv, PayloadRemoved
  <2> QED
    BY <2>1, <2>2, <2>3, ExitInvHolds, KeepInvHolds, PTL DEF Spec
<1>2. CASE ~Temporary
  <2>1. PayloadRemoved
    BY <1>2 DEF PayloadRemoved
  <2> QED
    BY <2>1, PTL
<1> QED
  BY <1>1, <1>2
===============================================================================
