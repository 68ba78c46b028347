--------------------------- MODULE RuntimeProofs ---------------------------
(***************************************************************************)
(* Proofs about Runtime, for any pipe, buffer and line cap, and any bytes. *)
(***************************************************************************)
EXTENDS Runtime, SequenceTheorems, FiniteSetTheorems, TLAPS

LEMMA MainCases ==
    ASSUME Main
    PROVE  \/ Spawn \/ DropCommand \/ InstallForwarder \/ StartReader
           \/ CollectLine \/ JoinReader \/ Wait \/ StopWatcher \/ JoinWatcher
           \/ Filter \/ WriteOut
BY DEF Main

(* Everything that may happen, by name. *)
LEMMA NextCases ==
    ASSUME [Next]_vars
    PROVE  \/ Spawn \/ DropCommand \/ InstallForwarder \/ StartReader
           \/ CollectLine \/ JoinReader \/ Wait \/ StopWatcher \/ JoinWatcher
           \/ Filter \/ WriteOut
           \/ Fill \/ TakeLine \/ Eof \/ ReadError
           \/ Poll \/ Kill \/ Fork
           \/ \E p \in Procs : Write(p) \/ Exits(p) \/ BrokenPipe(p)
           \/ \E s \in Signals : Interrupt(s)
           \/ UNCHANGED vars
BY Zenon DEF Next, Main, Reader, Watcher, Process

-----------------------------------------------------------------------------
(***************************************************************************)
(* Types.                                                                  *)
(***************************************************************************)
LEMMA LineOfType ==
    ASSUME NEW bytes \in Seq(Bytes)
    PROVE  LineOf(bytes) \in Line
<1> DEFINE m == IF Len(bytes) > LineCap THEN LineCap ELSE Len(bytes)
           t == SubSeq(bytes, 1, m)
<1>1. m \in Nat /\ m <= Len(bytes)
  BY RuntimeAssumption
<1> HIDE DEF m
<1>2. t \in Seq(Bytes)
  BY <1>1, SubSeqProperties
<1> HIDE DEF t
<1>3. SubSeq(t, 1, Len(t) - 1) \in Seq(Bytes)
  BY <1>2, SubSeqProperties
<1> QED
  BY <1>2, <1>3 DEF LineOf, Line, t, m

LEMMA SentType ==
    ASSUME RuntimeTypeOK, NEW bytes \in Seq(Bytes), Send(bytes)
    PROVE  count' \in Nat /\ chan' \in Seq(Line)
BY LineOfType DEF RuntimeTypeOK, Send

(* The types of the bytes under way, and of everything else. *)
StreamOK ==
    /\ todo \in [Procs -> Seq(Bytes \cup {SLEEP})]
    /\ pipe \in Seq(Bytes) /\ Len(pipe) <= PipeSize
    /\ inbuf \in Seq(Bytes) /\ Len(inbuf) <= BufSize
    /\ buf \in Seq(Bytes)
    /\ count \in Nat
    /\ chan \in Seq(Line) /\ raw \in Seq(Line)
    /\ written \in Seq(Bytes)

ControlOK ==
    /\ rule \in [matched : BOOLEAN, onError : BOOLEAN]
    /\ main \in {"start", "spawned", "dropped", "guarded", "collect", "wait",
                 "stop", "join", "filter", "write"} \cup Ended
    /\ proc \in [Procs -> {"none", "alive", "zombie", "gone"}]
    /\ status \in [sig : BOOLEAN, n : Nat]
    /\ command \in BOOLEAN
    /\ reader \in {"none", "reading", "closed", "failed"}
    /\ watcher \in {"none", "poll", "kill", "end"}
    /\ stop \in BOOLEAN
    /\ pending \subseteq Signals
    /\ branch \in {"none", "success", "on_error", "raw"}
    /\ exit \in Nat
    /\ sent \in Nat
    /\ delivered \subseteq Signals
    /\ lateKill \in BOOLEAN

moving == <<todo, pipe, inbuf, buf, count, chan, raw, written>>

LEMMA TypeParts == RuntimeTypeOK <=> StreamOK /\ ControlOK
BY Zenon DEF RuntimeTypeOK, StreamOK, ControlOK

LEMMA BytesStay == ASSUME StreamOK, UNCHANGED moving PROVE StreamOK'
BY DEF StreamOK, moving

LEMMA TypeInit == Init => RuntimeTypeOK
<1> SUFFICES ASSUME Init PROVE StreamOK /\ ControlOK
  BY TypeParts
<1>1. todo \in [Procs -> Seq(Bytes \cup {SLEEP})]
  <2>1. PICK c \in Plans, h \in HeirPlans :
           todo = [p \in Procs |-> IF p = "child" THEN c ELSE h]
    BY DEF Init
  <2>2. Plans \cup HeirPlans \subseteq Seq(Bytes \cup {SLEEP})
    BY RuntimeAssumption DEF Bytes
  <2> QED
    BY <2>1, <2>2
<1>2. <<>> \in Seq(Bytes) /\ <<>> \in Seq(Line) /\ Len(<<>>) = 0
  OBVIOUS
<1>3. 0 <= PipeSize /\ 0 <= BufSize
  BY RuntimeAssumption
<1>4. StreamOK
  BY <1>1, <1>2, <1>3 DEF Init, StreamOK
<1>5. ControlOK
  <2>1. /\ status \in [sig : BOOLEAN, n : Nat] /\ exit \in Nat
        /\ proc \in [Procs -> {"none", "alive", "zombie", "gone"}]
    BY DEF Init, Running, NoExit
  <2>2. /\ command \in BOOLEAN /\ stop \in BOOLEAN /\ lateKill \in BOOLEAN
        /\ pending \subseteq Signals /\ delivered \subseteq Signals /\ sent \in Nat
    BY DEF Init
  <2> QED
    BY <2>1, <2>2 DEF Init, ControlOK
<1> QED
  BY <1>4, <1>5

LEMMA ExitCodeType == ASSUME RuntimeTypeOK PROVE ExitCode(status) \in Nat
BY DEF RuntimeTypeOK, ExitCode

(* What a queue of bytes becomes when some are taken off its front. *)
LEMMA Taken ==
    ASSUME NEW s \in Seq(Bytes), NEW n \in 1..Len(s)
    PROVE  /\ SubSeq(s, 1, n) \in Seq(Bytes) /\ Len(SubSeq(s, 1, n)) = n
           /\ \A i \in 1..n : SubSeq(s, 1, n)[i] = s[i]
           /\ SubSeq(s, n + 1, Len(s)) \in Seq(Bytes)
           /\ Len(SubSeq(s, n + 1, Len(s))) = Len(s) - n
           /\ \A i \in 1..(Len(s) - n) : SubSeq(s, n + 1, Len(s))[i] = s[n + i]
<1>1. Len(s) \in Nat /\ \A i \in 1..Len(s) : s[i] \in Bytes
  OBVIOUS
<1>2. /\ SubSeq(s, 1, n) \in Seq(Bytes) /\ Len(SubSeq(s, 1, n)) = n
      /\ \A i \in 1..n : SubSeq(s, 1, n)[i] = s[i]
  <2>1. \A i \in 1..n : s[i] \in Bytes
    BY <1>1
  <2> QED
    BY <1>1, <2>1, SubSeqProperties, Z3
<1>3. /\ SubSeq(s, n + 1, Len(s)) \in Seq(Bytes)
      /\ Len(SubSeq(s, n + 1, Len(s))) = Len(s) - n
      /\ \A i \in 1..(Len(s) - n) : SubSeq(s, n + 1, Len(s))[i] = s[n + i]
  <2>1. \A i \in (n + 1)..Len(s) : s[i] \in Bytes
    BY <1>1
  <2> QED
    BY <1>1, <2>1, SubSeqProperties, Z3
<1> QED
  BY <1>2, <1>3

LEMMA ControlStep == ASSUME RuntimeTypeOK, [Next]_vars PROVE ControlOK'
<1> ControlOK
  BY TypeParts
<1> USE DEF ControlOK, world, stream, signal, result, Finish, Ended, Procs
<1>1. CASE Spawn
  BY <1>1 DEF Spawn
<1>2. CASE DropCommand \/ InstallForwarder \/ StartReader \/ JoinReader
           \/ StopWatcher \/ JoinWatcher \/ CollectLine
  <2>1. CASE DropCommand
    <3>1. /\ command' \in BOOLEAN /\ main' = "dropped" /\ stop' = stop
          /\ rule' = rule /\ proc' = proc /\ status' = status /\ reader' = reader
          /\ watcher' = watcher /\ pending' = pending /\ branch' = branch
          /\ exit' = exit /\ sent' = sent /\ delivered' = delivered
          /\ lateKill' = lateKill
      BY <2>1, Zenon DEF DropCommand
    <3> QED
      BY ONLY ControlOK, <3>1 DEF ControlOK, Ended
  <2>2. CASE InstallForwarder
    BY <2>2 DEF InstallForwarder
  <2>3. CASE StartReader
    BY <2>3 DEF StartReader
  <2>4. CASE JoinReader
    BY <2>4 DEF JoinReader
  <2>5. CASE StopWatcher
    BY <2>5 DEF StopWatcher
  <2>6. CASE JoinWatcher
    BY <2>6 DEF JoinWatcher
  <2>7. CASE CollectLine
    BY <2>7 DEF CollectLine
  <2> QED
    BY <1>2, <2>1, <2>2, <2>3, <2>4, <2>5, <2>6, <2>7
<1>3. CASE Wait
  BY <1>3, ExitCodeType DEF Wait
<1>4. CASE Filter \/ WriteOut
  BY <1>4, ExitCodeType DEF Filter, WriteOut
<1>5. CASE Fill \/ TakeLine \/ Eof \/ ReadError \/ Poll
  BY <1>5 DEF Fill, TakeLine, Eof, ReadError, Poll
<1>6. CASE Kill
  <2>1. pending \subseteq Nat
    BY RuntimeAssumption
  <2>2. status' \in [sig : BOOLEAN, n : Nat]
    <3>1. status' = status \/ \E s \in pending : status' = [sig |-> TRUE, n |-> s]
      BY <1>6 DEF Kill
    <3>2. status \in [sig : BOOLEAN, n : Nat]
      OBVIOUS
    <3>3. ASSUME NEW s \in pending
          PROVE  [sig |-> TRUE, n |-> s] \in [sig : BOOLEAN, n : Nat]
      BY <2>1
    <3> QED
      BY <3>1, <3>2, <3>3, Zenon
  <2>3. /\ lateKill' \in BOOLEAN /\ pending' = {} /\ watcher' = "poll"
        /\ delivered' \subseteq Signals
        /\ proc' \in [Procs -> {"none", "alive", "zombie", "gone"}]
    BY <1>6 DEF Kill
  <2> QED
    BY <1>6, <2>2, <2>3 DEF Kill
<1>7. CASE Fork
  BY <1>7 DEF Fork
<1>8. ASSUME NEW p \in Procs, Write(p) PROVE ControlOK'
  BY <1>8 DEF Write
<1>9. ASSUME NEW p \in Procs, Exits(p) \/ BrokenPipe(p) PROVE ControlOK'
  <2>1. PICK st \in [sig : BOOLEAN, n : Nat] : Ends(p, st)
    <3>1. CASE Exits(p)
      <4>1. PICK c \in Codes : Ends(p, [sig |-> FALSE, n |-> c])
        BY <3>1 DEF Exits
      <4>2. c \in Nat
        BY RuntimeAssumption
      <4> QED
        BY <4>1, <4>2
    <3>2. CASE BrokenPipe(p)
      BY <3>2 DEF BrokenPipe, SIGPIPE
    <3> QED
      BY <1>9, <3>1, <3>2
  <2> QED
    BY <2>1 DEF Ends
<1>10. ASSUME NEW s \in Signals, Interrupt(s) PROVE ControlOK'
  <2>1. sent' = sent + 1 /\ (pending' = pending \/ pending' = pending \cup {s})
    BY <1>10 DEF Interrupt
  <2>2. /\ main' \in {main, "killed"}
        /\ UNCHANGED <<rule, proc, status, reader, watcher, stop, branch, exit,
                       delivered, lateKill>>
    BY <1>10, Zenon DEF Interrupt
  <2>3. command' \in BOOLEAN
    BY <1>10, Zenon DEF Interrupt
  <2>4. sent' \in Nat /\ pending' \subseteq Signals
    BY <2>1
  <2> QED
    BY <2>2, <2>3, <2>4
<1>11. CASE UNCHANGED vars
  BY <1>11 DEF vars
<1> QED
  BY NextCases, <1>1, <1>2, <1>3, <1>4, <1>5, <1>6, <1>7, <1>8, <1>9, <1>10, <1>11

(* Only these move bytes. *)
LEMMA BytesMove ==
    ASSUME [Next]_vars
    PROVE  \/ UNCHANGED moving
           \/ CollectLine \/ Fill \/ TakeLine \/ Eof
           \/ \E p \in Procs : Write(p)
<1> USE DEF moving, world, stream, signal, result
<1>1. CASE Spawn \/ DropCommand \/ InstallForwarder \/ StartReader \/ JoinReader
           \/ Wait \/ StopWatcher \/ JoinWatcher \/ Filter \/ WriteOut
  BY <1>1 DEF Spawn, DropCommand, InstallForwarder, StartReader, JoinReader,
              Wait, StopWatcher, JoinWatcher, Filter, WriteOut
<1>2. CASE ReadError \/ Poll \/ Kill \/ Fork
  BY <1>2 DEF ReadError, Poll, Kill, Fork
<1>3. ASSUME NEW p \in Procs, Exits(p) \/ BrokenPipe(p) PROVE UNCHANGED moving
  BY <1>3 DEF Exits, BrokenPipe, Ends
<1>4. ASSUME NEW s \in Signals, Interrupt(s) PROVE UNCHANGED moving
  BY <1>4 DEF Interrupt
<1>5. CASE UNCHANGED vars
  BY <1>5 DEF vars
<1> QED
  BY NextCases, <1>1, <1>2, <1>3, <1>4, <1>5

LEMMA StreamStep == ASSUME RuntimeTypeOK, [Next]_vars PROVE StreamOK'
<1> StreamOK
  BY TypeParts
<1> USE DEF StreamOK
<1>1. CASE UNCHANGED moving
  BY <1>1, BytesStay
<1>2. CASE CollectLine
  <2>1. raw' \in Seq(Line) /\ chan' \in Seq(Line)
    BY <1>2 DEF CollectLine
  <2> QED
    BY <1>2, <2>1 DEF CollectLine, world
<1>3. CASE Fill
  <2>1. PICK n \in 1..Len(pipe) : /\ n <= BufSize
                                  /\ inbuf' = SubSeq(pipe, 1, n)
                                  /\ pipe' = SubSeq(pipe, n + 1, Len(pipe))
    BY <1>3 DEF Fill
  <2>2. /\ inbuf' \in Seq(Bytes) /\ Len(inbuf') = n
        /\ pipe' \in Seq(Bytes) /\ Len(pipe') = Len(pipe) - n
    BY <2>1, Taken
  <2>3. Len(pipe') <= PipeSize
    <3>1. Len(pipe) \in Nat /\ n \in Nat /\ PipeSize \in Nat
      BY RuntimeAssumption
    <3> QED
      BY <2>2, <3>1
  <2> QED
    BY <1>3, <2>1, <2>2, <2>3 DEF Fill, world
<1>4. CASE TakeLine
  <2>1. CASE \E n \in 1..Len(inbuf) :
                /\ Send(buf \o SubSeq(inbuf, 1, n))
                /\ inbuf' = SubSeq(inbuf, n + 1, Len(inbuf))
                /\ buf' = <<>>
    <3>1. PICK n \in 1..Len(inbuf) :
                /\ Send(buf \o SubSeq(inbuf, 1, n))
                /\ inbuf' = SubSeq(inbuf, n + 1, Len(inbuf))
                /\ buf' = <<>>
      BY <2>1
    <3>2. /\ SubSeq(inbuf, 1, n) \in Seq(Bytes)
          /\ inbuf' \in Seq(Bytes) /\ Len(inbuf') = Len(inbuf) - n
      BY <3>1, Taken
    <3>3. buf \o SubSeq(inbuf, 1, n) \in Seq(Bytes)
      BY <3>2
    <3>4. count' \in Nat /\ chan' \in Seq(Line)
      BY <3>1, <3>3, SentType
    <3>5. buf' \in Seq(Bytes)
      BY <3>1
    <3>6. Len(inbuf') <= BufSize
      <4>1. Len(inbuf) \in Nat /\ n \in Nat /\ BufSize \in Nat
        BY RuntimeAssumption
      <4> QED
        BY <3>2, <4>1
    <3> QED
      BY <1>4, <3>2, <3>4, <3>5, <3>6 DEF TakeLine, world
  <2>2. CASE buf' = buf \o inbuf /\ inbuf' = <<>> /\ UNCHANGED <<count, chan>>
    <3>1. buf' \in Seq(Bytes) /\ inbuf' \in Seq(Bytes) /\ Len(inbuf') = 0
      BY <2>2
    <3>2. Len(inbuf') <= BufSize
      BY <3>1, RuntimeAssumption
    <3> QED
      BY <1>4, <2>2, <3>1, <3>2 DEF TakeLine, world
  <2> QED
    BY <1>4, <2>1, <2>2 DEF TakeLine
<1>5. CASE Eof
  <2>1. count' \in Nat /\ chan' \in Seq(Line) /\ buf' \in Seq(Bytes)
    BY <1>5, SentType DEF Eof
  <2> QED
    BY <1>5, <2>1 DEF Eof, world
<1>6. ASSUME NEW p \in Procs, Write(p) PROVE StreamOK'
  <2>1. todo[p] \in Seq(Bytes \cup {SLEEP}) /\ todo[p] # <<>>
    BY <1>6 DEF Write
  <2>2. Tail(todo[p]) \in Seq(Bytes \cup {SLEEP}) /\ Head(todo[p]) \in Bytes
    BY <1>6, <2>1 DEF Write
  <2>3. todo' \in [Procs -> Seq(Bytes \cup {SLEEP})]
    BY <1>6, <2>2 DEF Write
  <2>4. pipe' \in Seq(Bytes) /\ written' \in Seq(Bytes) /\ Len(pipe') = Len(pipe) + 1
    BY <1>6, <2>2 DEF Write
  <2>5. Len(pipe') <= PipeSize
    <3>1. Len(pipe) \in Nat /\ PipeSize \in Nat /\ Len(pipe) < PipeSize
      BY <1>6, RuntimeAssumption DEF Write
    <3> QED
      BY <2>4, <3>1
  <2> QED
    BY <1>6, <2>3, <2>4, <2>5 DEF Write
<1> QED
  BY BytesMove, <1>1, <1>2, <1>3, <1>4, <1>5, <1>6

(* Every variable of a run keeps its type, and neither the pipe nor the buffer
   holds more than it can, for any plan of bytes and any signals. *)
THEOREM RuntimeTypeCorrect == Spec => []RuntimeTypeOK
<1>1. Init => RuntimeTypeOK
  BY TypeInit
<1>2. RuntimeTypeOK /\ [Next]_vars => RuntimeTypeOK'
  <2> SUFFICES ASSUME RuntimeTypeOK, [Next]_vars PROVE RuntimeTypeOK'
    OBVIOUS
  <2>1. StreamOK' /\ ControlOK'
    BY ControlStep, StreamStep
  <2> QED
    BY <2>1 DEF RuntimeTypeOK, StreamOK, ControlOK
<1> QED
  BY <1>1, <1>2, PTL DEF Spec

-----------------------------------------------------------------------------
(***************************************************************************)
(* The phases of a run and its outcome.  Which processes and threads there *)
(* are at each place of the main thread.                                   *)
(***************************************************************************)
Child == proc["child"]

PhaseInv ==
    /\ main = "start" => Child = "none" /\ reader = "none" /\ watcher = "none"
    /\ main \in {"spawned", "dropped", "guarded", "collect", "wait"}
          => Child \in {"alive", "zombie"}
    /\ main \in {"stop", "join", "filter", "write"} => Child = "gone"
    /\ main = "done" => Child \in {"none", "gone"}
    /\ main \in {"spawned", "dropped", "guarded", "collect"} => rule.matched
    /\ watcher \in {"poll", "kill"}
          => main \in {"guarded", "collect", "wait", "stop", "join"} /\ rule.matched

Succeeded == [sig |-> FALSE, n |-> 0]

(* OutcomeOfChild, and that an ended child keeps its status. *)
OutcomeInv == PhaseInv /\ OutcomeOfChild

LEMMA ZeroIsSuccess ==
    ASSUME RuntimeTypeOK
    PROVE  ExitCode(status) = 0 <=> status = Succeeded
BY DEF RuntimeTypeOK, ExitCode, Succeeded

LEMMA OutcomeInit == Init => OutcomeInv
BY DEF Init, OutcomeInv, PhaseInv, Child, Procs, OutcomeOfChild, NoExit

(* What a step does to the child, to its status and to the branch. *)
LEMMA StatusStays ==
    ASSUME RuntimeTypeOK, [Next]_vars, Child # "alive"
    PROVE  status' = status
<1> USE DEF Child, world, stream, signal, result
<1>1. CASE Spawn \/ DropCommand \/ InstallForwarder \/ StartReader
           \/ CollectLine \/ JoinReader \/ Wait \/ StopWatcher \/ JoinWatcher
           \/ Filter \/ WriteOut
  BY <1>1, Zenon DEF Spawn, DropCommand, InstallForwarder, StartReader,
              CollectLine, JoinReader, Wait, StopWatcher, JoinWatcher,
              Filter, WriteOut
<1>2. CASE Fill \/ TakeLine \/ Eof \/ ReadError \/ Poll \/ Kill \/ Fork
  BY <1>2, Zenon DEF Fill, TakeLine, Eof, ReadError, Poll, Kill, Fork
<1>3. ASSUME NEW p \in Procs, Write(p) \/ Exits(p) \/ BrokenPipe(p)
      PROVE  status' = status
  <2>1. CASE Write(p)
    BY <2>1 DEF Write
  <2>2. ASSUME NEW st, Ends(p, st) PROVE status' = status
    BY <2>2 DEF Ends
  <2> QED
    BY <1>3, <2>1, <2>2 DEF Exits, BrokenPipe
<1>4. ASSUME NEW s \in Signals, Interrupt(s) PROVE status' = status
  BY <1>4 DEF Interrupt
<1>5. CASE UNCHANGED vars
  BY <1>5 DEF vars
<1> QED
  BY NextCases, <1>1, <1>2, <1>3, <1>4, <1>5

LEMMA PhaseStep == ASSUME RuntimeTypeOK, PhaseInv, [Next]_vars PROVE PhaseInv'
<1> ControlOK
  BY TypeParts
<1>0. /\ DOMAIN proc = Procs /\ "child" \in Procs /\ "heir" \in Procs
      /\ main \in {"start", "spawned", "dropped", "guarded", "collect", "wait",
                 "stop", "join", "filter", "write", "done", "killed"}
      /\ watcher \in {"none", "poll", "kill", "end"}
      /\ Child \in {"none", "alive", "zombie", "gone"}
  BY DEF ControlOK, Procs, Child, Ended
<1> USE <1>0 DEF PhaseInv, Child, world, stream, signal, result, Finish
<1>1. CASE Spawn
  BY <1>1 DEF Spawn
<1>2. CASE DropCommand
  BY <1>2 DEF DropCommand
<1>3. CASE InstallForwarder
  BY <1>3 DEF InstallForwarder
<1>4. CASE StartReader
  BY <1>4 DEF StartReader
<1>5. CASE CollectLine
  BY <1>5 DEF CollectLine
<1>6. CASE JoinReader
  BY <1>6 DEF JoinReader
<1>7. CASE Wait
  BY <1>7 DEF Wait
<1>8. CASE StopWatcher
  BY <1>8 DEF StopWatcher
<1>9. CASE JoinWatcher
  BY <1>9 DEF JoinWatcher
<1>10. CASE Filter
  BY <1>10 DEF Filter
<1>11. CASE WriteOut
  BY <1>11 DEF WriteOut
<1>12. CASE Fill \/ TakeLine \/ Eof \/ ReadError
  <2>1. UNCHANGED <<main, proc, rule, watcher>> /\ (main = "start" => FALSE)
    BY <1>12, Zenon DEF Fill, TakeLine, Eof, ReadError
  <2> QED
    BY <2>1
<1>13. CASE Poll
  BY <1>13 DEF Poll
<1>14. CASE Kill
  <2>1. /\ UNCHANGED <<main, rule, reader>> /\ watcher = "kill" /\ watcher' = "poll"
        /\ \/ proc' = proc
           \/ Child = "alive" /\ proc' = [proc EXCEPT !["child"] = "zombie"]
    BY <1>14, Zenon DEF Kill
  <2>2. Child' = Child \/ (Child = "alive" /\ Child' = "zombie")
    BY <2>1
  <2> QED
    BY <2>1, <2>2
<1>15. CASE Fork
  BY <1>15 DEF Fork
<1>16. ASSUME NEW p \in Procs, Write(p) PROVE PhaseInv'
  BY <1>16 DEF Write
<1>17. ASSUME NEW p \in Procs, Exits(p) \/ BrokenPipe(p) PROVE PhaseInv'
  <2>1. PICK st : Ends(p, st)
    BY <1>17, Zenon DEF Exits, BrokenPipe
  <2>2. UNCHANGED <<main, rule, reader, watcher>>
    BY <2>1, Zenon DEF Ends
  <2>3. Child' = Child \/ (Child = "alive" /\ Child' = "zombie")
    BY <2>1 DEF Ends
  <2> QED
    BY <2>2, <2>3
<1>18. ASSUME NEW s \in Signals, Interrupt(s) PROVE PhaseInv'
  BY <1>18, Zenon DEF Interrupt, Ended
<1>19. CASE UNCHANGED vars
  BY <1>19 DEF vars
<1> QED
  BY NextCases, <1>1, <1>2, <1>3, <1>4, <1>5, <1>6, <1>7, <1>8, <1>9, <1>10, <1>11,
     <1>12, <1>13, <1>14, <1>15, <1>16, <1>17, <1>18, <1>19

(* What a step does to the outcome, other than choosing it. *)
LEMMA OutcomeStep ==
    ASSUME RuntimeTypeOK, OutcomeInv, [Next]_vars
    PROVE  OutcomeInv'
<1>1. PhaseInv'
  BY PhaseStep DEF OutcomeInv
<1> ControlOK
  BY TypeParts
<1>2. Child = "gone" => Child' = "gone" /\ status' = status
  <2>1. ASSUME Child = "gone" PROVE Child' = "gone"
    <3> USE <2>1 DEF Child, world, stream, signal, result, Procs, ControlOK
    <3>1. CASE Spawn
      BY <3>1 DEF Spawn, OutcomeInv, PhaseInv
    <3>2. CASE DropCommand \/ InstallForwarder \/ StartReader
               \/ CollectLine \/ JoinReader \/ StopWatcher \/ JoinWatcher
               \/ Filter \/ WriteOut
      BY <3>2, Zenon DEF DropCommand, InstallForwarder, StartReader,
                  CollectLine, JoinReader, StopWatcher, JoinWatcher,
                  Filter, WriteOut
    <3>3. CASE Wait \/ Fork
      BY <3>3 DEF Wait, Fork
    <3>4. CASE Fill \/ TakeLine \/ Eof \/ ReadError \/ Poll \/ Kill
      BY <3>4, Zenon DEF Fill, TakeLine, Eof, ReadError, Poll, Kill
    <3>5. ASSUME NEW p \in Procs, Write(p) \/ Exits(p) \/ BrokenPipe(p)
          PROVE  Child' = "gone"
      BY <3>5 DEF Write, Exits, BrokenPipe, Ends
    <3>6. ASSUME NEW s \in Signals, Interrupt(s) PROVE Child' = "gone"
      BY <3>6 DEF Interrupt
    <3>7. CASE UNCHANGED vars
      BY <3>7 DEF vars
    <3> QED
      BY NextCases, <3>1, <3>2, <3>3, <3>4, <3>5, <3>6, <3>7
  <2> QED
    BY <2>1, StatusStays
<1>3. ASSUME UNCHANGED <<rule, branch, exit>>, main' = "done" => main = "done"
      PROVE  OutcomeOfChild'
  <2>1. branch' # "none" => OutcomeOfChild' \/ main' = "done"
    BY <1>2, <1>3 DEF OutcomeInv, OutcomeOfChild, Child
  <2>2. main' = "done" => status' = status
    BY <1>3, StatusStays DEF OutcomeInv, PhaseInv
  <2> QED
    BY <1>2, <1>3, <2>2 DEF OutcomeInv, OutcomeOfChild, Child
<1>4. ASSUME Spawn PROVE OutcomeOfChild'
  <2>1. main = "start" /\ Child = "none"
    BY <1>4 DEF Spawn, OutcomeInv, PhaseInv
  <2>2. branch = "none"
    BY <2>1 DEF OutcomeInv, OutcomeOfChild, Child
  <2>3. branch' = branch
    BY <1>4, Zenon DEF Spawn
  <2>4. main' = "done" => exit' = 127
    BY <1>4 DEF Spawn, Finish
  <2> QED
    BY <2>2, <2>3, <2>4 DEF OutcomeOfChild
<1>5. ASSUME Wait PROVE OutcomeOfChild'
  <2>1. UNCHANGED <<rule, branch, status>> /\ Child = "zombie"
    BY <1>5 DEF Wait, Child
  <2>2. branch = "none"
    BY <2>1 DEF OutcomeInv, OutcomeOfChild, Child
  <2>3. main' = "done" => exit' = ExitCode(status)
    BY <1>5 DEF Wait, Finish
  <2>4. main' = "done" /\ exit' = 0 => status' = Succeeded
    BY <2>1, <2>3, ZeroIsSuccess
  <2>5. branch' = "none"
    BY <2>1, <2>2
  <2> QED
    BY <2>4, <2>5 DEF OutcomeOfChild, Succeeded
<1>6. ASSUME Filter PROVE OutcomeOfChild'
  <2>1. Child = "gone"
    BY <1>6 DEF Filter, OutcomeInv, PhaseInv
  <2>2. rule' = rule /\ status' = status /\ Child' = "gone"
    BY <1>2, <1>6, <2>1, Zenon DEF Filter
  <2>3. CASE /\ branch' = IF ExitCode(status) = 0 THEN "success"
                          ELSE IF rule.onError THEN "on_error" ELSE "raw"
             /\ main' = "write"
    <3>1. branch' = "success" <=> status = Succeeded
      BY <2>3, ZeroIsSuccess
    <3>2. branch' = "on_error" => rule.onError
      BY <2>3
    <3> QED
      BY <2>2, <2>3, <3>1, <3>2 DEF OutcomeOfChild, Succeeded, Child
  <2>4. CASE Finish(1) /\ UNCHANGED branch
    <3>1. exit' # 0 /\ branch' = branch
      BY <2>4 DEF Finish
    <3> QED
      BY <2>2, <3>1 DEF OutcomeInv, OutcomeOfChild, Child
  <2> QED
    BY <1>6, <2>3, <2>4, Zenon DEF Filter
<1>7. ASSUME WriteOut PROVE OutcomeOfChild'
  <2>1. Child = "gone"
    BY <1>7 DEF WriteOut, OutcomeInv, PhaseInv
  <2>2. rule' = rule /\ branch' = branch /\ status' = status /\ Child' = "gone"
    BY <1>2, <1>7, <2>1, Zenon DEF WriteOut
  <2>3. exit' = 0 => status = Succeeded
    BY <1>7, ZeroIsSuccess DEF WriteOut, Finish
  <2> QED
    BY <2>2, <2>3 DEF OutcomeInv, OutcomeOfChild, Child, Succeeded
<1>8. ASSUME ~(Spawn \/ Wait \/ Filter \/ WriteOut)
      PROVE  UNCHANGED <<rule, branch, exit>> /\ (main' = "done" => main = "done")
  <2> USE DEF world, stream, signal, result
  <2>1. CASE DropCommand \/ InstallForwarder \/ StartReader
             \/ CollectLine \/ JoinReader \/ StopWatcher \/ JoinWatcher
    BY <2>1 DEF DropCommand, InstallForwarder, StartReader,
                CollectLine, JoinReader, StopWatcher, JoinWatcher
  <2>2. CASE Fill \/ TakeLine \/ Eof \/ ReadError \/ Poll \/ Kill \/ Fork
    BY <2>2, Zenon DEF Fill, TakeLine, Eof, ReadError, Poll, Kill, Fork
  <2>3. ASSUME NEW p \in Procs, Write(p) \/ Exits(p) \/ BrokenPipe(p)
        PROVE  UNCHANGED <<rule, branch, exit, main>>
    BY <2>3, Zenon DEF Write, Exits, BrokenPipe, Ends
  <2>4. ASSUME NEW s \in Signals, Interrupt(s)
        PROVE  UNCHANGED <<rule, branch, exit>> /\ (main' = "done" => main = "done")
    BY <2>4 DEF Interrupt
  <2>5. CASE UNCHANGED vars
    BY <2>5 DEF vars
  <2> QED
    BY NextCases, <1>8, <2>1, <2>2, <2>3, <2>4, <2>5
<1> QED
  BY <1>1, <1>3, <1>4, <1>5, <1>6, <1>7, <1>8 DEF OutcomeInv

(* The pipeline is chosen by the status of a child that has been waited for, and
   exit code 0 means that the child ended with 0, whatever signals arrive. *)
THEOREM OutcomeOfChildAlways == Spec => []OutcomeOfChild
<1>1. Init => OutcomeInv
  BY OutcomeInit
<1>2. RuntimeTypeOK /\ OutcomeInv /\ [Next]_vars => OutcomeInv'
  BY OutcomeStep
<1>3. OutcomeInv => OutcomeOfChild
  BY DEF OutcomeInv
<1> QED
  BY <1>1, <1>2, <1>3, RuntimeTypeCorrect, PTL DEF Spec

(* The watcher signals a pid that is no longer the child's only between the
   child's wait and the join of the watcher. *)
THEOREM NoLateSignalAlways == Spec => NoLateSignal
<1>1. RuntimeTypeOK /\ OutcomeInv /\ [Next]_vars
          => [lateKill' # lateKill => main \in {"stop", "join"}]_vars
  <2> SUFFICES ASSUME RuntimeTypeOK, OutcomeInv, [Next]_vars, lateKill' # lateKill
               PROVE  main \in {"stop", "join"}
    OBVIOUS
  <2>1. Kill
    <3> USE DEF world, stream, signal, result
    <3>1. ~(Spawn \/ DropCommand \/ InstallForwarder \/ StartReader
           \/ CollectLine \/ JoinReader \/ Wait \/ StopWatcher \/ JoinWatcher
           \/ Filter \/ WriteOut)
      BY Zenon DEF Spawn, DropCommand, InstallForwarder, StartReader,
                   CollectLine, JoinReader, Wait, StopWatcher, JoinWatcher,
                   Filter, WriteOut
    <3>2. ~(Fill \/ TakeLine \/ Eof \/ ReadError \/ Poll \/ Fork)
      BY Zenon DEF Fill, TakeLine, Eof, ReadError, Poll, Fork
    <3>3. \A p \in Procs : ~(Write(p) \/ Exits(p) \/ BrokenPipe(p))
      BY Zenon DEF Write, Exits, BrokenPipe, Ends
    <3>4. \A s \in Signals : ~Interrupt(s)
      BY Zenon DEF Interrupt
    <3>5. ~UNCHANGED vars
      BY Zenon DEF vars
    <3> QED
      BY NextCases, <3>1, <3>2, <3>3, <3>4, <3>5
  <2>2. watcher = "kill" /\ lateKill' = (lateKill \/ Child = "gone")
    BY <2>1, Zenon DEF Kill, Child
  <2>3. lateKill \in BOOLEAN
    BY DEF RuntimeTypeOK
  <2>4. Child = "gone"
    BY <2>2, <2>3, Zenon
  <2> QED
    BY <2>2, <2>4 DEF OutcomeInv, PhaseInv
<1>2. RuntimeTypeOK /\ OutcomeInv /\ [Next]_vars => OutcomeInv'
  BY OutcomeStep
<1> QED
  BY <1>1, <1>2, OutcomeInit, RuntimeTypeCorrect, PTL DEF Spec, NoLateSignal

-----------------------------------------------------------------------------
(***************************************************************************)
(* The output of a run: whatever the child and its descendants write, the  *)
(* pipeline is given all of it, line by line.                              *)
(***************************************************************************)

(***************************************************************************)
(* Sequences of lines.  A stream to which a piece is added that ends with  *)
(* its only newline has one line more, the one that LineOf makes of it.    *)
(***************************************************************************)

(* IsLinesOf, in parts. *)
Index(s, e) == Cardinality({n \in LineEnds(s) : n <= e})
Before(s, e) ==
    Cardinality({n \in 1..(e - 1) : \E d \in LineEnds(s) : n <= d /\ d < e})
Whole(s, e) == SubSeq(s, Before(s, e) + 1, IF s[e] = NL THEN e - 1 ELSE e)
IsWhole(line, whole, size) ==
    \/ line.text = whole /\ (line.cut => size > LineCap)
    \/ /\ line.cut /\ Len(whole) > LineCap
       /\ line.text = SubSeq(whole, 1, LineCap)

LEMMA IsLinesParts ==
    ASSUME NEW lines, NEW s
    PROVE  IsLinesOf(lines, s) <=>
             /\ Len(lines) = Cardinality(LineEnds(s))
             /\ \A e \in LineEnds(s) :
                  IsWhole(lines[Index(s, e)], Whole(s, e), e - Before(s, e))
BY Zenon DEF IsLinesOf, Index, Before, Whole, IsWhole

(* One more piece that a newline ends, or nothing: a line by itself. *)
Piece(s, t) ==
    /\ t # <<>>
    /\ s # <<>> => s[Len(s)] = NL
    /\ \A i \in 1..(Len(t) - 1) : t[i] # NL

LEMMA EndsOfPiece ==
    ASSUME NEW s \in Seq(Bytes), NEW t \in Seq(Bytes), Piece(s, t)
    PROVE  /\ LineEnds(s \o t) = LineEnds(s) \cup {Len(s) + Len(t)}
           /\ Len(s) + Len(t) \notin LineEnds(s)
           /\ Len(t) \in Nat \ {0}
<1>1. Len(t) \in Nat \ {0} /\ Len(s) \in Nat
  BY DEF Piece
<1>2. /\ Len(s \o t) = Len(s) + Len(t)
      /\ \A i \in 1..Len(s) : (s \o t)[i] = s[i]
      /\ \A i \in (Len(s) + 1)..(Len(s) + Len(t)) : (s \o t)[i] = t[i - Len(s)]
  BY ConcatProperties
<1>3. ASSUME NEW n \in 1..(Len(s) + Len(t))
      PROVE  n \in LineEnds(s \o t) <=> n \in LineEnds(s) \cup {Len(s) + Len(t)}
  <2>1. CASE n <= Len(s)
    <3>1. s # <<>> /\ s[Len(s)] = NL
      BY <2>1, <1>1 DEF Piece
    <3>2. (s \o t)[n] = s[n] /\ n # Len(s) + Len(t) /\ n \in 1..Len(s)
      BY <1>1, <1>2, <2>1
    <3> QED
      BY <3>1, <3>2, <1>1, <1>2 DEF LineEnds
  <2>2. CASE n > Len(s)
    <3>1. n # Len(s) + Len(t) => t[n - Len(s)] # NL
      BY <1>1, <2>2 DEF Piece
    <3>2. (s \o t)[n] = t[n - Len(s)]
      BY <1>1, <1>2, <2>2
    <3> QED
      BY <3>1, <3>2, <1>1, <1>2, <2>2 DEF LineEnds
  <2> QED
    BY <2>1, <2>2, <1>1
<1>4. /\ LineEnds(s \o t) \subseteq 1..(Len(s) + Len(t))
      /\ LineEnds(s) \cup {Len(s) + Len(t)} \subseteq 1..(Len(s) + Len(t))
  BY <1>1, <1>2 DEF LineEnds
<1>5. Len(s) + Len(t) \notin LineEnds(s)
  BY <1>1 DEF LineEnds
<1> QED
  BY <1>1, <1>3, <1>4, <1>5, Zenon

LEMMA EndsFinite ==
    ASSUME NEW s \in Seq(Bytes)
    PROVE  /\ IsFiniteSet(LineEnds(s)) /\ Cardinality(LineEnds(s)) \in Nat
           /\ LineEnds(s) \subseteq 1..Len(s) /\ LineEnds(s) \subseteq Nat
           /\ Len(s) \in Nat
<1>1. Len(s) \in Nat
  OBVIOUS
<1>2. LineEnds(s) \subseteq 1..Len(s) /\ LineEnds(s) \subseteq Nat
  BY <1>1 DEF LineEnds
<1>3. IsFiniteSet(1..Len(s))
  BY <1>1, FS_Interval
<1>4. IsFiniteSet(LineEnds(s))
  BY <1>2, <1>3, FS_Subset
<1> QED
  BY <1>1, <1>2, <1>4, FS_CardinalityType

LEMMA OldEnd ==
    ASSUME NEW s \in Seq(Bytes), NEW t \in Seq(Bytes), Piece(s, t),
           NEW e \in LineEnds(s)
    PROVE  /\ Index(s \o t, e) = Index(s, e)
           /\ Index(s, e) \in 1..Cardinality(LineEnds(s))
           /\ Before(s \o t, e) = Before(s, e)
           /\ Whole(s \o t, e) = Whole(s, e)
<1>1. /\ LineEnds(s \o t) = LineEnds(s) \cup {Len(s) + Len(t)}
      /\ Len(t) \in Nat \ {0}
  BY EndsOfPiece
<1>2. /\ e \in 1..Len(s) /\ LineEnds(s) \subseteq Nat /\ Len(s) \in Nat
      /\ IsFiniteSet(LineEnds(s)) /\ Cardinality(LineEnds(s)) \in Nat
  BY EndsFinite
<1>3. Index(s \o t, e) = Index(s, e)
  <2>1. {n \in LineEnds(s \o t) : n <= e} = {n \in LineEnds(s) : n <= e}
    BY <1>1, <1>2
  <2> QED
    BY <2>1, Zenon DEF Index
<1>4. Index(s, e) \in 1..Cardinality(LineEnds(s))
  <2> DEFINE L == {n \in LineEnds(s) : n <= e}
  <2>1. L \in SUBSET LineEnds(s) /\ e \in L
    BY <1>2
  <2> HIDE DEF L
  <2>2. IsFiniteSet(L) /\ Cardinality(L) <= Cardinality(LineEnds(s))
    BY <1>2, <2>1, FS_Subset
  <2>3. Cardinality(L) # 0 /\ Cardinality(L) \in Nat
    BY <2>1, <2>2, FS_EmptySet, FS_CardinalityType
  <2>4. Cardinality(L) \in 1..Cardinality(LineEnds(s))
    BY <1>2, <2>2, <2>3
  <2> QED
    BY <2>4 DEF L, Index
<1>5. Before(s \o t, e) = Before(s, e)
  <2>1. ASSUME NEW n \in 1..(e - 1)
        PROVE  (\E d \in LineEnds(s \o t) : n <= d /\ d < e)
                 <=> (\E d \in LineEnds(s) : n <= d /\ d < e)
    BY <1>1, <1>2
  <2>2. {n \in 1..(e - 1) : \E d \in LineEnds(s \o t) : n <= d /\ d < e}
          = {n \in 1..(e - 1) : \E d \in LineEnds(s) : n <= d /\ d < e}
    BY <2>1
  <2> QED
    BY <2>2, Zenon DEF Before
<1>6. Before(s, e) \in Nat
  <2> DEFINE B == {n \in 1..(e - 1) : \E d \in LineEnds(s) : n <= d /\ d < e}
  <2>1. B \in SUBSET (1..(e - 1))
    OBVIOUS
  <2> HIDE DEF B
  <2>2. IsFiniteSet(1..(e - 1))
    BY <1>2, FS_Interval
  <2>3. Cardinality(B) \in Nat
    BY <2>1, <2>2, FS_Subset, FS_CardinalityType
  <2> QED
    BY <2>3 DEF B, Before
<1>7. Whole(s \o t, e) = Whole(s, e)
  <2> DEFINE b == Before(s, e) + 1
             m == IF s[e] = NL THEN e - 1 ELSE e
  <2>1. (s \o t)[e] = s[e]
    BY <1>2, ConcatProperties
  <2>2. b \in Nat \ {0} /\ m \in Int /\ m <= Len(s)
    BY <1>2, <1>6
  <2>3. Whole(s \o t, e) = SubSeq(s \o t, b, m) /\ Whole(s, e) = SubSeq(s, b, m)
    BY <2>1, <1>5, Zenon DEF Whole
  <2> HIDE DEF b, m
  <2>4. CASE b <= m
    <3>1. b \in 1..Len(s) /\ m \in 1..Len(s)
      BY <2>2, <2>4, <1>2
    <3> QED
      BY <3>1, <2>3, SubSeqOfConcat1
  <2>5. CASE m < b
    BY <2>2, <2>3, <2>5, SubSeqEmpty
  <2> QED
    BY <2>2, <2>4, <2>5
<1> QED
  BY <1>3, <1>4, <1>5, <1>7

LEMMA SecondPart ==
    ASSUME NEW s \in Seq(Bytes), NEW t \in Seq(Bytes), NEW m \in Nat,
           Len(s) + 1 \in (Len(s) + 1)..(Len(s) + Len(t)),
           Len(s) + m \in (Len(s) + 1)..(Len(s) + Len(t))
    PROVE  SubSeq(s \o t, Len(s) + 1, Len(s) + m)
             = SubSeq(t, Len(s) + 1 - Len(s), Len(s) + m - Len(s))
BY SubSeqOfConcat2

LEMMA NewEnd ==
    ASSUME NEW s \in Seq(Bytes), NEW t \in Seq(Bytes), Piece(s, t)
    PROVE  LET e == Len(s) + Len(t) IN
           /\ Index(s \o t, e) = Cardinality(LineEnds(s \o t))
           /\ Cardinality(LineEnds(s \o t)) = Cardinality(LineEnds(s)) + 1
           /\ Before(s \o t, e) = Len(s)
           /\ Whole(s \o t, e)
                = SubSeq(t, 1, IF t[Len(t)] = NL THEN Len(t) - 1 ELSE Len(t))
<1> DEFINE e == Len(s) + Len(t)
<1>1. /\ LineEnds(s \o t) = LineEnds(s) \cup {e}
      /\ e \notin LineEnds(s) /\ Len(t) \in Nat \ {0}
  BY EndsOfPiece
<1>2. /\ LineEnds(s) \subseteq 1..Len(s) /\ Len(s) \in Nat
      /\ IsFiniteSet(LineEnds(s))
  BY EndsFinite
<1>3. Cardinality(LineEnds(s \o t)) = Cardinality(LineEnds(s)) + 1
  BY <1>1, <1>2, FS_AddElement
<1>4. Index(s \o t, e) = Cardinality(LineEnds(s \o t))
  <2>1. {n \in LineEnds(s \o t) : n <= e} = LineEnds(s \o t)
    BY <1>1, <1>2
  <2> QED
    BY <2>1, Zenon DEF Index
<1>5. Before(s \o t, e) = Len(s)
  <2>1. ASSUME NEW n \in 1..(e - 1)
        PROVE  (\E d \in LineEnds(s \o t) : n <= d /\ d < e) <=> n \in 1..Len(s)
    <3>1. ASSUME NEW d \in LineEnds(s \o t), n <= d, d < e PROVE n \in 1..Len(s)
      BY <3>1, <1>1, <1>2
    <3>2. ASSUME n \in 1..Len(s)
          PROVE  Len(s) \in LineEnds(s \o t) /\ n <= Len(s) /\ Len(s) < e
      BY <3>2, <1>1, <1>2 DEF LineEnds
    <3> QED
      BY <3>1, <3>2
  <2>2. {n \in 1..(e - 1) : \E d \in LineEnds(s \o t) : n <= d /\ d < e} = 1..Len(s)
    <3>1. 1..Len(s) \subseteq 1..(e - 1)
      BY <1>1, <1>2
    <3> HIDE DEF e
    <3> QED
      BY <2>1, <3>1
  <2>3. Cardinality(1..Len(s)) = Len(s)
    <3>0. 1 \in Int /\ Len(s) \in Int
      BY <1>2
    <3>1. Cardinality(1..Len(s)) = IF 1 > Len(s) THEN 0 ELSE Len(s) - 1 + 1
      BY <3>0, FS_Interval, Zenon
    <3> QED
      BY <3>1, <1>2
  <2> QED
    BY <2>2, <2>3, Zenon DEF Before
<1>6. Whole(s \o t, e)
        = SubSeq(t, 1, IF t[Len(t)] = NL THEN Len(t) - 1 ELSE Len(t))
  <2> DEFINE m == IF t[Len(t)] = NL THEN Len(t) - 1 ELSE Len(t)
  <2>1. (s \o t)[e] = t[Len(t)]
    <3>1. e \in 1..(Len(s) + Len(t)) /\ ~(e <= Len(s)) /\ e - Len(s) = Len(t)
      BY <1>1, <1>2
    <3> QED
      BY <3>1, ConcatProperties
  <2>2. m \in Nat /\ m <= Len(t)
    BY <1>1
  <2>3. Whole(s \o t, e) = SubSeq(s \o t, Len(s) + 1, Len(s) + m)
    <3>1. (IF (s \o t)[e] = NL THEN e - 1 ELSE e) = Len(s) + m
      BY <2>1, <1>1, <1>2
    <3> QED
      BY <3>1, <1>5, Zenon DEF Whole
  <2> HIDE DEF m
  <2>4. CASE m = 0
    <3>1. Len(s) + m < Len(s) + 1 /\ Len(s) + m \in Int /\ Len(s) + 1 \in Int
      BY <2>4, <1>2
    <3>2. Whole(s \o t, e) = <<>>
      BY <2>3, <3>1, SubSeqEmpty
    <3>3. SubSeq(t, 1, m) = <<>>
      BY <2>4, SubSeqEmpty
    <3> QED
      BY <3>2, <3>3 DEF m
  <2>5. CASE m # 0
    <3>1. /\ Len(s) + 1 \in (Len(s) + 1)..(Len(s) + Len(t))
          /\ Len(s) + m \in (Len(s) + 1)..(Len(s) + Len(t))
          /\ Len(s) + 1 - Len(s) = 1 /\ Len(s) + m - Len(s) = m
      BY <2>2, <2>5, <1>1, <1>2
    <3>2. SubSeq(s \o t, Len(s) + 1, Len(s) + m)
            = SubSeq(t, Len(s) + 1 - Len(s), Len(s) + m - Len(s))
      BY <2>2, <3>1, SecondPart
    <3> QED
      BY <2>3, <3>1, <3>2, Zenon DEF m
  <2> QED
    BY <2>4, <2>5
<1> QED
  BY <1>3, <1>4, <1>5, <1>6

Stripped(u) == IF u # <<>> /\ u[Len(u)] = NL THEN SubSeq(u, 1, Len(u) - 1) ELSE u

(* The line that Send makes of a piece is that piece, whole or cut. *)
LEMMA PieceIsWhole ==
    ASSUME NEW t \in Seq(Bytes), t # <<>>, \A i \in 1..(Len(t) - 1) : t[i] # NL
    PROVE  IsWhole(LineOf(t),
                   SubSeq(t, 1, IF t[Len(t)] = NL THEN Len(t) - 1 ELSE Len(t)),
                   Len(t))
<1> DEFINE n == IF t[Len(t)] = NL THEN Len(t) - 1 ELSE Len(t)
           whole == SubSeq(t, 1, n)
           capped == SubSeq(t, 1, IF Len(t) > LineCap THEN LineCap ELSE Len(t))
<1> SUFFICES IsWhole(LineOf(t), whole, Len(t))
  OBVIOUS
<1>0. LineOf(t).text = Stripped(capped) /\ LineOf(t).cut = (Len(t) > LineCap)
  BY DEF LineOf, Stripped
<1>1. Len(t) \in Nat \ {0} /\ \A i \in 1..Len(t) : t[i] \in Bytes
  OBVIOUS
<1>2. LineCap \in Nat \ {0}
  BY RuntimeAssumption
<1>3. CASE Len(t) <= LineCap
  <2>1. capped = t
    <3>1. ~(Len(t) > LineCap)
      BY <1>1, <1>2, <1>3
    <3> QED
      BY <3>1, SubSeqFull
  <2>2. Stripped(t) = whole
    <3>1. CASE t[Len(t)] = NL
      BY <3>1 DEF Stripped
    <3>2. CASE t[Len(t)] # NL
      BY <3>2, SubSeqFull DEF Stripped
    <3> QED
      BY <3>1, <3>2
  <2>3. LineOf(t).cut => Len(t) > LineCap
    BY <1>0
  <2> HIDE DEF capped, whole
  <2> QED
    BY <1>0, <2>1, <2>2, <2>3, Zenon DEF IsWhole
<1>4. CASE Len(t) > LineCap
  <2> DEFINE c == SubSeq(t, 1, LineCap)
  <2>1. /\ c \in Seq(Bytes) /\ Len(c) = LineCap /\ c # <<>>
        /\ c[Len(c)] = t[LineCap]
    <3>1. LineCap \in 1..Len(t)
      BY <1>1, <1>2, <1>4
    <3>2. /\ c \in Seq(Bytes) /\ Len(c) = LineCap
          /\ \A i \in 1..LineCap : c[i] = t[i]
      BY <3>1, Taken
    <3> HIDE DEF c
    <3> QED
      BY <3>1, <3>2
  <2>2. t[LineCap] # NL
    BY <1>1, <1>2, <1>4
  <2>3. LineOf(t).text = c /\ LineOf(t).cut = TRUE
    <3>1. capped = c
      BY <1>4
    <3> HIDE DEF c, capped
    <3> QED
      BY <2>1, <2>2, <3>1, <1>0, <1>4 DEF Stripped
  <2>4. n \in LineCap..Len(t) /\ n \in 1..Len(t)
    BY <1>1, <1>2, <1>4
  <2> HIDE DEF n, capped
  <2>5. whole \in Seq(Bytes) /\ Len(whole) = n
    BY <2>4, Taken
  <2>6. CASE n = LineCap
    <3>1. whole = c
      BY <2>6
    <3> HIDE DEF whole, c
    <3> QED
      BY <2>3, <3>1, <1>4, Zenon DEF IsWhole
  <2>7. CASE n > LineCap
    <3>1. SubSeq(whole, 1, LineCap) = SubSeq(t, 1, LineCap)
      <4>1. /\ 1 \in 1..Len(t) /\ 1 \in 1..(n - 1 + 1)
            /\ LineCap \in 1..(n - 1 + 1)
            /\ 1 + 1 - 1 = 1 /\ 1 + LineCap - 1 = LineCap
        BY <2>4, <2>7, <1>1, <1>2
      <4> QED
        BY <4>1, <2>4, SubSeqOfSubSeq
    <3>2. Len(whole) > LineCap
      BY <2>5, <2>7
    <3> HIDE DEF whole
    <3> QED
      BY <2>3, <3>1, <3>2, Zenon DEF IsWhole
  <2> QED
    BY <2>4, <2>6, <2>7, <1>2
<1> QED
  BY <1>1, <1>2, <1>3, <1>4

(* Lines stay the lines of a stream when a piece and its line are added. *)
LEMMA AddLine ==
    ASSUME NEW s \in Seq(Bytes), NEW t \in Seq(Bytes), Piece(s, t),
           NEW lines \in Seq(Line), IsLinesOf(lines, s)
    PROVE  IsLinesOf(Append(lines, LineOf(t)), s \o t)
<1> DEFINE more == Append(lines, LineOf(t))
           e == Len(s) + Len(t)
<1>1. LineOf(t) \in Line
  BY LineOfType
<1>2. /\ Len(lines) = Cardinality(LineEnds(s))
      /\ \A d \in LineEnds(s) :
            IsWhole(lines[Index(s, d)], Whole(s, d), d - Before(s, d))
  BY IsLinesParts
<1>3. /\ Len(more) = Len(lines) + 1 /\ more[Len(lines) + 1] = LineOf(t)
      /\ \A i \in 1..Len(lines) : more[i] = lines[i]
  BY <1>1, AppendProperties
<1>4. /\ LineEnds(s \o t) = LineEnds(s) \cup {e}
      /\ Len(t) \in Nat \ {0} /\ Len(s) \in Nat
  BY EndsOfPiece
<1>5. /\ Index(s \o t, e) = Len(lines) + 1
      /\ Cardinality(LineEnds(s \o t)) = Len(lines) + 1
      /\ e - Before(s \o t, e) = Len(t)
      /\ Whole(s \o t, e)
           = SubSeq(t, 1, IF t[Len(t)] = NL THEN Len(t) - 1 ELSE Len(t))
  <2>1. /\ Index(s \o t, e) = Cardinality(LineEnds(s \o t))
        /\ Cardinality(LineEnds(s \o t)) = Cardinality(LineEnds(s)) + 1
        /\ Before(s \o t, e) = Len(s)
        /\ Whole(s \o t, e)
             = SubSeq(t, 1, IF t[Len(t)] = NL THEN Len(t) - 1 ELSE Len(t))
    BY NewEnd, Zenon
  <2>2. e - Len(s) = Len(t)
    BY <1>4
  <2> HIDE DEF e
  <2> QED
    BY <1>2, <2>1, <2>2, Zenon
<1> HIDE DEF more
<1>6. ASSUME NEW d \in LineEnds(s)
      PROVE  IsWhole(more[Index(s \o t, d)], Whole(s \o t, d), d - Before(s \o t, d))
  <2>1. Index(s, d) \in 1..Len(lines)
    BY <1>2, OldEnd
  <2> QED
    BY <2>1, <1>2, <1>3, OldEnd
<1>7. IsWhole(more[Index(s \o t, e)], Whole(s \o t, e), e - Before(s \o t, e))
  <2>1. IsWhole(LineOf(t),
                SubSeq(t, 1, IF t[Len(t)] = NL THEN Len(t) - 1 ELSE Len(t)), Len(t))
    BY PieceIsWhole DEF Piece
  <2> HIDE DEF e
  <2> QED
    BY <2>1, <1>3, <1>5, Zenon
<1>8. \A d \in LineEnds(s \o t) :
          IsWhole(more[Index(s \o t, d)], Whole(s \o t, d), d - Before(s \o t, d))
  <2> HIDE DEF e
  <2> QED
    BY <1>4, <1>6, <1>7, Zenon
<1> QED
  BY <1>3, <1>5, <1>8, IsLinesParts DEF more

-----------------------------------------------------------------------------
(***************************************************************************)
(* Where the bytes are: those counted, which are in the lines, then the    *)
(* line being collected, the BufReader's buffer and the pipe.              *)
(***************************************************************************)
Consumed == SubSeq(written, 1, count)

QueueInv ==
    /\ Len(written) = count + Len(buf) + Len(inbuf) + Len(pipe)
    /\ \A i \in 1..Len(buf) : written[count + i] = buf[i] /\ buf[i] # NL
    /\ \A i \in 1..Len(inbuf) : written[count + Len(buf) + i] = inbuf[i]
    /\ \A i \in 1..Len(pipe) : written[count + Len(buf) + Len(inbuf) + i] = pipe[i]

(* Nothing is under way, and nobody is left to write. *)
Drained ==
    /\ buf = <<>> /\ inbuf = <<>> /\ pipe = <<>>
    /\ reader # "none" /\ ~WriteEndOpen

(* Only the last line of all may lack its newline. *)
LinesInv ==
    /\ IsLinesOf(raw \o chan, Consumed)
    /\ count # 0 /\ written[count] # NL => Drained

ClosedInv ==
    /\ reader = "closed" => Drained
    /\ main \in {"wait", "stop", "join", "filter", "write"} /\ reader # "none"
         => reader \in {"closed", "failed"} /\ chan = <<>>

LEMMA Lengths ==
    ASSUME RuntimeTypeOK
    PROVE  /\ Len(written) \in Nat /\ Len(buf) \in Nat /\ Len(inbuf) \in Nat
           /\ Len(pipe) \in Nat /\ count \in Nat
           /\ buf \in Seq(Bytes) /\ inbuf \in Seq(Bytes) /\ pipe \in Seq(Bytes)
           /\ written \in Seq(Bytes)
BY DEF RuntimeTypeOK

LEMMA Joined ==
    ASSUME NEW s \in Seq(Bytes), NEW t \in Seq(Bytes)
    PROVE  /\ s \o t \in Seq(Bytes) /\ Len(s \o t) = Len(s) + Len(t)
           /\ \A i \in 1..(Len(s) + Len(t)) :
                 (s \o t)[i] = IF i <= Len(s) THEN s[i] ELSE t[i - Len(s)]
BY ConcatProperties, Zenon

LEMMA ConsumedType ==
    ASSUME RuntimeTypeOK, count <= Len(written)
    PROVE  /\ Consumed \in Seq(Bytes) /\ Len(Consumed) = count
           /\ \A i \in 1..count : Consumed[i] = written[i]
<1>1. CASE count = 0
  BY <1>1, SubSeqEmpty DEF Consumed
<1>2. CASE count # 0
  <2>1. count \in 1..Len(written) /\ written \in Seq(Bytes)
    BY <1>2, Lengths
  <2> QED
    BY <2>1, Taken DEF Consumed
<1> QED
  BY <1>1, <1>2

LEMMA FillStep ==
    ASSUME RuntimeTypeOK, QueueInv, Fill
    PROVE  QueueInv'
<1>1. PICK n \in 1..Len(pipe) : /\ inbuf' = SubSeq(pipe, 1, n)
                                /\ pipe' = SubSeq(pipe, n + 1, Len(pipe))
  BY DEF Fill
<1>2. /\ Len(inbuf') = n /\ \A i \in 1..n : inbuf'[i] = pipe[i]
      /\ Len(pipe') = Len(pipe) - n
      /\ \A i \in 1..(Len(pipe) - n) : pipe'[i] = pipe[n + i]
  BY <1>1, Lengths, Taken
<1>3. UNCHANGED <<written, count, buf>> /\ Len(inbuf) = 0
  BY DEF Fill, world
<1>4. Len(written') = count' + Len(buf') + Len(inbuf') + Len(pipe')
  BY <1>2, <1>3, Lengths DEF QueueInv
<1>5. ASSUME NEW i \in 1..Len(inbuf')
      PROVE  written'[count' + Len(buf') + i] = inbuf'[i]
  <2>1. /\ i \in 1..Len(pipe) /\ inbuf'[i] = pipe[i]
        /\ count + Len(buf) + i = count + Len(buf) + Len(inbuf) + i
    BY <1>2, <1>3, Lengths
  <2>2. written[count + Len(buf) + Len(inbuf) + i] = pipe[i]
    BY <2>1 DEF QueueInv
  <2> QED
    BY <1>3, <2>1, <2>2
<1>6. ASSUME NEW i \in 1..Len(pipe')
      PROVE  written'[count' + Len(buf') + Len(inbuf') + i] = pipe'[i]
  <2>1. /\ n + i \in 1..Len(pipe) /\ pipe'[i] = pipe[n + i]
        /\ count + Len(buf) + n + i = count + Len(buf) + Len(inbuf) + (n + i)
    BY <1>2, <1>3, Lengths
  <2>2. written[count + Len(buf) + Len(inbuf) + (n + i)] = pipe[n + i]
    BY <2>1 DEF QueueInv
  <2> QED
    BY <1>2, <1>3, <2>1, <2>2
<1> QED
  BY <1>3, <1>4, <1>5, <1>6 DEF QueueInv

(* The piece that TakeLine sends, and where it stands in the stream. *)
LEMMA PieceTaken ==
    ASSUME RuntimeTypeOK, QueueInv, NEW n \in 1..Len(inbuf), inbuf[n] = NL,
           \A m \in 1..(n - 1) : inbuf[m] # NL
    PROVE  LET t == buf \o SubSeq(inbuf, 1, n) IN
           /\ t \in Seq(Bytes) /\ Len(t) = Len(buf) + n /\ t # <<>>
           /\ t[Len(t)] = NL
           /\ \A i \in 1..(Len(t) - 1) : t[i] # NL
           /\ \A i \in 1..Len(t) : written[count + i] = t[i]
<1> DEFINE u == SubSeq(inbuf, 1, n)
           t == buf \o u
<1>1. u \in Seq(Bytes) /\ Len(u) = n /\ \A i \in 1..n : u[i] = inbuf[i]
  BY Lengths, Taken
<1> HIDE DEF u
<1>2. /\ t \in Seq(Bytes) /\ Len(t) = Len(buf) + n
      /\ \A i \in 1..(Len(buf) + n) :
            t[i] = IF i <= Len(buf) THEN buf[i] ELSE u[i - Len(buf)]
  <2>1. /\ t \in Seq(Bytes) /\ Len(t) = Len(buf) + Len(u)
        /\ \A i \in 1..(Len(buf) + Len(u)) :
              t[i] = IF i <= Len(buf) THEN buf[i] ELSE u[i - Len(buf)]
    BY <1>1, Lengths, Joined, Zenon
  <2> QED
    BY <1>1, <2>1, Zenon
<1> HIDE DEF t
<1>3. t # <<>>
  BY <1>2, Lengths
<1>4. t[Len(t)] = NL
  <2>1. Len(t) \in 1..(Len(buf) + n) /\ ~(Len(t) <= Len(buf)) /\ Len(t) - Len(buf) = n
    BY <1>2, Lengths
  <2>2. t[Len(t)] = u[n]
    BY <1>2, <2>1
  <2>3. u[n] = NL
    BY <1>1
  <2> QED
    BY <2>2, <2>3
<1>5. ASSUME NEW i \in 1..(Len(t) - 1) PROVE t[i] # NL
  <2>1. i \in 1..(Len(buf) + n) /\ i < Len(buf) + n
    BY <1>2, Lengths
  <2>2. CASE i <= Len(buf)
    <3>1. i \in 1..Len(buf) /\ t[i] = buf[i]
      BY <1>2, <2>1, <2>2, Lengths
    <3> QED
      BY <3>1 DEF QueueInv
  <2>3. CASE i > Len(buf)
    <3>1. i - Len(buf) \in 1..(n - 1) /\ i - Len(buf) \in 1..n /\ ~(i <= Len(buf))
      BY <2>1, <2>3, Lengths
    <3>2. t[i] = u[i - Len(buf)]
      BY <1>2, <2>1, <3>1
    <3> QED
      BY <1>1, <3>1, <3>2
  <2> QED
    BY <2>1, <2>2, <2>3, Lengths
<1>6. ASSUME NEW i \in 1..Len(t) PROVE written[count + i] = t[i]
  <2>1. i \in 1..(Len(buf) + n)
    BY <1>2
  <2>2. CASE i <= Len(buf)
    <3>1. i \in 1..Len(buf) /\ t[i] = buf[i]
      BY <1>2, <2>1, <2>2, Lengths
    <3> QED
      BY <3>1 DEF QueueInv
  <2>3. CASE i > Len(buf)
    <3>1. /\ i - Len(buf) \in 1..n /\ i - Len(buf) \in 1..Len(inbuf)
          /\ ~(i <= Len(buf)) /\ count + Len(buf) + (i - Len(buf)) = count + i
      BY <2>1, <2>3, Lengths
    <3>2. t[i] = inbuf[i - Len(buf)]
      BY <1>1, <1>2, <2>1, <3>1
    <3>3. written[count + Len(buf) + (i - Len(buf))] = inbuf[i - Len(buf)]
      BY <3>1 DEF QueueInv
    <3> QED
      BY <3>1, <3>2, <3>3
  <2> QED
    BY <2>1, <2>2, <2>3, Lengths
<1> QED
  BY <1>2, <1>3, <1>4, <1>5, <1>6 DEF t, u

LEMMA TakeLineStep ==
    ASSUME RuntimeTypeOK, QueueInv, TakeLine
    PROVE  QueueInv'
<1>1. UNCHANGED <<written, pipe>>
  BY DEF TakeLine, world
<1>2. CASE \E n \in 1..Len(inbuf) :
             /\ inbuf[n] = NL /\ \A m \in 1..(n - 1) : inbuf[m] # NL
             /\ Send(buf \o SubSeq(inbuf, 1, n))
             /\ inbuf' = SubSeq(inbuf, n + 1, Len(inbuf))
             /\ buf' = <<>>
  <2>1. PICK n \in 1..Len(inbuf) :
             /\ inbuf[n] = NL /\ \A m \in 1..(n - 1) : inbuf[m] # NL
             /\ Send(buf \o SubSeq(inbuf, 1, n))
             /\ inbuf' = SubSeq(inbuf, n + 1, Len(inbuf))
             /\ buf' = <<>>
    BY <1>2
  <2>2. count' = count + Len(buf) + n
    <3>1. Len(buf \o SubSeq(inbuf, 1, n)) = Len(buf) + n
      BY <2>1, PieceTaken
    <3> QED
      BY <2>1, <3>1, Lengths DEF Send
  <2>3. /\ Len(inbuf') = Len(inbuf) - n /\ Len(buf') = 0
        /\ \A i \in 1..(Len(inbuf) - n) : inbuf'[i] = inbuf[n + i]
    BY <2>1, Lengths, Taken
  <2>4. Len(written') = count' + Len(buf') + Len(inbuf') + Len(pipe')
    BY <1>1, <2>2, <2>3, Lengths DEF QueueInv
  <2>5. ASSUME NEW i \in 1..Len(inbuf')
        PROVE  written'[count' + Len(buf') + i] = inbuf'[i]
    <3>0. i \in Nat /\ n \in Nat /\ i \in 1..(Len(inbuf) - n)
      BY <2>3
    <3>1. /\ n + i \in 1..Len(inbuf) /\ inbuf'[i] = inbuf[n + i]
          /\ count' + Len(buf') + i = count + Len(buf) + (n + i)
      <4>1. n + i \in 1..Len(inbuf)
        BY <3>0, Lengths
      <4>2. inbuf'[i] = inbuf[n + i]
        BY <2>3, <3>0
      <4>3. count' + Len(buf') + i = count + Len(buf) + (n + i)
        BY <2>2, <2>3, <3>0, Lengths
      <4> QED
        BY <4>1, <4>2, <4>3
    <3> QED
      BY <1>1, <3>1 DEF QueueInv
  <2>6. ASSUME NEW i \in 1..Len(pipe')
        PROVE  written'[count' + Len(buf') + Len(inbuf') + i] = pipe'[i]
    <3>1. count' + Len(buf') + Len(inbuf') + i = count + Len(buf) + Len(inbuf) + i
      BY <1>1, <2>2, <2>3, Lengths
    <3> QED
      BY <1>1, <3>1 DEF QueueInv
  <2> QED
    BY <2>3, <2>4, <2>5, <2>6 DEF QueueInv
<1>3. CASE /\ \A m \in 1..Len(inbuf) : inbuf[m] # NL
           /\ buf' = buf \o inbuf
           /\ inbuf' = <<>>
           /\ UNCHANGED <<count, chan>>
  <2>1. /\ Len(buf') = Len(buf) + Len(inbuf) /\ Len(inbuf') = 0
        /\ \A i \in 1..(Len(buf) + Len(inbuf)) :
              buf'[i] = IF i <= Len(buf) THEN buf[i] ELSE inbuf[i - Len(buf)]
    BY <1>3, Lengths, ConcatProperties
  <2>2. Len(written') = count' + Len(buf') + Len(inbuf') + Len(pipe')
    BY <1>1, <1>3, <2>1, Lengths DEF QueueInv
  <2>3. ASSUME NEW i \in 1..Len(buf')
        PROVE  written'[count' + i] = buf'[i] /\ buf'[i] # NL
    <3>1. CASE i <= Len(buf)
      BY <1>1, <1>3, <2>1, <3>1, Lengths DEF QueueInv
    <3>2. CASE i > Len(buf)
      <4>1. /\ i - Len(buf) \in 1..Len(inbuf) /\ buf'[i] = inbuf[i - Len(buf)]
            /\ count' + i = count + Len(buf) + (i - Len(buf))
        BY <1>3, <2>1, <3>2, Lengths
      <4>2. written[count + Len(buf) + (i - Len(buf))] = inbuf[i - Len(buf)]
        BY <4>1 DEF QueueInv
      <4> QED
        BY <1>1, <1>3, <4>1, <4>2
    <3> QED
      BY <3>1, <3>2, <2>1, Lengths
  <2>4. ASSUME NEW i \in 1..Len(pipe')
        PROVE  written'[count' + Len(buf') + Len(inbuf') + i] = pipe'[i]
    <3>1. count' + Len(buf') + Len(inbuf') + i = count + Len(buf) + Len(inbuf) + i
      BY <1>1, <1>3, <2>1, Lengths
    <3> QED
      BY <1>1, <3>1 DEF QueueInv
  <2> QED
    BY <2>1, <2>2, <2>3, <2>4 DEF QueueInv
<1> QED
  BY <1>2, <1>3 DEF TakeLine

LEMMA EofStep ==
    ASSUME RuntimeTypeOK, QueueInv, Eof
    PROVE  QueueInv'
<1>1. /\ UNCHANGED <<written, inbuf, pipe>> /\ buf' = <<>>
      /\ Len(inbuf) = 0 /\ Len(pipe) = 0
  BY DEF Eof, world
<1>2. count' = count + Len(buf)
  BY Lengths DEF Eof, Send
<1> QED
  BY <1>1, <1>2, Lengths DEF QueueInv

LEMMA WriteStep ==
    ASSUME RuntimeTypeOK, QueueInv, NEW p \in Procs, Write(p)
    PROVE  /\ QueueInv'
           /\ Len(written') = Len(written) + 1
           /\ \A i \in 1..Len(written) : written'[i] = written[i]
<1> DEFINE b == Head(todo[p])
<1>1. b \in Bytes
  <2>1. todo[p] \in Seq(Bytes \cup {SLEEP}) /\ todo[p] # <<>> /\ b # SLEEP
    BY DEF Write, RuntimeTypeOK
  <2> QED
    BY <2>1
<1>2. /\ UNCHANGED <<count, buf, inbuf>>
      /\ pipe' = Append(pipe, b) /\ written' = Append(written, b)
  BY DEF Write
<1> HIDE DEF b
<1>3. /\ Len(written') = Len(written) + 1 /\ written'[Len(written) + 1] = b
      /\ \A i \in 1..Len(written) : written'[i] = written[i]
  BY <1>1, <1>2, Lengths, AppendProperties
<1>4. /\ Len(pipe') = Len(pipe) + 1 /\ pipe'[Len(pipe) + 1] = b
      /\ \A i \in 1..Len(pipe) : pipe'[i] = pipe[i]
  BY <1>1, <1>2, Lengths, AppendProperties
<1>5. Len(written') = count' + Len(buf') + Len(inbuf') + Len(pipe')
  BY <1>2, <1>3, <1>4, Lengths DEF QueueInv
<1>6. ASSUME NEW i \in 1..Len(buf') PROVE written'[count' + i] = buf'[i] /\ buf'[i] # NL
  <2>1. count + i \in 1..Len(written) /\ i \in 1..Len(buf)
    BY <1>2, Lengths DEF QueueInv
  <2> QED
    BY <1>2, <1>3, <2>1 DEF QueueInv
<1>7. ASSUME NEW i \in 1..Len(inbuf') PROVE written'[count' + Len(buf') + i] = inbuf'[i]
  <2>1. count + Len(buf) + i \in 1..Len(written) /\ i \in 1..Len(inbuf)
    BY <1>2, Lengths DEF QueueInv
  <2> QED
    BY <1>2, <1>3, <2>1 DEF QueueInv
<1>8. ASSUME NEW i \in 1..Len(pipe')
      PROVE  written'[count' + Len(buf') + Len(inbuf') + i] = pipe'[i]
  <2>1. CASE i = Len(pipe) + 1
    <3>1. count + Len(buf) + Len(inbuf) + i = Len(written) + 1
      <4>1. Len(written) = count + Len(buf) + Len(inbuf) + Len(pipe)
        BY DEF QueueInv
      <4>2. /\ count \in Nat /\ Len(buf) \in Nat /\ Len(inbuf) \in Nat
            /\ Len(pipe) \in Nat
        BY Lengths
      <4> QED
        BY ONLY <2>1, <4>1, <4>2
    <3> QED
      BY <1>2, <1>3, <1>4, <2>1, <3>1
  <2>2. CASE i # Len(pipe) + 1
    <3>1. /\ count + Len(buf) + Len(inbuf) + i \in 1..Len(written)
          /\ i \in 1..Len(pipe)
      BY <1>4, <2>2, Lengths DEF QueueInv
    <3> QED
      BY <1>2, <1>3, <1>4, <3>1 DEF QueueInv
  <2> QED
    BY <2>1, <2>2
<1> QED
  BY <1>3, <1>5, <1>6, <1>7, <1>8 DEF QueueInv

LEMMA QueueStep == ASSUME RuntimeTypeOK, QueueInv, [Next]_vars PROVE QueueInv'
<1>1. CASE UNCHANGED moving \/ CollectLine
  <2>1. UNCHANGED <<written, count, buf, inbuf, pipe>>
    BY <1>1 DEF moving, CollectLine, world
  <2> QED
    BY <2>1 DEF QueueInv
<1> QED
  BY <1>1, BytesMove, FillStep, TakeLineStep, EofStep, WriteStep

LEMMA QueueInit == Init => QueueInv
BY DEF Init, QueueInv

-----------------------------------------------------------------------------
(***************************************************************************)
(* The lines.                                                              *)
(***************************************************************************)

(* Once drained, always drained. *)
LEMMA DrainedStays ==
    ASSUME RuntimeTypeOK, PhaseInv, Drained, [Next]_vars
    PROVE  Drained'
<1> ControlOK
  BY TypeParts
<1>0. /\ ~command /\ \A p \in Procs : proc[p] # "alive"
      /\ DOMAIN proc = Procs /\ main # "start" /\ command \in BOOLEAN
  BY DEF Drained, WriteEndOpen, ControlOK, PhaseInv
<1>1. ASSUME UNCHANGED <<buf, inbuf, pipe>>, reader' # "none", ~command',
             \A p \in Procs : proc'[p] # "alive"
      PROVE  Drained'
  BY <1>1 DEF Drained, WriteEndOpen
<1> USE <1>0 DEF world, stream, signal, result
<1>2. CASE DropCommand \/ InstallForwarder \/ StartReader
           \/ CollectLine \/ JoinReader \/ StopWatcher \/ JoinWatcher
           \/ Filter \/ WriteOut
  <2>1. CASE DropCommand
    BY <1>1, <2>1 DEF DropCommand, Drained
  <2>2. CASE InstallForwarder \/ StartReader \/ CollectLine \/ JoinReader
             \/ StopWatcher \/ JoinWatcher \/ Filter \/ WriteOut
    <3>1. UNCHANGED <<buf, inbuf, pipe, command, proc>>
      BY <2>2, Zenon DEF InstallForwarder, StartReader, CollectLine, JoinReader,
                  StopWatcher, JoinWatcher, Filter, WriteOut
    <3>2. reader' = reader \/ reader' = "reading"
      BY <2>2, Zenon DEF InstallForwarder, StartReader, CollectLine, JoinReader,
                  StopWatcher, JoinWatcher, Filter, WriteOut
    <3> QED
      BY <1>1, <3>1, <3>2 DEF Drained
  <2> QED
    BY <1>2, <2>1, <2>2
<1>3. CASE Wait
  <2>1. /\ UNCHANGED <<buf, inbuf, pipe, command, reader>>
        /\ proc' = [proc EXCEPT !["child"] = "gone"]
    BY <1>3, Zenon DEF Wait
  <2>2. \A p \in Procs : proc'[p] # "alive"
    BY <2>1
  <2> QED
    BY <1>1, <2>1, <2>2 DEF Drained
<1>4. CASE Spawn \/ Fork \/ Fill \/ TakeLine
  BY <1>4 DEF Spawn, Fork, Fill, TakeLine, Drained, Procs
<1>5. CASE Eof
  <2>1. /\ UNCHANGED <<inbuf, pipe, command, proc, buf>> /\ reader' \in {"closed", reader}
    BY <1>5 DEF Eof, Drained
  <2> QED
    BY <1>1, <2>1 DEF Drained
<1>6. CASE ReadError \/ Poll
  <2>1. UNCHANGED <<inbuf, pipe, command, proc, buf>> /\ reader' \in {"failed", reader}
    BY <1>6 DEF ReadError, Poll
  <2> QED
    BY <1>1, <2>1 DEF Drained
<1>7. CASE Kill
  <2>1. UNCHANGED <<inbuf, pipe, command, proc, buf, reader>>
    BY <1>7, Zenon DEF Kill, Procs
  <2> QED
    BY <1>1, <2>1 DEF Drained
<1>8. ASSUME NEW p \in Procs, Write(p) \/ Exits(p) \/ BrokenPipe(p) PROVE FALSE
  BY <1>8, Zenon DEF Write, Exits, BrokenPipe, Ends
<1>9. ASSUME NEW s \in Signals, Interrupt(s) PROVE Drained'
  <2>1. UNCHANGED <<inbuf, pipe, proc, buf, reader>>
    BY <1>9, Zenon DEF Interrupt
  <2>2. ~command'
    BY <1>9, Zenon DEF Interrupt
  <2> QED
    BY <1>1, <2>1, <2>2 DEF Drained
<1>10. CASE UNCHANGED vars
  <2>1. UNCHANGED <<inbuf, pipe, command, proc, buf, reader>>
    BY <1>10 DEF vars
  <2> QED
    BY <1>1, <2>1 DEF Drained
<1> QED
  BY NextCases, <1>2, <1>3, <1>4, <1>5, <1>6, <1>7, <1>8, <1>9, <1>10

(* Sending the bytes that come next makes a line of them. *)
LEMMA SendStep ==
    ASSUME RuntimeTypeOK, LinesInv, ~Drained, UNCHANGED <<written, raw>>,
           NEW t \in Seq(Bytes), Send(t), t # <<>>,
           count + Len(t) <= Len(written),
           \A i \in 1..(Len(t) - 1) : t[i] # NL,
           \A i \in 1..Len(t) : written[count + i] = t[i]
    PROVE  IsLinesOf((raw \o chan)', Consumed') /\ count' = count + Len(t)
<1>1. /\ count \in Nat /\ Len(t) \in Nat \ {0} /\ Len(written) \in Nat
      /\ written \in Seq(Bytes)
  BY Lengths
<1>2. /\ Consumed \in Seq(Bytes) /\ Len(Consumed) = count
      /\ \A i \in 1..count : Consumed[i] = written[i]
  <2>1. count <= Len(written)
    BY <1>1
  <2> QED
    BY <2>1, ConsumedType
<1>3. Piece(Consumed, t)
  <2>1. ASSUME Consumed # <<>> PROVE Consumed[Len(Consumed)] = NL
    <3>1. count # 0 /\ count \in 1..count
      BY <1>1, <1>2, <2>1
    <3>2. written[count] = NL
      BY <3>1 DEF LinesInv
    <3> QED
      BY <1>2, <3>1, <3>2
  <2> QED
    BY <2>1 DEF Piece
<1>4. count' = count + Len(t) /\ chan' = Append(chan, LineOf(t))
  BY DEF Send
<1>5. Consumed' = Consumed \o t
  <2> DEFINE w == SubSeq(written, 1, count + Len(t))
  <2>1. count + Len(t) \in 1..Len(written)
    BY <1>1
  <2>2. /\ w \in Seq(Bytes) /\ Len(w) = count + Len(t)
        /\ \A i \in 1..(count + Len(t)) : w[i] = written[i]
    BY <1>1, <2>1, Taken
  <2>3. /\ Consumed \o t \in Seq(Bytes) /\ Len(Consumed \o t) = count + Len(t)
        /\ \A i \in 1..(count + Len(t)) :
              (Consumed \o t)[i] = IF i <= count THEN Consumed[i] ELSE t[i - count]
    <3>1. /\ Consumed \o t \in Seq(Bytes)
          /\ Len(Consumed \o t) = Len(Consumed) + Len(t)
          /\ \A i \in 1..(Len(Consumed) + Len(t)) :
                (Consumed \o t)[i]
                   = IF i <= Len(Consumed) THEN Consumed[i] ELSE t[i - Len(Consumed)]
      BY <1>2, Joined, Zenon
    <3> QED
      BY <1>2, <3>1, Zenon
  <2> HIDE DEF w
  <2>4. ASSUME NEW i \in 1..(count + Len(t)) PROVE w[i] = (Consumed \o t)[i]
    <3>1. CASE i <= count
      <4>1. i \in 1..count
        BY <1>1, <3>1
      <4>2. w[i] = written[i] /\ (Consumed \o t)[i] = Consumed[i]
        BY <2>2, <2>3, <3>1
      <4> QED
        BY <1>2, <4>1, <4>2
    <3>2. CASE i > count
      <4>1. i - count \in 1..Len(t) /\ count + (i - count) = i /\ ~(i <= count)
        BY <1>1, <3>2
      <4>2. written[count + (i - count)] = t[i - count]
        BY <4>1
      <4>3. w[i] = written[i] /\ (Consumed \o t)[i] = t[i - count]
        BY <2>2, <2>3, <4>1
      <4> QED
        BY <4>1, <4>2, <4>3
    <3>3. i <= count \/ i > count
      BY <1>1
    <3> QED
      BY <3>1, <3>2, <3>3, Zenon
  <2>5. w = Consumed \o t
    BY <2>2, <2>3, <2>4, SeqEqual
  <2>6. Consumed' = w
    BY <1>4 DEF Consumed, w
  <2> QED
    BY <2>5, <2>6
<1>6. (raw \o chan)' = Append(raw \o chan, LineOf(t)) /\ raw \o chan \in Seq(Line)
  <2>1. LineOf(t) \in Line /\ raw \in Seq(Line) /\ chan \in Seq(Line)
    BY LineOfType DEF RuntimeTypeOK
  <2>2. raw \o chan \in Seq(Line) /\ <<LineOf(t)>> \in Seq(Line)
    BY <2>1, ConcatProperties
  <2>3. Append(raw \o chan, LineOf(t)) = (raw \o chan) \o <<LineOf(t)>>
    BY <2>1, <2>2, AppendIsConcat
  <2>4. Append(chan, LineOf(t)) = chan \o <<LineOf(t)>>
    BY <2>1, AppendIsConcat
  <2>5. (raw \o chan) \o <<LineOf(t)>> = raw \o (chan \o <<LineOf(t)>>)
    BY <2>1, <2>2, ConcatAssociative
  <2> QED
    BY <1>4, <2>2, <2>3, <2>4, <2>5
<1>7. IsLinesOf(Append(raw \o chan, LineOf(t)), Consumed \o t)
  BY <1>2, <1>3, <1>6, AddLine DEF LinesInv
<1> QED
  BY <1>4, <1>5, <1>6, <1>7, Zenon

LEMMA LinesStep ==
    ASSUME RuntimeTypeOK, PhaseInv, QueueInv, LinesInv, [Next]_vars
    PROVE  LinesInv'
<1>0. count <= Len(written)
  BY Lengths DEF QueueInv
<1>1. CASE UNCHANGED moving
  <2>1. UNCHANGED <<written, count, raw, chan>>
    BY <1>1 DEF moving
  <2> QED
    BY <2>1, DrainedStays DEF LinesInv, Consumed
<1>2. CASE CollectLine
  <2>1. UNCHANGED <<written, count>>
    BY <1>2 DEF CollectLine, world
  <2>2. (raw \o chan)' = raw \o chan
    <3>1. raw \in Seq(Line) /\ chan \in Seq(Line) /\ chan # <<>>
      BY <1>2 DEF CollectLine, RuntimeTypeOK
    <3>2. /\ Head(chan) \in Line /\ Tail(chan) \in Seq(Line)
          /\ <<Head(chan)>> \in Seq(Line)
      BY <3>1, HeadTailProperties
    <3>3. Append(raw, Head(chan)) = raw \o <<Head(chan)>>
      BY <3>1, <3>2, AppendIsConcat
    <3>4. (raw \o <<Head(chan)>>) \o Tail(chan) = raw \o (<<Head(chan)>> \o Tail(chan))
      BY <3>1, <3>2, ConcatAssociative
    <3>5. <<Head(chan)>> \o Tail(chan) = chan
      BY <3>1
    <3> QED
      BY <1>2, <3>3, <3>4, <3>5 DEF CollectLine
  <2>3. Consumed' = Consumed
    BY <2>1 DEF Consumed
  <2> QED
    BY <2>1, <2>2, <2>3, DrainedStays DEF LinesInv
<1>3. CASE Fill
  <2>1. UNCHANGED <<written, count, raw, chan>> /\ ~Drained
    BY <1>3 DEF Fill, world, Drained
  <2> QED
    BY <2>1 DEF LinesInv, Consumed
<1>4. CASE TakeLine
  <2>0. UNCHANGED <<written, raw>> /\ ~Drained
    BY <1>4 DEF TakeLine, world, Drained
  <2>1. CASE UNCHANGED <<count, chan>>
    BY <2>0, <2>1 DEF LinesInv, Consumed
  <2>2. CASE \E n \in 1..Len(inbuf) :
             /\ inbuf[n] = NL /\ \A m \in 1..(n - 1) : inbuf[m] # NL
             /\ Send(buf \o SubSeq(inbuf, 1, n))
    <3>1. PICK n \in 1..Len(inbuf) :
             /\ inbuf[n] = NL /\ \A m \in 1..(n - 1) : inbuf[m] # NL
             /\ Send(buf \o SubSeq(inbuf, 1, n))
      BY <2>2
    <3> DEFINE t == buf \o SubSeq(inbuf, 1, n)
    <3>2. /\ t \in Seq(Bytes) /\ Len(t) = Len(buf) + n /\ t # <<>>
          /\ t[Len(t)] = NL
          /\ \A i \in 1..(Len(t) - 1) : t[i] # NL
          /\ \A i \in 1..Len(t) : written[count + i] = t[i]
      BY <3>1, PieceTaken
    <3>3. Send(t)
      BY <3>1
    <3> HIDE DEF t
    <3>4. count + Len(t) <= Len(written)
      BY <3>2, Lengths DEF QueueInv
    <3>5. IsLinesOf((raw \o chan)', Consumed') /\ count' = count + Len(t)
      BY <2>0, <3>2, <3>3, <3>4, SendStep
    <3>6. written'[count'] = NL
      <4>1. Len(t) \in 1..Len(t)
        BY <3>2
      <4> QED
        BY <2>0, <3>2, <3>5, <4>1
    <3> QED
      BY <3>5, <3>6 DEF LinesInv
  <2> QED
    BY <1>4, <2>1, <2>2, Zenon DEF TakeLine
<1>5. CASE Eof
  <2>0. /\ UNCHANGED <<written, raw>>
        /\ inbuf = <<>> /\ pipe = <<>> /\ ~WriteEndOpen /\ reader = "reading"
    BY <1>5 DEF Eof, world
  <2>1. CASE buf # <<>> /\ Send(buf)
    <3>1. ~Drained
      BY <2>1 DEF Drained
    <3>2. /\ buf \in Seq(Bytes) /\ count + Len(buf) <= Len(written)
          /\ \A i \in 1..(Len(buf) - 1) : buf[i] # NL
          /\ \A i \in 1..Len(buf) : written[count + i] = buf[i]
      BY Lengths DEF QueueInv
    <3>3. IsLinesOf((raw \o chan)', Consumed')
      BY <2>0, <2>1, <3>1, <3>2, SendStep
    <3>4. Drained'
      <4>1. buf' = <<>> /\ UNCHANGED <<inbuf, pipe, command, proc>> /\ reader' # "none"
        BY <1>5, <2>0 DEF Eof, world
      <4> QED
        BY <2>0, <4>1 DEF Drained, WriteEndOpen
    <3> QED
      BY <3>3, <3>4 DEF LinesInv
  <2>2. CASE UNCHANGED <<count, chan>>
    BY <2>0, <2>2, DrainedStays DEF LinesInv, Consumed
  <2> QED
    BY <1>5, <2>1, <2>2, Zenon DEF Eof
<1>6. ASSUME NEW p \in Procs, Write(p) PROVE LinesInv'
  <2>1. UNCHANGED <<count, raw, chan>> /\ ~Drained
    BY <1>6 DEF Write, Drained, WriteEndOpen
  <2>2. \A i \in 1..Len(written) : written'[i] = written[i]
    BY <1>6, WriteStep
  <2>3. Consumed' = Consumed
    <3>1. Len(written') = Len(written) + 1 /\ RuntimeTypeOK'
      BY <1>6, WriteStep, ControlStep, StreamStep DEF RuntimeTypeOK, StreamOK, ControlOK
    <3>2. /\ Consumed \in Seq(Bytes) /\ Len(Consumed) = count
          /\ \A i \in 1..count : Consumed[i] = written[i]
      BY <1>0, ConsumedType
    <3>3. CASE count = 0
      BY <2>1, <3>3, SubSeqEmpty DEF Consumed
    <3>4. CASE count # 0
      <4>1. count \in 1..Len(written') /\ written' \in Seq(Bytes)
        BY <1>0, <3>1, <3>4, Lengths DEF RuntimeTypeOK
      <4>2. /\ SubSeq(written', 1, count) \in Seq(Bytes)
            /\ Len(SubSeq(written', 1, count)) = count
            /\ \A i \in 1..count : SubSeq(written', 1, count)[i] = written'[i]
        BY <4>1, Taken
      <4>3. \A i \in 1..count : written'[i] = written[i]
        BY <1>0, <2>2, Lengths
      <4>4. SubSeq(written', 1, count) = Consumed
        BY <3>2, <4>2, <4>3, SeqEqual
      <4> QED
        BY <2>1, <4>4 DEF Consumed
    <3> QED
      BY <3>3, <3>4
  <2>4. count # 0 => written'[count'] = written[count]
    <3>1. count # 0 => count \in 1..Len(written)
      BY <1>0, Lengths
    <3> QED
      BY <2>1, <2>2, <3>1
  <2> QED
    BY <2>1, <2>3, <2>4 DEF LinesInv
<1> QED
  BY BytesMove, <1>1, <1>2, <1>3, <1>4, <1>5, <1>6

LEMMA LinesInit == Init => LinesInv
<1> SUFFICES ASSUME Init PROVE LinesInv
  OBVIOUS
<1>1. raw \o chan = <<>> /\ Consumed = <<>> /\ count = 0
  BY DEF Init, Consumed
<1>2. LineEnds(<<>>) = {}
  BY DEF LineEnds
<1>3. IsLinesOf(<<>>, <<>>)
  <2>1. Cardinality(LineEnds(<<>>)) = 0
    BY <1>2, FS_EmptySet
  <2> QED
    BY <1>2, <2>1 DEF IsLinesOf
<1> QED
  BY <1>1, <1>3 DEF LinesInv

LEMMA ClosedInit == Init => ClosedInv
BY DEF Init, ClosedInv

LEMMA ClosedStep ==
    ASSUME RuntimeTypeOK, PhaseInv, ClosedInv, [Next]_vars
    PROVE  ClosedInv'
<1> USE DEF world, stream, signal, result
<1>1. CASE Eof
  <2>1. /\ inbuf' = <<>> /\ pipe' = <<>> /\ ~WriteEndOpen /\ buf' = <<>>
        /\ UNCHANGED <<command, proc, main>> /\ reader' \in {"reading", "closed"}
        /\ reader = "reading"
    BY <1>1 DEF Eof
  <2>2. Drained'
    BY <2>1 DEF Drained, WriteEndOpen
  <2> QED
    BY <2>1, <2>2 DEF ClosedInv
<1>2. CASE ~Eof
  <2>1. reader' = "closed" => reader = "closed"
    <3>1. CASE Spawn \/ DropCommand \/ InstallForwarder \/ StartReader
               \/ CollectLine \/ JoinReader \/ Wait \/ StopWatcher \/ JoinWatcher
               \/ Filter \/ WriteOut
      BY <3>1 DEF Spawn, DropCommand, InstallForwarder, StartReader,
              CollectLine, JoinReader, Wait, StopWatcher, JoinWatcher,
              Filter, WriteOut
    <3>2. CASE Fill \/ TakeLine \/ ReadError \/ Poll \/ Kill \/ Fork
      BY <3>2 DEF Fill, TakeLine, ReadError, Poll, Kill, Fork
    <3>3. ASSUME NEW p \in Procs, Write(p) \/ Exits(p) \/ BrokenPipe(p)
          PROVE  reader' = reader
      BY <3>3, Zenon DEF Write, Exits, BrokenPipe, Ends
    <3>4. ASSUME NEW s \in Signals, Interrupt(s) PROVE reader' = reader
      BY <3>4, Zenon DEF Interrupt
    <3>5. CASE UNCHANGED vars
      BY <3>5 DEF vars
    <3> QED
      BY NextCases, <1>2, <3>1, <3>2, <3>3, <3>4, <3>5
  <2>2. (main \in {"wait", "stop", "join", "filter", "write"} /\ reader # "none"
            => reader \in {"closed", "failed"} /\ chan = <<>>)'
    <3> USE DEF Finish, Ended, ClosedInv
    <3>1. CASE Spawn
      BY <3>1 DEF Spawn, PhaseInv
    <3>2. CASE DropCommand \/ InstallForwarder \/ StartReader \/ CollectLine
      BY <3>2 DEF DropCommand, InstallForwarder, StartReader, CollectLine
    <3>3. CASE JoinReader
      BY <3>3 DEF JoinReader
    <3>4. CASE Wait \/ StopWatcher \/ JoinWatcher \/ Filter \/ WriteOut
      BY <3>4 DEF Wait, StopWatcher, JoinWatcher, Filter, WriteOut
    <3>5. CASE Fill \/ TakeLine \/ ReadError
      BY <3>5 DEF Fill, TakeLine, ReadError
    <3>6. CASE Poll \/ Kill \/ Fork
      BY <3>6 DEF Poll, Kill, Fork
    <3>7. ASSUME NEW p \in Procs, Write(p) \/ Exits(p) \/ BrokenPipe(p)
          PROVE  UNCHANGED <<main, reader, chan>>
      BY <3>7, Zenon DEF Write, Exits, BrokenPipe, Ends
    <3>8. ASSUME NEW s \in Signals, Interrupt(s)
          PROVE  UNCHANGED <<reader, chan>> /\ main' \in {main, "killed"}
      BY <3>8 DEF Interrupt
    <3>9. CASE UNCHANGED vars
      BY <3>9 DEF vars
    <3> QED
      BY NextCases, <1>2, <3>1, <3>2, <3>3, <3>4, <3>5, <3>6, <3>7, <3>8, <3>9
  <2> QED
    BY <2>1, <2>2, DrainedStays DEF ClosedInv
<1> QED
  BY <1>1, <1>2

(* What the pipeline is given is all that the child and its descendants wrote,
   split into lines, and every byte of it is counted: for any pipe, buffer and
   line cap, any plan of bytes and any signals. *)
THEOREM OutputIntactAlways == Spec => []OutputIntact
<1> DEFINE IInv == QueueInv /\ LinesInv /\ ClosedInv
<1>1. Init => IInv
  BY QueueInit, LinesInit, ClosedInit
<1>2. RuntimeTypeOK /\ OutcomeInv /\ IInv /\ [Next]_vars => IInv'
  <2> SUFFICES ASSUME RuntimeTypeOK, PhaseInv, QueueInv, LinesInv, ClosedInv, [Next]_vars
               PROVE  IInv'
    BY DEF OutcomeInv
  <2> QED
    BY QueueStep, LinesStep, ClosedStep
<1>3. RuntimeTypeOK /\ IInv => OutputIntact
  <2> SUFFICES ASSUME RuntimeTypeOK, IInv, main \in {"filter", "write"}, reader = "closed"
               PROVE  IsLinesOf(raw, written) /\ count = Len(written)
    BY DEF OutputIntact
  <2>1. buf = <<>> /\ inbuf = <<>> /\ pipe = <<>> /\ chan = <<>>
    BY DEF ClosedInv, Drained
  <2>2. count = Len(written)
    BY <2>1, Lengths DEF QueueInv
  <2>3. Consumed = written
    BY <2>2, Lengths, SubSeqFull DEF Consumed
  <2>4. raw \o chan = raw
    BY <2>1, ConcatEmptySeq DEF RuntimeTypeOK
  <2>5. IsLinesOf(raw \o chan, Consumed)
    BY DEF LinesInv
  <2> QED
    BY <2>2, <2>3, <2>4, <2>5
<1>4. RuntimeTypeOK /\ OutcomeInv /\ [Next]_vars => OutcomeInv'
  BY OutcomeStep
<1> QED
  BY <1>1, <1>2, <1>3, <1>4, OutcomeInit, RuntimeTypeCorrect, PTL DEF Spec
=============================================================================
