------------------------------- MODULE Runtime -------------------------------
(***************************************************************************)
(* One `lacon run` (crates/lacon-core/src/runtime/mod.rs, Runner::run, and *)
(* its caller in commands/run.rs): three threads - main, the reader of the *)
(* merged pipe, the signal watcher - around a child that may leave         *)
(* processes of its own behind, and a user who sends signals to lacon.     *)
(*                                                                         *)
(* What the child does is chosen in Init (`todo`): the bytes it writes to  *)
(* the pipe that is both its stdout and its stderr, after which it exits.  *)
(* A byte is a letter or the newline; a write blocks while the pipe is     *)
(* full, and kills its writer when nobody can read the pipe any more.      *)
(*                                                                         *)
(* `written`, `delivered` and `lateKill` are history: nothing reads them.  *)
(***************************************************************************)
EXTENDS Naturals, Sequences, FiniteSets

CONSTANTS
    Letters,     \* the bytes other than the newline
    NL,          \* the newline
    SLEEP,       \* in a plan: the process waits for what never comes
    PipeSize,    \* capacity of the pipe, in bytes
    BufSize,     \* capacity of the BufReader
    LineCap,     \* MAX_LINE_BYTES
    Plans,       \* what the child may write
    HeirPlans,   \* what a process that the child leaves behind may write
    Codes,       \* the exit codes of the child
    Signals,     \* the signals that lacon forwards: SIGTERM, SIGINT
    MaxSignals,  \* bound: signals the user sends
    ReadErrors,  \* TRUE: a read of the pipe may fail
    FilterErrors \* TRUE: a post_process script may raise, stdout may be closed

SIGPIPE == 13

ASSUME RuntimeAssumption ==
    /\ NL \notin Letters /\ SLEEP \notin Letters \cup {NL}
    /\ PipeSize \in Nat \ {0} /\ BufSize \in Nat \ {0} /\ LineCap \in Nat \ {0}
    /\ Plans \subseteq Seq(Letters \cup {NL, SLEEP})
    /\ HeirPlans \subseteq Seq(Letters \cup {NL, SLEEP})
    /\ Codes \subseteq 0..255
    /\ Signals \subseteq 1..64
    /\ MaxSignals \in Nat
    /\ ReadErrors \in BOOLEAN /\ FilterErrors \in BOOLEAN

Procs == {"child", "heir"}

VARIABLES
    rule,      \* what this run filters by: [matched, onError]
    main,      \* where the main thread is
    proc,      \* Procs -> "none", "alive", "zombie" or "gone"
    todo,      \* Procs -> the bytes a process has yet to write
    status,    \* how the child ended: [sig, n]
    command,   \* TRUE while `cmd` holds its copies of the pipe's write end
    pipe,      \* the bytes in the pipe
    reader,    \* the reader thread: "none", "reading", "closed"
               \* (after EOF) or "failed"
    inbuf,     \* BufReader's buffer
    buf,       \* the line that read_until is collecting
    count,     \* raw_byte_counter
    chan,      \* the channel of lines
    raw,       \* raw_buffer
    watcher,   \* the signal watcher: "none", "poll", "kill" or "end"
    stop,      \* stop_flag
    pending,   \* the signals that lacon has received and not taken
    branch,    \* the pipeline chosen, and whether it was written out
    exit,      \* the exit code of lacon
    sent,      \* signals sent so far
    written, delivered, lateKill

vars == <<rule, main, proc, todo, status, command, pipe, reader, inbuf, buf,
          count, chan, raw, watcher, stop, pending, branch, exit, sent,
          written, delivered, lateKill>>

(* What belongs to each side, for UNCHANGED. *)
world  == <<proc, todo, status, written, delivered, sent>>
stream == <<pipe, reader, inbuf, buf, count, chan, raw>>
signal == <<watcher, stop, pending, lateKill>>
result == <<branch, exit>>

Bytes == Letters \cup {NL}
Line == [text : Seq(Bytes), cut : BOOLEAN]
Running == [sig |-> FALSE, n |-> 256]
NoExit == 256
Ended == {"done", "killed"}

RuntimeTypeOK ==
    /\ rule \in [matched : BOOLEAN, onError : BOOLEAN]
    /\ main \in {"start", "spawned", "dropped", "guarded", "collect", "wait",
                 "stop", "join", "filter", "write"} \cup Ended
    /\ proc \in [Procs -> {"none", "alive", "zombie", "gone"}]
    /\ todo \in [Procs -> Seq(Bytes \cup {SLEEP})]
    /\ status \in [sig : BOOLEAN, n : Nat]
    /\ command \in BOOLEAN
    /\ pipe \in Seq(Bytes) /\ Len(pipe) <= PipeSize
    /\ reader \in {"none", "reading", "closed", "failed"}
    /\ inbuf \in Seq(Bytes) /\ Len(inbuf) <= BufSize
    /\ buf \in Seq(Bytes)
    /\ count \in Nat
    /\ chan \in Seq(Line) /\ raw \in Seq(Line)
    /\ watcher \in {"none", "poll", "kill", "end"}
    /\ stop \in BOOLEAN
    /\ pending \subseteq Signals
    /\ branch \in {"none", "success", "on_error", "raw"}
    /\ exit \in Nat
    /\ sent \in Nat
    /\ written \in Seq(Bytes)
    /\ delivered \subseteq Signals
    /\ lateKill \in BOOLEAN

Init ==
    /\ rule \in [matched : BOOLEAN, onError : BOOLEAN]
    /\ rule.onError => rule.matched
    /\ main = "start"
    /\ proc = [p \in Procs |-> "none"]
    /\ \E c \in Plans, h \in HeirPlans :
          todo = [p \in Procs |-> IF p = "child" THEN c ELSE h]
    /\ ~rule.matched => \A p \in Procs : todo[p] = <<>>
    /\ status = Running
    /\ command = FALSE
    /\ pipe = <<>> /\ reader = "none" /\ inbuf = <<>> /\ buf = <<>>
    /\ count = 0 /\ chan = <<>> /\ raw = <<>>
    /\ watcher = "none" /\ stop = FALSE /\ pending = {}
    /\ branch = "none" /\ exit = NoExit
    /\ sent = 0 /\ written = <<>> /\ delivered = {} /\ lateKill = FALSE

(* Mutant: a signal is no failure (status.code().unwrap_or(0)). *)
ExitCodeIgnoringSignal(st) == IF st.sig THEN 0 ELSE st.n

ExitCode(st) == IF st.sig THEN 128 + st.n ELSE st.n

Finish(code) == main' = "done" /\ exit' = code

-----------------------------------------------------------------------------
(***************************************************************************)
(* The main thread                                                         *)
(***************************************************************************)

(* cmd.spawn().  An unmatched or bypassed run gives the child lacon's own
   stdout and stderr and goes straight to the wait. *)
Spawn ==
    /\ main = "start"
    /\ \/ /\ proc' = [proc EXCEPT !["child"] = "alive"]
          /\ main' = IF rule.matched THEN "spawned" ELSE "wait"
          /\ command' = rule.matched
          /\ UNCHANGED exit
       \/ Finish(127) /\ UNCHANGED <<proc, command>>
    /\ UNCHANGED <<rule, todo, status, written, delivered, sent, stream, signal, branch>>

(* Mutant: cmd lives on until run() returns. *)
DropCommandNever ==
    /\ main = "spawned"
    /\ main' = "dropped"
    /\ UNCHANGED <<rule, world, command, stream, signal, result>>

(* drop(cmd) *)
DropCommand ==
    /\ main = "spawned"
    /\ command' = FALSE
    /\ main' = "dropped"
    /\ UNCHANGED <<rule, world, stream, signal, result>>

(* install_signal_forwarder: from here on a signal does not kill lacon. *)
InstallForwarder ==
    /\ main = "dropped"
    /\ watcher' = "poll"
    /\ main' = "guarded"
    /\ UNCHANGED <<rule, world, command, stream, stop, pending, lateKill, result>>

StartReader ==
    /\ main = "guarded"
    /\ reader' = "reading"
    /\ main' = "collect"
    /\ UNCHANGED <<rule, world, command, pipe, inbuf, buf, count, chan, raw,
                   signal, result>>

(* for line in rx.iter() *)
CollectLine ==
    /\ main = "collect"
    /\ chan # <<>>
    /\ raw' = Append(raw, Head(chan))
    /\ chan' = Tail(chan)
    /\ UNCHANGED <<rule, main, world, command, pipe, reader, inbuf, buf, count,
                   signal, result>>

(* The channel closes when the reader thread ends; its result is ignored. *)
JoinReader ==
    /\ main = "collect"
    /\ chan = <<>> /\ reader \in {"closed", "failed"}
    /\ main' = "wait"
    /\ UNCHANGED <<rule, world, command, stream, signal, result>>

(* child.wait() *)
Wait ==
    /\ main = "wait"
    /\ proc["child"] = "zombie"
    /\ proc' = [proc EXCEPT !["child"] = "gone"]
    /\ IF rule.matched THEN main' = "stop" /\ UNCHANGED exit
                       ELSE Finish(ExitCode(status))
    /\ UNCHANGED <<rule, todo, status, written, delivered, sent, command, stream,
                   signal, branch>>

StopWatcher ==
    /\ main = "stop"
    /\ stop' = TRUE
    /\ main' = "join"
    /\ UNCHANGED <<rule, world, command, stream, watcher, pending, lateKill, result>>

(* Mutant: the watcher is left to itself. *)
JoinWatcherNot ==
    /\ main = "join"
    /\ main' = "filter"
    /\ UNCHANGED <<rule, world, command, stream, signal, result>>

JoinWatcher ==
    /\ main = "join"
    /\ watcher = "end"
    /\ main' = "filter"
    /\ UNCHANGED <<rule, world, command, stream, signal, result>>

(* The exit code chooses the pipeline (ADR-0010); its script may raise, and the
   error ends the run with a code of lacon's own and no output. *)
Filter ==
    /\ main = "filter"
    /\ \/ /\ branch' = IF ExitCode(status) = 0 THEN "success"
                       ELSE IF rule.onError THEN "on_error" ELSE "raw"
          /\ main' = "write"
          /\ UNCHANGED exit
       \/ /\ FilterErrors
          /\ ExitCode(status) = 0 \/ rule.onError
          /\ Finish(1)
          /\ UNCHANGED branch
    /\ UNCHANGED <<rule, world, command, stream, signal>>

WriteOut ==
    /\ main = "write"
    /\ Finish(ExitCode(status)) \/ (FilterErrors /\ Finish(1))
    /\ UNCHANGED <<rule, world, command, stream, signal, branch>>

Main == \/ Spawn \/ DropCommand \/ InstallForwarder \/ StartReader
        \/ CollectLine \/ JoinReader \/ Wait \/ StopWatcher \/ JoinWatcher
        \/ Filter \/ WriteOut

-----------------------------------------------------------------------------
(***************************************************************************)
(* The reader thread                                                       *)
(***************************************************************************)

(* The processes that hold the write end keep the reader from its EOF. *)
WriteEndOpen == command \/ \E p \in Procs : proc[p] = "alive"

(* Nobody will ever read the pipe again. *)
ReadEndClosed == reader \in {"closed", "failed"} \/ main = "killed"

(* The reader's loop body after read_until: cap the line, strip its newline. *)
LineOf(bytes) ==
    LET t == SubSeq(bytes, 1, IF Len(bytes) > LineCap THEN LineCap ELSE Len(bytes))
    IN  [text |-> IF t # <<>> /\ t[Len(t)] = NL THEN SubSeq(t, 1, Len(t) - 1) ELSE t,
         cut  |-> Len(bytes) > LineCap]

(* Mutant: counts what is left of the cap, below zero for a long line. *)
SendCountingRest(bytes) ==
    /\ count' = LineCap - Len(bytes)
    /\ chan' = Append(chan, LineOf(bytes))

Send(bytes) ==
    /\ count' = count + Len(bytes)
    /\ chan' = Append(chan, LineOf(bytes))

(* One read(2) of the pipe into the BufReader. *)
Fill ==
    /\ reader = "reading"
    /\ inbuf = <<>> /\ pipe # <<>>
    /\ \E n \in 1..Len(pipe) :
          /\ n <= BufSize /\ (n = BufSize \/ n = Len(pipe))
          /\ inbuf' = SubSeq(pipe, 1, n)
          /\ pipe' = SubSeq(pipe, n + 1, Len(pipe))
    /\ UNCHANGED <<rule, main, world, command, reader, buf, count, chan, raw,
                   signal, result>>

(* read_until finds a newline in the buffer, or takes all of it and reads on. *)
TakeLine ==
    /\ reader = "reading"
    /\ inbuf # <<>>
    /\ \/ \E n \in 1..Len(inbuf) :
             /\ inbuf[n] = NL /\ \A m \in 1..(n - 1) : inbuf[m] # NL
             /\ Send(buf \o SubSeq(inbuf, 1, n))
             /\ inbuf' = SubSeq(inbuf, n + 1, Len(inbuf))
             /\ buf' = <<>>
       \/ /\ \A m \in 1..Len(inbuf) : inbuf[m] # NL
          /\ buf' = buf \o inbuf
          /\ inbuf' = <<>>
          /\ UNCHANGED <<count, chan>>
    /\ UNCHANGED <<rule, main, world, command, pipe, reader, raw, signal, result>>

(* Mutant: a last line without its newline is not a line. *)
EofDroppingRest ==
    /\ reader = "reading"
    /\ inbuf = <<>> /\ pipe = <<>> /\ ~WriteEndOpen
    /\ reader' = "closed"
    /\ UNCHANGED <<rule, main, world, command, pipe, inbuf, buf, count, chan, raw,
                   signal, result>>

(* EOF: an unterminated last line is a line; after it read_until returns 0. *)
Eof ==
    /\ reader = "reading"
    /\ inbuf = <<>> /\ pipe = <<>> /\ ~WriteEndOpen
    /\ \/ buf # <<>> /\ Send(buf) /\ buf' = <<>> /\ UNCHANGED reader
       \/ buf = <<>> /\ reader' = "closed" /\ UNCHANGED <<buf, count, chan>>
    /\ UNCHANGED <<rule, main, world, command, pipe, inbuf, raw, signal, result>>

(* read_until fails: the thread ends, nobody looks at its error. *)
ReadError ==
    /\ ReadErrors
    /\ reader = "reading" /\ inbuf = <<>>
    /\ reader' = "failed"
    /\ UNCHANGED <<rule, main, world, command, pipe, inbuf, buf, count, chan, raw,
                   signal, result>>

Reader == Fill \/ TakeLine \/ Eof

-----------------------------------------------------------------------------
(***************************************************************************)
(* The signal watcher: every 50 ms, look at stop_flag, then take what is   *)
(* pending and kill(child_pid) with it.                                    *)
(***************************************************************************)

(* Mutant: takes the pending signals and forgets them. *)
PollForgetting ==
    /\ watcher = "poll"
    /\ \/ ~stop /\ pending # {} /\ pending' = {} /\ UNCHANGED watcher
       \/ stop /\ watcher' = "end" /\ pending' = {}
    /\ UNCHANGED <<rule, main, world, command, stream, stop, lateKill, result>>

Poll ==
    /\ watcher = "poll"
    /\ \/ ~stop /\ pending # {} /\ watcher' = "kill" /\ UNCHANGED pending
       \/ stop /\ watcher' = "end" /\ pending' = {}
    /\ UNCHANGED <<rule, main, world, command, stream, stop, lateKill, result>>

(* The child may handle the signal or die of it.  A zombie is signalled in
   vain; once the child is reaped its pid is anybody's. *)
Kill ==
    /\ watcher = "kill"
    /\ pending' = {}
    /\ watcher' = "poll"
    /\ lateKill' = (lateKill \/ proc["child"] = "gone")
    /\ \/ /\ proc["child"] = "alive"
          /\ delivered' = delivered \cup pending
          /\ \/ UNCHANGED <<proc, status>>
             \/ /\ proc' = [proc EXCEPT !["child"] = "zombie"]
                /\ \E s \in pending : status' = [sig |-> TRUE, n |-> s]
       \/ proc["child"] # "alive" /\ UNCHANGED <<delivered, proc, status>>
    /\ UNCHANGED <<rule, main, todo, written, sent, command, stream, stop, result>>

Watcher == Poll \/ Kill

-----------------------------------------------------------------------------
(***************************************************************************)
(* The world around lacon                                                  *)
(***************************************************************************)

Write(p) ==
    /\ proc[p] = "alive"
    /\ todo[p] # <<>> /\ Head(todo[p]) # SLEEP
    /\ todo' = [todo EXCEPT ![p] = Tail(@)]
    /\ ~ReadEndClosed
    /\ Len(pipe) < PipeSize
    /\ pipe' = Append(pipe, Head(todo[p]))
    /\ written' = Append(written, Head(todo[p]))
    /\ UNCHANGED <<rule, main, proc, status, sent, delivered, command, reader,
                   inbuf, buf, count, chan, raw, signal, result>>

(* A process ends, the child with a status. *)
Ends(p, st) ==
    /\ proc[p] = "alive"
    /\ proc' = [proc EXCEPT ![p] = IF p = "child" THEN "zombie" ELSE "gone"]
    /\ status' = IF p = "child" THEN st ELSE status
    /\ UNCHANGED <<rule, main, todo, written, sent, delivered, command, stream,
                   signal, result>>

Exits(p) == todo[p] = <<>> /\ \E c \in Codes : Ends(p, [sig |-> FALSE, n |-> c])

BrokenPipe(p) ==
    /\ todo[p] # <<>> /\ Head(todo[p]) # SLEEP
    /\ ReadEndClosed
    /\ Ends(p, [sig |-> TRUE, n |-> SIGPIPE])

(* The child leaves a process behind that keeps stdout open. *)
Fork ==
    /\ proc["child"] = "alive" /\ proc["heir"] = "none"
    /\ rule.matched
    /\ proc' = [proc EXCEPT !["heir"] = "alive"]
    /\ UNCHANGED <<rule, main, todo, status, written, sent, delivered, command,
                   stream, signal, result>>

(* A user, or an assistant whose timeout has come, signals lacon.  Without the
   forwarder the signal kills it; after the forwarder has gone signal-hook's
   handler is still there and does nothing. *)
Interrupt(s) ==
    /\ sent < MaxSignals /\ sent' = sent + 1
    /\ main \notin Ended
    /\ \/ /\ watcher = "none"
          /\ main' = "killed" /\ command' = FALSE
          /\ UNCHANGED pending
       \/ /\ watcher \in {"poll", "kill"}
          /\ pending' = pending \cup {s}
          /\ UNCHANGED <<main, command>>
    /\ UNCHANGED <<rule, proc, todo, status, written, delivered, stream, watcher,
                   stop, lateKill, result>>

Process(p) == Write(p) \/ Exits(p) \/ BrokenPipe(p)

Next ==
    \/ Main \/ Reader \/ ReadError \/ Watcher \/ Fork
    \/ \E p \in Procs : Process(p)
    \/ \E s \in Signals : Interrupt(s)

Spec == Init /\ [][Next]_vars

(* Threads are scheduled, and the child, unless it sleeps for ever, writes what
   it has to write and ends.  Nothing is said of what it leaves behind. *)
FairSpec ==
    /\ Spec
    /\ WF_vars(Main) /\ WF_vars(Reader) /\ WF_vars(Watcher)
    /\ WF_vars(Process("child"))

(* ... unless they end too. *)
FairHeirSpec == FairSpec /\ WF_vars(Process("heir"))

-----------------------------------------------------------------------------
(***************************************************************************)
(* Properties                                                              *)
(***************************************************************************)

(* Where the lines of a byte stream end. *)
LineEnds(s) == {n \in 1..Len(s) : s[n] = NL \/ n = Len(s)}

(* The lines a stream consists of, by definition: line k runs from after the
   end of line k-1 to the k-th end, newline excluded. *)
IsLinesOf(lines, s) ==
    /\ Len(lines) = Cardinality(LineEnds(s))
    /\ \A e \in LineEnds(s) :
          LET k == Cardinality({n \in LineEnds(s) : n <= e})
              b == Cardinality({n \in 1..(e - 1) : \E d \in LineEnds(s) : n <= d /\ d < e})
              whole == SubSeq(s, b + 1, IF s[e] = NL THEN e - 1 ELSE e)
          IN  \/ lines[k].text = whole /\ (lines[k].cut => e - b > LineCap)
              \/ /\ lines[k].cut /\ Len(whole) > LineCap
                 /\ lines[k].text = SubSeq(whole, 1, LineCap)

(* What the pipeline is given is what the child and all its descendants wrote,
   split into lines, in order and complete, except for what a line that says
   so has lost; and every byte of it is counted.  (A read error is the one
   exception, and a silent one.) *)
OutputIntact ==
    main \in {"filter", "write"} /\ reader = "closed" =>
        IsLinesOf(raw, written) /\ count = Len(written)

(* The pipeline is chosen by the exit of the child, and of a child that has been
   waited for, whatever signals are forwarded meanwhile; and a command that
   failed or was killed is never reported as a success. *)
OutcomeOfChild ==
    /\ branch # "none" => /\ proc["child"] = "gone"
                          /\ branch = "success" <=> status = [sig |-> FALSE, n |-> 0]
                          /\ branch = "on_error" => rule.onError
    /\ main = "done" /\ exit = 0 => status = [sig |-> FALSE, n |-> 0]

(* Signals go to the child or, in the moment between its wait and the end of
   the watcher, to whoever has its pid by then; never later. *)
NoLateSignal == [][lateKill' # lateKill => main \in {"stop", "join"}]_vars

(* A signal received while the forwarder is there reaches the child, one that
   would never end included, unless the child ends before. *)
SignalReachesChild ==
    \A s \in Signals :
        s \in pending ~> s \in delivered \/ proc["child"] # "alive"

(* A run of processes that end, ends: the pipe is drained however full it is,
   its EOF comes, the watcher stops. *)
RunEnds ==
    main = "spawned" ~> \/ main \in Ended
                        \/ \E p \in Procs : proc[p] = "alive" /\ todo[p] = <<SLEEP>>

(* docs/specs/chained-commands.md:56: "`lacon run` propagates its wrapped
   subprocess's exit code unchanged". *)
ExitCodePropagated ==
    main = "done" /\ proc["child"] = "gone" => exit = ExitCode(status)

=============================================================================
