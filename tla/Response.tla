------------------------------ MODULE Response ------------------------------
(***************************************************************************)
(* What a client is told of one execution: the output the server keeps,    *)
(* the verdict finalizeResponse makes of the exit status, the events of    *)
(* the control group and the deadline, the reply of the routes, and the    *)
(* card the web page shows for it.                                         *)
(*                                                                         *)
(* Text is a sequence of pieces: a piece of the program's text, a newline, *)
(* or one of the messages the server writes.                               *)
(***************************************************************************)
EXTENDS Integers, Sequences, SequencesExt

CONSTANTS
  Cap,         \* pieces a limitedBuffer keeps (1 << 20 bytes)
  MaxWritten   \* bound: pieces a program writes to a stream

ASSUME CapAssumption == Cap \in Nat \ {0} /\ MaxWritten \in Nat

VARIABLES
  phase,            \* how far the execution is
  written,          \* all the program wrote, by stream
  kept,             \* what the server's buffers hold of it, by stream
  events,           \* memory.events: [max, oom, oom_kill]
  ended,            \* how the program ended, as its exit status has it
  copyFailed,       \* whether copying a stream of the process failed
  timedOut,         \* whether waitForSandbox took the deadline
  response,         \* what Dispatch returns: [stdout, stderr, failed]
  reply,            \* the HTTP reply: [status, output, error]
  card              \* the error card of the page

vars == <<phase, written, kept, events, ended, copyFailed, timedOut,
          response, reply, card>>
run == <<written, kept, events, ended, copyFailed, timedOut>>

Streams  == {"stdout", "stderr"}
Signals  == {"SIGKILL", "SIGSEGV", "SIGSYS"}
Endings  == {"exit 0", "exit 1"} \cup Signals
Newline  == "\n"
Program  == {"text", Newline}
Timeout  == "Execution Timed Out"
Memory   == "Memory limit exceeded"
Overload == "Server is overloaded, please try again later"
Failed   == "Sandbox execution failed"
Messages == {Timeout, Memory} \cup (Endings \ {"exit 0"})

NoResponse == [stdout |-> <<>>, stderr |-> <<>>, failed |-> FALSE]
NoReply    == [status |-> 0, output |-> <<>>, error |-> <<>>]

-----------------------------------------------------------------------------
(* limitedBuffer.Write: what fits is kept, the rest is dropped silently.   *)

\* Mutant: the remaining room is not computed.
MutWriteAll(buf, p) == buf \o p

\* Mutant: a write that does not fit as a whole is dropped as a whole.
MutWrite(buf, p) == IF Len(buf) + Len(p) <= Cap THEN buf \o p ELSE buf

Write(buf, p) == LET remaining == Cap - Len(buf)
                 IN IF Len(p) <= remaining THEN buf \o p
                    ELSE buf \o SubSeq(p, 1, remaining)

-----------------------------------------------------------------------------
(* The verdict (executor/response.go).                                     *)

appendErrorLine(text, message) ==
  IF text = <<>> \/ Last(text) = Newline THEN Append(text, message)
  ELSE text \o <<Newline, message>>

memoryLimitTriggered(e) == e.oom > 0 \/ e.oom_kill > 0 \/ e.max > 0

appendMemoryLimitError(text, limitHit) ==
  IF limitHit THEN appendErrorLine(text, Memory) ELSE text

appendTimeoutError(text) == appendErrorLine(text, Timeout)

\* cmd.Wait: an exit status other than success is an ExitError; a failed
\* copy counts only after a success.
runErr == IF ended # "exit 0" THEN "exit"
          ELSE IF copyFailed THEN "copy" ELSE "none"

\* formatExitDiagnostic names the signal or the status.
appendExitDiagnostic(text) == appendErrorLine(text, ended)

\* Mutant: the timeout is told whatever else happened.
MutVerdict(text, limitHit) ==
  LET memory == appendMemoryLimitError(text, limitHit)
      timed  == IF timedOut THEN appendTimeoutError(memory) ELSE memory
  IN IF runErr = "exit" THEN appendExitDiagnostic(timed) ELSE timed

\* Mutant: only a timeout or a memory limit is told.
MutNoDiagnostic(text, limitHit) ==
  LET memory == appendMemoryLimitError(text, limitHit)
  IN IF timedOut /\ ~limitHit THEN appendTimeoutError(memory) ELSE memory

Verdict(text, limitHit) ==
  LET memory == appendMemoryLimitError(text, limitHit)
      timed  == IF timedOut /\ ~limitHit THEN appendTimeoutError(memory)
                ELSE memory
  IN IF runErr = "exit" THEN appendExitDiagnostic(timed) ELSE timed

finalizeResponse ==
  IF runErr = "copy"
  THEN [NoResponse EXCEPT !.failed = TRUE]
  ELSE [stdout |-> kept["stdout"],
        stderr |-> Verdict(kept["stderr"], memoryLimitTriggered(events)),
        failed |-> FALSE]

-----------------------------------------------------------------------------
Init == /\ phase = "dispatch"
        /\ written = [s \in Streams |-> <<>>]
        /\ kept = [s \in Streams |-> <<>>]
        /\ events = [max |-> 0, oom |-> 0, oom_kill |-> 0]
        /\ ended = "not yet"
        /\ copyFailed = FALSE
        /\ timedOut = FALSE
        /\ response = NoResponse
        /\ reply = NoReply
        /\ card = "hidden"

-----------------------------------------------------------------------------
(* Dispatch and Execute before the program runs.                           *)

Returns(resp) == /\ phase = "dispatch"
                 /\ response' = resp
                 /\ phase' = "returned"
                 /\ UNCHANGED <<run, reply, card>>

\* cannotReserveResponse: an error with a text of its own.
CannotReserve == Returns([stdout |-> <<>>, stderr |-> <<Overload>>,
                          failed |-> TRUE])

\* A step of Execute fails: an error and an empty Response.
SetupFails == Returns([NoResponse EXCEPT !.failed = TRUE])

\* compileFailureResponse: the compiler's output, which is empty when the
\* compiler could not even be started.
CompileFails ==
  \E out \in {<<>>, <<"text", Newline>>} :
    Returns([NoResponse EXCEPT !.stderr = out])

Starts == /\ phase = "dispatch"
          /\ phase' = "running"
          /\ UNCHANGED <<run, response, reply, card>>

-----------------------------------------------------------------------------
(* The program, its control group and its deadline.                        *)

Prints(s) ==
  /\ phase = "running" /\ ended = "not yet"
  /\ \E p \in {<<"text">>, <<Newline>>, <<"text", Newline>>} :
       /\ Len(written[s]) + Len(p) <= MaxWritten
       /\ written' = [written EXCEPT ![s] = @ \o p]
       /\ kept' = [kept EXCEPT ![s] = Write(@, p)]
  /\ UNCHANGED <<phase, events, ended, copyFailed, timedOut, response, reply,
                 card>>

\* The memory limit is met and the program goes on: the kernel reclaims
\* enough, or fails the allocation.
Reclaims ==
  /\ phase = "running" /\ ended = "not yet"
  /\ \E oom \in {events.oom, 1} :
       events' = [events EXCEPT !.max = 1, !.oom = oom]
  /\ UNCHANGED <<phase, written, kept, ended, copyFailed, timedOut, response,
                 reply, card>>

OOMKill ==
  /\ phase = "running" /\ ended = "not yet"
  /\ events' = [max |-> 1, oom |-> 1, oom_kill |-> 1]
  /\ ended' = "SIGKILL"
  /\ UNCHANGED <<phase, written, kept, copyFailed, timedOut, response, reply,
                 card>>

Ends ==
  /\ phase = "running" /\ ended = "not yet"
  /\ ended' \in Endings
  /\ UNCHANGED <<phase, written, kept, events, copyFailed, timedOut, response,
                 reply, card>>

\* The stdin of the program was closed early, or a stream broke.
CopyFails ==
  /\ phase = "running" /\ ~copyFailed
  /\ copyFailed' = TRUE
  /\ UNCHANGED <<phase, written, kept, events, ended, timedOut, response,
                 reply, card>>

\* waitForSandbox takes the deadline, maybe with the program ended already.
Deadline ==
  /\ phase = "running" /\ ~timedOut
  /\ timedOut' = TRUE
  /\ ended' = IF ended = "not yet" THEN "SIGKILL" ELSE ended
  /\ UNCHANGED <<phase, written, kept, events, copyFailed, response, reply,
                 card>>

\* cmd.Wait has returned.
Finalizes ==
  /\ phase = "running" /\ ended # "not yet"
  /\ response' = finalizeResponse
  /\ phase' = "returned"
  /\ UNCHANGED <<run, reply, card>>

-----------------------------------------------------------------------------
(* The routes and the page.                                                *)

\* CallDispatcher and SimpleDispatcher: an error that comes with a text of
\* its own is an ordinary reply.
Answer(resp) ==
  IF resp.failed /\ resp.stderr = <<>>
  THEN [status |-> 500, output |-> <<>>, error |-> <<Failed>>]
  ELSE [status |-> 200, output |-> resp.stdout, error |-> resp.stderr]

Replies == /\ phase = "returned"
           /\ reply' = Answer(response)
           /\ phase' = "replied"
           /\ UNCHANGED <<run, response, card>>

\* The text, trimmed, is the message and nothing else.
Is(text, message) == \E i \in DOMAIN text :
                       /\ text[i] = message
                       /\ \A j \in DOMAIN text \ {i} : text[j] = Newline

\* showExecutionError compares the whole text, trimmed, with two messages.
\* A program that prints one of them itself is not modelled.
showExecutionError(message) ==
  IF Is(message, Timeout) THEN "timeout"
  ELSE IF Is(message, Memory) THEN "memory limit" ELSE "execution error"

Shows == /\ phase = "replied"
         /\ card' = IF reply.error = <<>> THEN "hidden"
                    ELSE showExecutionError(reply.error)
         /\ phase' = "shown"
         /\ UNCHANGED <<run, response, reply>>

Shown == phase = "shown" /\ UNCHANGED vars

Next == \/ CannotReserve \/ SetupFails \/ CompileFails \/ Starts
        \/ \E s \in Streams : Prints(s)
        \/ Reclaims \/ OOMKill \/ Ends \/ CopyFails \/ Deadline
        \/ Finalizes \/ Replies \/ Shows \/ Shown

Spec == Init /\ [][Next]_vars

-----------------------------------------------------------------------------
(* Properties.                                                             *)

Phases == {"dispatch", "running", "returned", "replied", "shown"}
Texts  == Seq(Program \cup Messages \cup {Overload, Failed})

\* Types of the variables; no buffer grows over its cap.
TypeOK ==
  /\ phase \in Phases
  /\ \A s \in Streams : written[s] \in Texts /\ kept[s] \in Texts
  /\ \A s \in Streams : Len(kept[s]) <= Cap
  /\ events \in [max : 0..1, oom : 0..1, oom_kill : 0..1]
  /\ ended \in Endings \cup {"not yet"}
  /\ copyFailed \in BOOLEAN /\ timedOut \in BOOLEAN
  /\ response.stdout \in Texts /\ response.stderr \in Texts
  /\ reply.status \in {0, 200, 500}
  /\ card \in {"hidden", "timeout", "memory limit", "execution error"}

Told(message) == \E i \in DOMAIN reply.error : reply.error[i] = message
Replied == phase \in {"replied", "shown"}
Ran     == Replied /\ ended # "not yet"

\* A client gets the program's own text unchanged from its first byte, up to
\* the cap and no less: truncation (executor/limited_buffer.go) loses only
\* the tail, and no verdict is lost to it or glued to a line of the program.
TextIntact ==
  /\ \A s \in Streams :
       kept[s] = SubSeq(written[s], 1, IF Len(written[s]) < Cap
                                       THEN Len(written[s]) ELSE Cap)
  /\ Ran /\ reply.status = 200 =>
       /\ reply.output = kept["stdout"]
       /\ IsPrefix(kept["stderr"], reply.error)
       /\ \A i \in DOMAIN reply.error :
            reply.error[i] \in Messages /\ i > 1 => reply.error[i-1] = Newline

\* A program that did not end well within its limits never looks like one
\* that did: an overload, a failed setup, a signal, a status, a deadline or
\* a memory limit each leave an error text in the reply and a card on the
\* page, and a card that names a limit is backed by that verdict
\* (executor/response.go, routes, output-pane.astro).  The one ending left
\* out is a compiler that says nothing.
FailureIsShown ==
  /\ Replied /\ (response.failed \/ timedOut \/ events.oom_kill > 0
                   \/ ended \in Endings \ {"exit 0"})
       => reply.error # <<>> /\ (phase = "shown" => card # "hidden")
  /\ card = "timeout" => Told(Timeout)
  /\ card = "memory limit" => Told(Memory)

\* The one verdict (executor/response.go): a program that met its memory limit
\* is told so and is not told that it was slow, even if the deadline passed
\* too; one that was cut by the deadline and never met its memory limit is
\* told that, and nothing about memory; any other is told neither.  What it
\* does not promise, and README.md does of every timeout: a program whose
\* memory was only reclaimed and that the deadline then cut is told of its
\* memory, not of the deadline.
OneVerdict ==
  Ran /\ reply.status = 200 =>
    /\ Told(Memory) <=> events.max > 0
    /\ Told(Timeout) <=> timedOut /\ events.max = 0

\* README.md, response bodies of examples 2 and 3: an execution cut by a
\* limit is answered with the message of that limit and nothing else, and
\* a timeout with no output.
LimitReplyAsDocumented ==
  Ran /\ reply.status = 200 =>
    /\ Told(Timeout) => reply.output = <<>> /\ reply.error = <<Timeout>>
    /\ events.oom_kill > 0 /\ kept["stderr"] = <<>> => reply.error = <<Memory>>
=============================================================================
