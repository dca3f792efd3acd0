---------------------------- MODULE ResponseProofs ----------------------------
(***************************************************************************)
(* What a client is told, for any cap and any length of output: proofs     *)
(* about the buffers, the chain of verdicts and the replies.               *)
(***************************************************************************)
EXTENDS Response, SequenceTheorems, TLAPS

-----------------------------------------------------------------------------
(* limitedBuffer.Write.                                                    *)

\* The beginning of a sequence.
LEMMA Beginning ==
  ASSUME NEW S, NEW s \in Seq(S), NEW n \in Nat, n <= Len(s)
  PROVE  /\ SubSeq(s, 1, n) \in Seq(S)
         /\ Len(SubSeq(s, 1, n)) = n
         /\ \A i \in 1..n : SubSeq(s, 1, n)[i] = s[i]
<1>1. Len(s) \in Nat
  BY LenProperties
<1>2. \A i \in 1..n : s[i] \in S
  BY <1>1, ElementOfSeq
<1>3. 1 \in Int /\ n \in Int
  OBVIOUS
<1>4. /\ SubSeq(s, 1, n) \in Seq(S)
      /\ Len(SubSeq(s, 1, n)) = IF 1 <= n THEN n - 1 + 1 ELSE 0
      /\ \A i \in 1..(n - 1 + 1) : SubSeq(s, 1, n)[i] = s[1 + i - 1]
  BY ONLY <1>2, <1>3, SubSeqProperties
<1>5. n - 1 + 1 = n /\ (IF 1 <= n THEN n - 1 + 1 ELSE 0) = n
  OBVIOUS
<1>6. \A i \in 1..n : 1 + i - 1 = i
  OBVIOUS
<1>7. Len(SubSeq(s, 1, n)) = n
  BY ONLY <1>4, <1>5
<1>8. \A i \in 1..n : SubSeq(s, 1, n)[i] = s[1 + i - 1]
  BY ONLY <1>4, <1>5
<1> QED BY ONLY <1>4, <1>6, <1>7, <1>8

\* k is w up to the cap.
HeadOf(k, w) ==
  /\ k \in Seq(Program) /\ w \in Seq(Program)
  /\ Len(k) = IF Len(w) < Cap THEN Len(w) ELSE Cap
  /\ \A i \in 1..Len(k) : k[i] = w[i]

\* A buffer that holds the head of what was written still does after the
\* next write, whole or cut.
LEMMA WriteKeepsHead ==
  ASSUME NEW k, NEW w, HeadOf(k, w), NEW p \in Seq(Program)
  PROVE  HeadOf(Write(k, p), w \o p)
<1> DEFINE room == Cap - Len(k)
<1>1. /\ Cap \in Nat /\ Len(k) \in Nat /\ Len(w) \in Nat /\ Len(p) \in Nat
      /\ \/ Len(w) < Cap /\ Len(k) = Len(w)
         \/ Cap <= Len(w) /\ Len(k) = Cap
  <2>1. /\ Cap \in Nat /\ Len(k) \in Nat /\ Len(w) \in Nat /\ Len(p) \in Nat
        /\ Len(k) = IF Len(w) < Cap THEN Len(w) ELSE Cap
    BY CapAssumption, LenProperties DEF HeadOf
  <2>2. CASE Len(w) < Cap
    BY <2>1, <2>2
  <2>3. CASE ~(Len(w) < Cap)
    <3>1. Len(k) = Cap
      BY <2>1, <2>3
    <3>2. Cap <= Len(w)
      BY <2>1, <2>3
    <3> QED BY <2>1, <3>1, <3>2
  <2> QED BY <2>2, <2>3
<1>2. room \in Nat
  BY <1>1
<1>3. /\ w \o p \in Seq(Program) /\ Len(w \o p) = Len(w) + Len(p)
      /\ \A i \in 1..(Len(w) + Len(p)) :
           (w \o p)[i] = IF i <= Len(w) THEN w[i] ELSE p[i - Len(w)]
  BY ConcatProperties DEF HeadOf
<1>4. ASSUME NEW q \in Seq(Program), Len(q) <= Len(p),
             \/ Len(p) <= room /\ Len(q) = Len(p)
             \/ room < Len(p) /\ Len(q) = room,
             \A i \in 1..Len(q) : q[i] = p[i]
      PROVE  HeadOf(k \o q, w \o p)
  <2>1. Len(q) \in Nat
    BY LenProperties
  <2>2. /\ k \o q \in Seq(Program) /\ Len(k \o q) = Len(k) + Len(q)
        /\ \A i \in 1..(Len(k) + Len(q)) :
             (k \o q)[i] = IF i <= Len(k) THEN k[i] ELSE q[i - Len(k)]
    BY ConcatProperties DEF HeadOf
  <2>3. Len(k \o q) = IF Len(w \o p) < Cap THEN Len(w \o p) ELSE Cap
    <3>1. CASE Len(w) + Len(p) < Cap
      <4>1. Len(k) + Len(q) = Len(w) + Len(p)
        BY <1>1, <1>4, <2>1, <3>1
      <4> QED BY <1>3, <2>2, <3>1, <4>1
    <3>2. CASE ~(Len(w) + Len(p) < Cap)
      <4>1. Len(k) + Len(q) = Cap
        BY <1>1, <1>4, <2>1, <3>2
      <4> QED BY <1>3, <2>2, <3>2, <4>1
    <3> QED BY <3>1, <3>2
  <2>4. ASSUME NEW i \in 1..(Len(k) + Len(q))
        PROVE  (k \o q)[i] = (w \o p)[i]
    <3>1. i \in 1..(Len(w) + Len(p))
      BY <1>1, <1>4, <2>1
    <3>2. CASE i <= Len(k)
      <4>1. i <= Len(w) /\ i \in 1..Len(k)
        BY <1>1, <3>2
      <4>2. k[i] = w[i]
        BY <4>1 DEF HeadOf
      <4> QED BY <1>3, <2>2, <3>1, <3>2, <4>1, <4>2
    <3>3. CASE ~(i <= Len(k))
      <4>1. i - Len(k) \in 1..Len(q)
        BY <1>1, <2>1, <3>3
      <4>2. Len(k) = Len(w)
        BY <1>1, <1>4, <2>1, <3>3
      <4>3. q[i - Len(k)] = p[i - Len(w)]
        BY <1>4, <4>1, <4>2
      <4> QED BY <1>3, <2>2, <3>1, <3>3, <4>2, <4>3
    <3> QED BY <3>2, <3>3
  <2> QED BY <1>3, <2>2, <2>3, <2>4 DEF HeadOf
<1>5. CASE Len(p) <= room
  <2>1. Write(k, p) = k \o p
    BY <1>5 DEF Write
  <2> QED BY <1>1, <1>4, <1>5, <2>1
<1>6. CASE ~(Len(p) <= room)
  <2>1. Write(k, p) = k \o SubSeq(p, 1, room)
    BY <1>6 DEF Write
  <2>2. room < Len(p) /\ room <= Len(p)
    BY <1>1, <1>2, <1>6
  <2>3. /\ SubSeq(p, 1, room) \in Seq(Program)
        /\ Len(SubSeq(p, 1, room)) = room
        /\ \A i \in 1..room : SubSeq(p, 1, room)[i] = p[i]
    BY <1>2, <2>2, Beginning
  <2>4. /\ Len(SubSeq(p, 1, room)) <= Len(p)
        /\ \A i \in 1..Len(SubSeq(p, 1, room)) : SubSeq(p, 1, room)[i] = p[i]
    BY <2>2, <2>3
  <2> HIDE DEF room
  <2> QED BY <1>4, <2>1, <2>2, <2>3, <2>4
<1> QED BY <1>5, <1>6

\* What HeadOf says, in one equation.
LEMMA HeadIsSubSeq ==
  ASSUME NEW k, NEW w, HeadOf(k, w)
  PROVE  k = SubSeq(w, 1, IF Len(w) < Cap THEN Len(w) ELSE Cap)
<1>1. Len(w) \in Nat /\ Cap \in Nat /\ Len(k) \in Nat /\ Len(k) <= Len(w)
      /\ Len(k) = IF Len(w) < Cap THEN Len(w) ELSE Cap
  BY CapAssumption, LenProperties DEF HeadOf
<1>2. /\ SubSeq(w, 1, Len(k)) \in Seq(Program)
      /\ Len(SubSeq(w, 1, Len(k))) = Len(k)
      /\ \A i \in 1..Len(k) : SubSeq(w, 1, Len(k))[i] = w[i]
  BY <1>1, Beginning DEF HeadOf
<1>3. k = SubSeq(w, 1, Len(k))
  BY <1>2, SeqEqual DEF HeadOf
<1> QED BY <1>1, <1>3

-----------------------------------------------------------------------------
(* The chain of verdicts.                                                  *)

\* The program's text, and what the server adds to it.
Lines(v, text, said) ==
  /\ v \in Seq(Program \cup Messages) /\ Len(text) <= Len(v)
  /\ \A i \in 1..Len(text) : v[i] = text[i]
  /\ \A i \in 1..Len(v) :
       v[i] \in Messages => v[i] \in said /\ (i > 1 => v[i-1] = Newline)
  /\ \A m \in said : \E i \in 1..Len(v) : v[i] = m

\* The pieces are told apart.
LEMMA PiecesDiffer ==
  /\ Program \cap Messages = {} /\ Newline \in Program
  /\ Timeout \in Messages /\ Memory \in Messages /\ Timeout # Memory
  /\ Endings \ {"exit 0"} \subseteq Messages
  /\ Timeout \notin Endings /\ Memory \notin Endings
  /\ {Overload, Failed} \cap (Program \cup Messages) = {}
BY DEF Program, Messages, Endings, Signals, Newline, Timeout, Memory,
       Overload, Failed

\* At first there is only the text.
LEMMA TextAlone ==
  ASSUME NEW text \in Seq(Program)
  PROVE  Lines(text, text, {})
<1>1. text \in Seq(Program \cup Messages) /\ Len(text) \in Nat
  BY SeqMonotonic, LenProperties
<1>2. \A i \in 1..Len(text) : text[i] \notin Messages
  BY ElementOfSeq, PiecesDiffer
<1>3. Len(text) <= Len(text)
  BY <1>1
<1> QED BY ONLY <1>1, <1>2, <1>3 DEF Lines

\* What appendErrorLine adds is a line of its own.
LEMMA LineAppended ==
  ASSUME NEW v, NEW text \in Seq(Program), NEW said \in SUBSET Messages,
         NEW m \in Messages, Lines(v, text, said)
  PROVE  Lines(appendErrorLine(v, m), text, said \cup {m})
<1> DEFINE u == appendErrorLine(v, m)
           Text == Program \cup Messages
<1>1. /\ v \in Seq(Text) /\ m \in Text /\ Newline \in Text
      /\ Newline \notin Messages
  BY PiecesDiffer DEF Lines
<1>2. Len(v) \in Nat /\ Len(text) \in Nat /\ Len(text) <= Len(v)
  BY <1>1, LenProperties DEF Lines
<1>3. /\ u \in Seq(Text)
      /\ \A i \in 1..Len(v) : u[i] = v[i]
      /\ \/ /\ Len(u) = Len(v) + 1 /\ u[Len(v) + 1] = m
            /\ Len(v) >= 1 => v[Len(v)] = Newline
         \/ /\ Len(u) = Len(v) + 2 /\ u[Len(v) + 2] = m
            /\ u[Len(v) + 1] = Newline
  <2>1. CASE v = <<>> \/ Last(v) = Newline
    <3>1. u = Append(v, m)
      BY <2>1 DEF appendErrorLine
    <3>2. /\ Append(v, m) \in Seq(Text) /\ Len(Append(v, m)) = Len(v) + 1
          /\ \A i \in 1..Len(v) : Append(v, m)[i] = v[i]
          /\ Append(v, m)[Len(v) + 1] = m
      BY <1>1, AppendProperties
    <3>3. Len(v) >= 1 => v[Len(v)] = Newline
      BY <2>1, EmptySeq DEF Last
    <3> QED BY <3>1, <3>2, <3>3
  <2>2. CASE ~(v = <<>> \/ Last(v) = Newline)
    <3>1. u = v \o <<Newline, m>>
      BY <2>2 DEF appendErrorLine
    <3>2. /\ <<Newline, m>> \in Seq(Text) /\ Len(<<Newline, m>>) = 2
          /\ <<Newline, m>>[1] = Newline /\ <<Newline, m>>[2] = m
      BY <1>1
    <3>3. /\ v \o <<Newline, m>> \in Seq(Text)
          /\ Len(v \o <<Newline, m>>) = Len(v) + 2
          /\ \A i \in 1..(Len(v) + 2) :
               (v \o <<Newline, m>>)[i] = IF i <= Len(v) THEN v[i]
                                          ELSE <<Newline, m>>[i - Len(v)]
      BY <1>1, <3>2, ConcatProperties
    <3>4. /\ \A i \in 1..Len(v) : i \in 1..(Len(v) + 2) /\ i <= Len(v)
          /\ Len(v) + 1 \in 1..(Len(v) + 2) /\ ~(Len(v) + 1 <= Len(v))
          /\ Len(v) + 2 \in 1..(Len(v) + 2) /\ ~(Len(v) + 2 <= Len(v))
          /\ (Len(v) + 1) - Len(v) = 1 /\ (Len(v) + 2) - Len(v) = 2
      BY <1>2
    <3>5. /\ \A i \in 1..Len(v) : u[i] = v[i]
          /\ u[Len(v) + 1] = Newline /\ u[Len(v) + 2] = m
      BY ONLY <3>1, <3>2, <3>3, <3>4
    <3> QED BY <3>1, <3>3, <3>5
  <2> QED BY <2>1, <2>2
<1>4. Len(u) \in Nat /\ Len(v) <= Len(u)
  BY <1>2, <1>3
<1>5. Len(text) <= Len(u) /\ \A i \in 1..Len(text) : u[i] = text[i]
  <2>1. \A i \in 1..Len(text) : i \in 1..Len(v) /\ v[i] = text[i]
    BY <1>2 DEF Lines
  <2> QED BY <1>2, <1>3, <1>4, <2>1
<1>6. ASSUME NEW i \in 1..Len(u), u[i] \in Messages
      PROVE  u[i] \in said \cup {m} /\ (i > 1 => u[i-1] = Newline)
  <2>1. CASE i \in 1..Len(v)
    <3>1. u[i] = v[i] /\ (i > 1 => i - 1 \in 1..Len(v) /\ u[i-1] = v[i-1])
      BY <1>2, <1>3, <2>1
    <3> QED BY <1>6, <2>1, <3>1 DEF Lines
  <2>2. CASE ~(i \in 1..Len(v))
    <3>1. i = Len(u)
      BY <1>1, <1>2, <1>3, <1>6, <2>2
    <3> QED BY <1>2, <1>3, <3>1
  <2> QED BY <2>1, <2>2
<1>7. ASSUME NEW n \in said \cup {m} PROVE \E i \in 1..Len(u) : u[i] = n
  <2>1. CASE n = m
    BY <1>2, <1>3, <2>1
  <2>2. CASE n \in said
    <3>1. PICK i \in 1..Len(v) : v[i] = n
      BY <2>2 DEF Lines
    <3>2. i \in 1..Len(u) /\ u[i] = n
      BY <1>2, <1>3, <1>4, <3>1
    <3> QED BY <3>2
  <2> QED BY <2>1, <2>2
<1> QED BY <1>3, <1>5, <1>6, <1>7 DEF Lines

\* What the server has to say of an execution.
Said == {m \in Messages :
           \/ m = Memory /\ memoryLimitTriggered(events)
           \/ m = Timeout /\ timedOut /\ ~memoryLimitTriggered(events)
           \/ m = ended /\ ended # "exit 0"}

\* The verdict says that, each in a line of its own behind the text.
LEMMA VerdictSays ==
  ASSUME NEW text \in Seq(Program), ended \in Endings
  PROVE  Lines(Verdict(text, memoryLimitTriggered(events)), text, Said)
<1> DEFINE hit == memoryLimitTriggered(events)
           memory == appendMemoryLimitError(text, hit)
           timed == IF timedOut /\ ~hit THEN appendTimeoutError(memory)
                    ELSE memory
           v == Verdict(text, hit)
           s1 == {m \in Messages : m = Memory /\ hit}
           s2 == {m \in Messages : \/ m = Memory /\ hit
                                   \/ m = Timeout /\ timedOut /\ ~hit}
<1>1. Lines(memory, text, s1)
  <2>1. CASE hit
    <3>1. s1 = {} \cup {Memory} /\ memory = appendErrorLine(text, Memory)
      BY <2>1, PiecesDiffer DEF appendMemoryLimitError
    <3>2. {} \in SUBSET Messages /\ Memory \in Messages
      BY PiecesDiffer
    <3>3. Lines(text, text, {})
      BY TextAlone
    <3>4. Lines(appendErrorLine(text, Memory), text, {} \cup {Memory})
      BY ONLY <3>2, <3>3, LineAppended, text \in Seq(Program)
    <3> HIDE DEF memory, s1
    <3> QED BY <3>1, <3>4
  <2>2. CASE ~hit
    <3>1. s1 = {} /\ memory = text
      BY <2>2 DEF appendMemoryLimitError
    <3> QED BY <3>1, TextAlone
  <2> QED BY <2>1, <2>2
<1>2. Lines(timed, text, s2)
  <2>1. CASE timedOut /\ ~hit
    <3>1. s2 = s1 \cup {Timeout} /\ timed = appendErrorLine(memory, Timeout)
      BY <2>1, PiecesDiffer DEF appendTimeoutError
    <3>2. s1 \in SUBSET Messages
      OBVIOUS
    <3> HIDE DEF memory, timed, s1, s2
    <3> QED BY <1>1, <3>1, <3>2, LineAppended, PiecesDiffer
  <2>2. CASE ~(timedOut /\ ~hit)
    <3>1. s2 = s1 /\ timed = memory
      BY <2>2
    <3> QED BY <1>1, <3>1
  <2> QED BY <2>1, <2>2
<1>3. v = IF ended # "exit 0" THEN appendErrorLine(timed, ended) ELSE timed
  BY DEF Verdict, runErr, appendExitDiagnostic
<1>4. CASE ended # "exit 0"
  <2>1. Said = s2 \cup {ended} /\ v = appendErrorLine(timed, ended)
    BY <1>3, <1>4, PiecesDiffer DEF Said
  <2>2. s2 \in SUBSET Messages /\ ended \in Messages
    BY <1>4, PiecesDiffer
  <2> HIDE DEF timed, s2, v
  <2>3. Lines(v, text, Said)
    BY <1>2, <2>1, <2>2, LineAppended
  <2> QED BY <2>3 DEF v
<1>5. CASE ended = "exit 0"
  <2>1. Said = s2 /\ v = timed
    BY <1>3, <1>5, PiecesDiffer DEF Said
  <2> HIDE DEF timed, s2, v
  <2>2. Lines(v, text, Said)
    BY <1>2, <2>1
  <2> QED BY <2>2 DEF v
<1> QED BY <1>4, <1>5

-----------------------------------------------------------------------------
(* The inductive invariant.                                                *)

\* The types alone; response, reply and card are told of below.
Types ==
  /\ phase \in Phases
  /\ written \in [Streams -> Seq(Program)]
  /\ kept \in [Streams -> Seq(Program)]
  /\ events \in [max : 0..1, oom : 0..1, oom_kill : 0..1]
  /\ ended \in Endings \cup {"not yet"}
  /\ copyFailed \in BOOLEAN /\ timedOut \in BOOLEAN

\* The buffers hold the head of what was written.
Truncated == \A s \in Streams : HeadOf(kept[s], written[s])

\* A program over a limit has ended, and by a signal if it is the memory;
\* the memory limit was met before anything else came of it.
LimitsEnd ==
  /\ timedOut => ended # "not yet"
  /\ events.oom_kill > 0 => ended = "SIGKILL"
  /\ events.oom > 0 \/ events.oom_kill > 0 => events.max > 0

\* What Dispatch returns of an execution that came to no program.
Unstarted ==
  {[stdout |-> <<>>, stderr |-> <<Overload>>, failed |-> TRUE],
   [NoResponse EXCEPT !.failed = TRUE],
   [NoResponse EXCEPT !.stderr = <<>>],
   [NoResponse EXCEPT !.stderr = <<"text", Newline>>]}

\* The response is of the run, as it was when cmd.Wait returned.
ResponseByPhase ==
  /\ phase = "dispatch" => ended = "not yet"
  /\ phase \in {"dispatch", "running"} => response = NoResponse
  /\ phase \in {"returned", "replied", "shown"} =>
       /\ ended = "not yet" => response \in Unstarted
       /\ ended # "not yet" => response = finalizeResponse

\* The card is of the reply, and the reply of the response.
ReplyByPhase ==
  /\ phase \in {"dispatch", "running", "returned"} => reply = NoReply
  /\ phase \in {"replied", "shown"} => reply = Answer(response)
  /\ phase # "shown" => card = "hidden"
  /\ phase = "shown" =>
       card = IF reply.error = <<>> THEN "hidden"
              ELSE showExecutionError(reply.error)

\* What every step keeps.
IInv == Types /\ Truncated /\ LimitsEnd /\ ResponseByPhase /\ ReplyByPhase

\* It holds at the start.
LEMMA InitInvariant == Init => IInv
<1> SUFFICES ASSUME Init PROVE IInv
  OBVIOUS
<1>1. <<>> \in Seq(Program) /\ Len(<<>>) = 0
  BY EmptySeq
<1>2. HeadOf(<<>>, <<>>)
  BY <1>1, CapAssumption DEF HeadOf
<1>3. Types
  <2>1. /\ written \in [Streams -> Seq(Program)]
        /\ kept \in [Streams -> Seq(Program)]
    BY <1>1 DEF Init
  <2>2. events \in [max : 0..1, oom : 0..1, oom_kill : 0..1]
    <3>1. events = [max |-> 0, oom |-> 0, oom_kill |-> 0]
      BY Zenon DEF Init
    <3>2. 0 \in 0..1
      OBVIOUS
    <3> QED BY <3>1, <3>2
  <2>3. /\ phase \in Phases /\ ended \in Endings \cup {"not yet"}
        /\ copyFailed \in BOOLEAN /\ timedOut \in BOOLEAN
    BY DEF Init, Phases
  <2> QED BY <2>1, <2>2, <2>3 DEF Types
<1>4. Truncated
  BY <1>2 DEF Init, Truncated
<1>5. LimitsEnd
  <2>1. events = [max |-> 0, oom |-> 0, oom_kill |-> 0] /\ ~timedOut
    BY Zenon DEF Init
  <2>2. ~(events.oom_kill > 0) /\ ~(events.oom > 0)
    BY <2>1
  <2> QED BY <2>1, <2>2 DEF LimitsEnd
<1>6. ResponseByPhase /\ ReplyByPhase
  BY DEF Init, ResponseByPhase, ReplyByPhase
<1> QED BY <1>3, <1>4, <1>5, <1>6 DEF IInv

-----------------------------------------------------------------------------
(* Every action keeps the invariant.                                       *)

\* The verdict is of the run alone.
LEMMA SameRun ==
  ASSUME UNCHANGED run PROVE finalizeResponse' = finalizeResponse
BY DEF run, finalizeResponse, Verdict, runErr, appendExitDiagnostic

\* Dispatch and Execute come back before there is a program.
LEMMA ReturnsKeeps ==
  ASSUME IInv, NEW resp \in Unstarted, Returns(resp) PROVE IInv'
<1>1. /\ phase = "dispatch" /\ phase' = "returned" /\ response' = resp
      /\ UNCHANGED <<written, kept, events, ended, copyFailed, timedOut>>
      /\ UNCHANGED <<reply, card>>
  BY DEF Returns, run
<1>2. Types' /\ Truncated' /\ LimitsEnd'
  BY <1>1 DEF IInv, Types, Truncated, LimitsEnd, Phases
<1>3. ResponseByPhase' /\ ReplyByPhase'
  BY <1>1 DEF IInv, ResponseByPhase, ReplyByPhase
<1> QED BY <1>2, <1>3 DEF IInv

\* Those are the ways to come back.
LEMMA EarlyReturns ==
  ASSUME IInv, CannotReserve \/ SetupFails \/ CompileFails PROVE IInv'
<1>1. CASE CannotReserve
  BY <1>1, ReturnsKeeps DEF CannotReserve, Unstarted
<1>2. CASE SetupFails
  <2>1. [NoResponse EXCEPT !.failed = TRUE] \in Unstarted
    BY DEF Unstarted
  <2> QED BY <1>2, <2>1, ReturnsKeeps DEF SetupFails
<1>3. CASE CompileFails
  <2>1. PICK out \in {<<>>, <<"text", Newline>>} :
          Returns([NoResponse EXCEPT !.stderr = out])
    BY <1>3 DEF CompileFails
  <2>2. [NoResponse EXCEPT !.stderr = out] \in Unstarted
    BY Zenon DEF Unstarted
  <2> QED BY <2>1, <2>2, ReturnsKeeps
<1> QED BY <1>1, <1>2, <1>3

\* The program prints.
LEMMA PrintsKeeps ==
  ASSUME IInv, NEW s \in Streams, Prints(s) PROVE IInv'
<1>1. /\ phase = "running" /\ ended = "not yet"
      /\ UNCHANGED <<phase, events, ended, copyFailed, timedOut>>
      /\ UNCHANGED <<response, reply, card>>
  BY DEF Prints
<1>2. PICK p \in {<<"text">>, <<Newline>>, <<"text", Newline>>} :
        /\ written' = [written EXCEPT ![s] = @ \o p]
        /\ kept' = [kept EXCEPT ![s] = Write(@, p)]
  BY DEF Prints
<1>3. p \in Seq(Program)
  <2>1. "text" \in Program /\ Newline \in Program
    BY DEF Program
  <2>2. /\ <<"text">> \in Seq(Program) /\ <<Newline>> \in Seq(Program)
        /\ <<"text", Newline>> \in Seq(Program)
    BY <2>1
  <2> QED BY <1>2, <2>2
<1>4. HeadOf(Write(kept[s], p), written[s] \o p)
  BY <1>3, WriteKeepsHead DEF IInv, Truncated
<1>5. /\ written' \in [Streams -> Seq(Program)]
      /\ kept' \in [Streams -> Seq(Program)]
  BY <1>2, <1>4 DEF IInv, Types, HeadOf
<1>6. Types' /\ LimitsEnd'
  BY <1>1, <1>5 DEF IInv, Types, LimitsEnd
<1>7. Truncated'
  BY <1>2, <1>4 DEF IInv, Types, Truncated
<1>8. ResponseByPhase' /\ ReplyByPhase'
  BY <1>1 DEF IInv, ResponseByPhase, ReplyByPhase
<1> QED BY <1>6, <1>7, <1>8 DEF IInv

\* What else may happen while the program runs.
LEMMA RunKeeps ==
  ASSUME IInv, Reclaims \/ OOMKill \/ Ends \/ CopyFails \/ Deadline
  PROVE  IInv'
<1>1. /\ phase = "running" /\ phase' = "running"
      /\ UNCHANGED <<written, kept, response, reply, card>>
  BY DEF Reclaims, OOMKill, Ends, CopyFails, Deadline
<1>2. 1 \in 0..1 /\ events \in [max : 0..1, oom : 0..1, oom_kill : 0..1]
  <2>1. 1 \in 0..1
    OBVIOUS
  <2>2. events \in [max : 0..1, oom : 0..1, oom_kill : 0..1]
    BY DEF IInv, Types
  <2> QED BY <2>1, <2>2
<1>3. Types' /\ LimitsEnd'
  <2> USE DEF IInv, Types, LimitsEnd, Endings, Signals
  <2>1. CASE Reclaims
    <3>1. PICK oom \in {events.oom, 1} :
                 events' = [events EXCEPT !.max = 1, !.oom = oom]
      BY Zenon, <2>1 DEF Reclaims
    <3>2. /\ events' \in [max : 0..1, oom : 0..1, oom_kill : 0..1]
          /\ events'.oom_kill = events.oom_kill /\ events'.max = 1
      BY ONLY <1>2, <3>1
    <3>3. UNCHANGED <<ended, copyFailed, timedOut>>
      BY <2>1 DEF Reclaims
    <3>4. Types'
      BY <1>1, <3>2, <3>3 DEF Phases
    <3>5. events'.max > 0
      BY ONLY <3>2
    <3>6. LimitsEnd'
      BY ONLY IInv, <3>2, <3>3, <3>5
    <3> QED BY <3>4, <3>6
  <2>2. CASE OOMKill
    <3>1. events' = [max |-> 1, oom |-> 1, oom_kill |-> 1]
      BY Zenon, <2>2 DEF OOMKill
    <3>2. /\ events' \in [max : 0..1, oom : 0..1, oom_kill : 0..1]
          /\ events'.max = 1
      BY ONLY <1>2, <3>1
    <3>3. ended' = "SIGKILL" /\ UNCHANGED <<copyFailed, timedOut>>
      BY <2>2 DEF OOMKill
    <3>4. Types'
      BY <1>1, <3>2, <3>3 DEF Phases
    <3>5. events'.max > 0
      BY ONLY <3>2
    <3>6. LimitsEnd'
      BY ONLY IInv, <3>3, <3>5
    <3> QED BY <3>4, <3>6
  <2>3. CASE Ends
    BY <1>1, <2>3 DEF Ends
  <2>4. CASE CopyFails
    BY <1>1, <2>4 DEF CopyFails
  <2>5. CASE Deadline
    BY <1>1, <2>5 DEF Deadline
  <2> QED BY <2>1, <2>2, <2>3, <2>4, <2>5
<1>4. Truncated' /\ ResponseByPhase' /\ ReplyByPhase'
  BY <1>1 DEF IInv, Truncated, ResponseByPhase, ReplyByPhase
<1> QED BY <1>3, <1>4 DEF IInv

\* The program is started, is done, is answered and is shown.
LEMMA PhaseKeeps ==
  ASSUME IInv, Starts \/ Finalizes \/ Replies \/ Shows PROVE IInv'
<1>1. UNCHANGED run
  BY DEF Starts, Finalizes, Replies, Shows
<1>2. Types' /\ Truncated' /\ LimitsEnd'
  <2>1. phase' \in Phases
    BY DEF Starts, Finalizes, Replies, Shows, Phases
  <2> QED BY <1>1, <2>1 DEF run, IInv, Types, Truncated, LimitsEnd
<1>3. finalizeResponse' = finalizeResponse /\ ended' = ended
  BY <1>1, SameRun DEF run
<1>4. ResponseByPhase'
  <2>1. CASE Starts
    BY <1>3, <2>1 DEF Starts, IInv, ResponseByPhase
  <2>2. CASE Finalizes
    BY <1>3, <2>2 DEF Finalizes, IInv, ResponseByPhase
  <2>3. CASE Replies
    BY <1>3, <2>3 DEF Replies, IInv, ResponseByPhase
  <2>4. CASE Shows
    BY <1>3, <2>4 DEF Shows, IInv, ResponseByPhase
  <2> QED BY <2>1, <2>2, <2>3, <2>4
<1>5. ReplyByPhase'
  <2>1. CASE Starts
    BY <2>1 DEF Starts, IInv, ReplyByPhase
  <2>2. CASE Finalizes
    BY <2>2 DEF Finalizes, IInv, ReplyByPhase
  <2>3. CASE Replies
    BY <2>3 DEF Replies, IInv, ReplyByPhase
  <2>4. CASE Shows
    BY <2>4 DEF Shows, IInv, ReplyByPhase
  <2> QED BY <2>1, <2>2, <2>3, <2>4
<1> QED BY <1>2, <1>4, <1>5 DEF IInv

\* Every step keeps the invariant.
LEMMA Inductive == IInv /\ [Next]_vars => IInv'
<1> SUFFICES ASSUME IInv, [Next]_vars PROVE IInv'
  OBVIOUS
<1>1. CASE UNCHANGED vars \/ Shown
  <2>1. /\ UNCHANGED run /\ UNCHANGED <<phase, response, reply, card>>
    BY <1>1 DEF Shown, vars, run
  <2>2. finalizeResponse' = finalizeResponse
    BY <2>1, SameRun
  <2> QED
    BY <2>1, <2>2 DEF run, IInv, Types, Truncated, LimitsEnd,
                      ResponseByPhase, ReplyByPhase
<1> QED
  BY <1>1, EarlyReturns, PrintsKeeps, RunKeeps, PhaseKeeps DEF Next

\* The invariant holds in every state of every behaviour.
LEMMA Invariant == Spec => []IInv
BY InitInvariant, Inductive, PTL DEF Spec

-----------------------------------------------------------------------------
(* What the replies are.                                                   *)

\* The reply of an execution that came to no program.
LEMMA UnstartedReply ==
  ASSUME IInv, Replied, ended = "not yet"
  PROVE  /\ ~timedOut /\ ~(events.oom_kill > 0)
         /\ response \in Unstarted /\ reply = Answer(response)
BY DEF IInv, LimitsEnd, ResponseByPhase, ReplyByPhase, Replied

\* The reply of a program whose streams could not be copied.
LEMMA CopyFailedReply ==
  ASSUME IInv, Ran, runErr = "copy"
  PROVE  /\ response = [NoResponse EXCEPT !.failed = TRUE]
         /\ response.failed
         /\ reply = [status |-> 500, output |-> <<>>, error |-> <<Failed>>]
<1>1. response = finalizeResponse /\ reply = Answer(response)
  BY DEF IInv, ResponseByPhase, ReplyByPhase, Ran, Replied
<1>2. response = [NoResponse EXCEPT !.failed = TRUE]
  BY <1>1 DEF finalizeResponse
<1>3. response.failed = TRUE /\ response.stderr = <<>>
  BY <1>2 DEF NoResponse
<1> QED BY <1>1, <1>2, <1>3 DEF Answer

\* The reply of any other program that ended: its output and the verdict.
LEMMA RanReply ==
  ASSUME IInv, Ran, runErr # "copy"
  PROVE  /\ response.failed = FALSE
         /\ response.stdout = kept["stdout"] /\ response.stderr = reply.error
         /\ reply.status = 200 /\ reply.output = kept["stdout"]
         /\ Lines(reply.error, kept["stderr"], Said)
<1>1. response = finalizeResponse /\ reply = Answer(response)
  BY DEF IInv, ResponseByPhase, ReplyByPhase, Ran, Replied
<1> DEFINE v == Verdict(kept["stderr"], memoryLimitTriggered(events))
<1>2. response = [stdout |-> kept["stdout"], stderr |-> v, failed |-> FALSE]
  BY <1>1 DEF finalizeResponse
<1>3. kept["stderr"] \in Seq(Program) /\ ended \in Endings
  BY DEF IInv, Types, Streams, Ran
<1>4. Lines(v, kept["stderr"], Said)
  BY <1>3, VerdictSays
<1> HIDE DEF v
<1>5. /\ response.failed = FALSE /\ response.stdout = kept["stdout"]
      /\ response.stderr = v
  BY <1>2
<1>6. reply = [status |-> 200, output |-> kept["stdout"], error |-> v]
  BY <1>1, <1>5 DEF Answer
<1> QED BY <1>4, <1>5, <1>6

\* A message is told in a reply that has it to say, and no other is.
LEMMA ToldIsSaid ==
  ASSUME NEW m \in Messages, Lines(reply.error, kept["stderr"], Said)
  PROVE  Told(m) <=> m \in Said
<1>1. DOMAIN reply.error = 1..Len(reply.error)
  BY LenProperties DEF Lines
<1> QED BY <1>1 DEF Lines, Told

\* A reply that says something is not empty.
LEMMA ToldIsSome ==
  ASSUME NEW m \in Said, Lines(reply.error, kept["stderr"], Said)
  PROVE  reply.error # <<>>
<1>1. PICK i \in 1..Len(reply.error) : reply.error[i] = m
  BY DEF Lines
<1>2. Len(reply.error) \in Nat
  BY LenProperties DEF Lines
<1> QED BY <1>1, <1>2, EmptySeq

-----------------------------------------------------------------------------
(* The properties.                                                         *)

\* A truncated text is a head of the program's, and nothing is glued to it:
\* for every cap and every length of output (limitedBuffer.Write,
\* appendErrorLine).
THEOREM Intact == Spec => []TextIntact
<1>1. IInv => TextIntact
  <2> SUFFICES ASSUME IInv PROVE TextIntact
    OBVIOUS
  <2>1. \A s \in Streams :
          kept[s] = SubSeq(written[s], 1, IF Len(written[s]) < Cap
                                          THEN Len(written[s]) ELSE Cap)
    BY HeadIsSubSeq DEF IInv, Truncated
  <2>2. ASSUME Ran, reply.status = 200
        PROVE  /\ reply.output = kept["stdout"]
               /\ IsPrefix(kept["stderr"], reply.error)
               /\ \A i \in DOMAIN reply.error :
                    reply.error[i] \in Messages /\ i > 1
                      => reply.error[i-1] = Newline
    <3> DEFINE t == kept["stderr"]  v == reply.error
    <3>1. runErr # "copy"
      BY <2>2, CopyFailedReply
    <3>2. reply.output = kept["stdout"] /\ Lines(v, t, Said)
      BY <2>2, <3>1, RanReply
    <3> HIDE DEF v
    <3>3. t \in Seq(Program) /\ v \in Seq(Program \cup Messages)
      BY <3>2 DEF IInv, Types, Streams, Lines
    <3>4. /\ t \in Seq(Program \cup Messages)
          /\ Len(t) \in Nat /\ Len(v) \in Nat /\ Len(t) <= Len(v)
          /\ DOMAIN v = 1..Len(v)
      BY <3>2, <3>3, SeqMonotonic, LenProperties DEF Lines
    <3>5. SubSeq(t, 1, Len(t)) = t
      BY <3>3, SubSeqFull
    <3>6. /\ SubSeq(v, 1, Len(t)) \in Seq(Program \cup Messages)
          /\ Len(SubSeq(v, 1, Len(t))) = Len(t)
          /\ \A i \in 1..Len(t) : SubSeq(v, 1, Len(t))[i] = v[i]
      BY <3>3, <3>4, Beginning
    <3>7. \A i \in 1..Len(t) : t[i] = v[i]
      BY <3>2 DEF Lines
    <3>8. t = SubSeq(v, 1, Len(t))
      BY <3>4, <3>6, <3>7, SeqEqual
    <3>9. IsPrefix(t, v)
      BY <3>4, <3>5, <3>8 DEF IsPrefix
    <3>10. \A i \in DOMAIN v : v[i] \in Messages /\ i > 1 => v[i-1] = Newline
      BY <3>2, <3>4 DEF Lines
    <3> QED BY <3>2, <3>9, <3>10 DEF v
  <2> QED BY <2>1, <2>2 DEF TextIntact
<1> QED BY <1>1, Invariant, PTL

\* One verdict on a program over its limits, the memory before the time: told
\* of its memory exactly if it met that limit, of the deadline exactly if the
\* deadline alone cut it, for every order of events, exit status and deadline
\* (finalizeResponse).
THEOREM OneOnly == Spec => []OneVerdict
<1>1. IInv => OneVerdict
  <2> SUFFICES ASSUME IInv, Ran, reply.status = 200
               PROVE  /\ Told(Memory) <=> events.max > 0
                      /\ Told(Timeout) <=> timedOut /\ events.max = 0
    BY DEF OneVerdict
  <2>1. Lines(reply.error, kept["stderr"], Said)
    <3>1. CASE runErr = "copy"
      <4>1. reply = [status |-> 500, output |-> <<>>, error |-> <<Failed>>]
        BY Zenon, <3>1, CopyFailedReply
      <4>2. reply.status # 200
        BY <4>1
      <4> QED BY <4>2
    <3>2. CASE runErr # "copy"
      BY Zenon, <3>2, RanReply
    <3> QED BY <3>1, <3>2
  <2>2. ended \in Endings /\ Timeout # ended /\ Memory # ended
    BY PiecesDiffer DEF IInv, Types, Ran
  <2>3. /\ Told(Memory) <=> memoryLimitTriggered(events)
        /\ Told(Timeout) <=> timedOut /\ ~memoryLimitTriggered(events)
    BY <2>1, <2>2, ToldIsSaid, PiecesDiffer DEF Said
  <2>4. memoryLimitTriggered(events) <=> events.max > 0
    BY DEF memoryLimitTriggered, IInv, LimitsEnd
  <2>5. events.max \in 0..1
    BY DEF IInv, Types
  <2>6. ~(events.max > 0) <=> events.max = 0
    BY <2>5
  <2> QED BY Zenon, <2>3, <2>4, <2>6
<1> QED BY <1>1, Invariant, PTL

\* Whatever did not end well within its limits is told, in the reply and on
\* the page, and a card that names a limit is backed by its verdict.
THEOREM FailureShows == Spec => []FailureIsShown
<1>1. ASSUME IInv, Replied,
             response.failed \/ timedOut \/ events.oom_kill > 0
               \/ ended \in Endings \ {"exit 0"}
      PROVE  reply.error # <<>>
  <2>1. CASE ended = "not yet"
    <3>1. /\ response \in Unstarted /\ reply = Answer(response)
          /\ response.failed
      BY <1>1, <2>1, UnstartedReply DEF Endings, Signals
    <3>2. CASE response = [stdout |-> <<>>, stderr |-> <<Overload>>,
                           failed |-> TRUE]
      <4>1. response.stderr = <<Overload>>
        BY <3>2
      <4>2. response.stderr # <<>>
        BY <4>1
      <4>3. reply = [status |-> 200, output |-> response.stdout,
                     error |-> response.stderr]
        BY <3>1, <4>2 DEF Answer
      <4> QED BY <4>2, <4>3
    <3>3. CASE response = [NoResponse EXCEPT !.failed = TRUE]
      <4>1. response.stderr = <<>>
        BY <3>3 DEF NoResponse
      <4>2. reply = [status |-> 500, output |-> <<>>, error |-> <<Failed>>]
        BY <3>1, <4>1 DEF Answer
      <4> QED BY <4>2
    <3>4. CASE \/ response = [NoResponse EXCEPT !.stderr = <<>>]
               \/ response = [NoResponse EXCEPT !.stderr = <<"text", Newline>>]
      <4>1. response.failed = FALSE
        BY <3>4 DEF NoResponse
      <4> QED BY <3>1, <4>1
    <3> QED BY <3>1, <3>2, <3>3, <3>4 DEF Unstarted
  <2>2. CASE ended # "not yet" /\ runErr = "copy"
    <3>1. reply = [status |-> 500, output |-> <<>>, error |-> <<Failed>>]
      BY Zenon, <1>1, <2>2, CopyFailedReply DEF Ran
    <3> QED BY <3>1
  <2>3. CASE ended # "not yet" /\ runErr # "copy"
    <3>1. /\ Lines(reply.error, kept["stderr"], Said)
          /\ response.failed = FALSE
      BY Zenon, <1>1, <2>3, RanReply DEF Ran
    <3>2. ended \in Endings
      BY <1>1, <2>3 DEF IInv, Types
    <3>3. CASE ended # "exit 0"
      <4>1. ended \in Said
        BY <3>2, <3>3, PiecesDiffer DEF Said
      <4> QED BY <3>1, <4>1, ToldIsSome
    <3>4. CASE memoryLimitTriggered(events)
      <4>1. Memory \in Said
        BY <3>4, PiecesDiffer DEF Said
      <4> QED BY <3>1, <4>1, ToldIsSome
    <3>5. CASE timedOut /\ ~memoryLimitTriggered(events)
      <4>1. Timeout \in Said
        BY <3>5, PiecesDiffer DEF Said
      <4> QED BY <3>1, <4>1, ToldIsSome
    <3> QED BY <1>1, <3>1, <3>3, <3>4, <3>5 DEF memoryLimitTriggered
  <2> QED BY <2>1, <2>2, <2>3
<1>2. ASSUME IInv PROVE FailureIsShown
  <2>1. phase = "shown" /\ reply.error # <<>> =>
          card = showExecutionError(reply.error)
    BY <1>2 DEF IInv, ReplyByPhase
  <2>2. card # "hidden" => phase = "shown" /\ reply.error # <<>>
    BY <1>2 DEF IInv, ReplyByPhase
  <2>3. \A text : showExecutionError(text) # "hidden"
    BY DEF showExecutionError
  <2>4. card = "timeout" => Told(Timeout)
    <3> SUFFICES ASSUME card = "timeout" PROVE Told(Timeout)
      OBVIOUS
    <3>1. showExecutionError(reply.error) = "timeout"
      BY <2>1, <2>2
    <3>2. Is(reply.error, Timeout)
      BY <3>1 DEF showExecutionError
    <3> QED BY <3>2 DEF Is, Told
  <2>5. card = "memory limit" => Told(Memory)
    <3> SUFFICES ASSUME card = "memory limit" PROVE Told(Memory)
      OBVIOUS
    <3>1. showExecutionError(reply.error) = "memory limit"
      BY <2>1, <2>2
    <3>2. Is(reply.error, Memory)
      BY <3>1 DEF showExecutionError
    <3> QED BY <3>2 DEF Is, Told
  <2> QED BY <1>1, <1>2, <2>1, <2>3, <2>4, <2>5 DEF FailureIsShown
<1> QED BY <1>2, Invariant, PTL

\* The types; a buffer never grows over its cap, whatever it is sent.
THEOREM TypeCorrect == Spec => []TypeOK
<1>1. \A t : t \in Seq(Program) \/ t \in Seq(Program \cup Messages)
               => t \in Texts
  <2>1. /\ Program \subseteq Program \cup Messages \cup {Overload, Failed}
        /\ Program \cup Messages
             \subseteq Program \cup Messages \cup {Overload, Failed}
    OBVIOUS
  <2> QED BY <2>1, SeqMonotonic DEF Texts
<1>2. /\ <<>> \in Texts /\ <<Overload>> \in Texts /\ <<Failed>> \in Texts
      /\ <<"text", Newline>> \in Texts
  BY DEF Texts, Program
<1>3. ASSUME IInv
      PROVE  \A s \in Streams : /\ written[s] \in Texts /\ kept[s] \in Texts
                                /\ Len(kept[s]) <= Cap
  <2> SUFFICES ASSUME NEW s \in Streams
               PROVE  /\ written[s] \in Texts /\ kept[s] \in Texts
                      /\ Len(kept[s]) <= Cap
    OBVIOUS
  <2>1. HeadOf(kept[s], written[s])
    BY <1>3 DEF IInv, Truncated
  <2>2. Len(written[s]) \in Nat /\ Cap \in Nat
    BY <2>1, LenProperties, CapAssumption DEF HeadOf
  <2>3. Len(kept[s]) <= Cap
    <3>1. CASE Len(written[s]) < Cap
      BY <2>1, <2>2, <3>1 DEF HeadOf
    <3>2. CASE ~(Len(written[s]) < Cap)
      BY <2>1, <2>2, <3>2 DEF HeadOf
    <3> QED BY <3>1, <3>2
  <2> QED BY <1>1, <2>1, <2>3 DEF HeadOf
<1>4. ASSUME IInv PROVE response.stdout \in Texts /\ response.stderr \in Texts
  <2>1. CASE response = NoResponse
    <3>1. response.stdout = <<>> /\ response.stderr = <<>>
      BY <2>1 DEF NoResponse
    <3> QED BY <1>2, <3>1
  <2>2. CASE response \in Unstarted
    <3>1. CASE response = [stdout |-> <<>>, stderr |-> <<Overload>>,
                           failed |-> TRUE]
      <4>1. response.stdout = <<>> /\ response.stderr = <<Overload>>
        BY <3>1
      <4> QED BY <1>2, <4>1
    <3>2. CASE response = [NoResponse EXCEPT !.failed = TRUE]
      <4>1. response.stdout = <<>> /\ response.stderr = <<>>
        BY <3>2 DEF NoResponse
      <4> QED BY <1>2, <4>1
    <3>3. ASSUME NEW out \in {<<>>, <<"text", Newline>>},
                 response = [NoResponse EXCEPT !.stderr = out]
          PROVE  response.stdout \in Texts /\ response.stderr \in Texts
      <4>1. response.stdout = <<>> /\ response.stderr = out
        BY <3>3 DEF NoResponse
      <4>2. out \in Texts
        BY <1>2, <3>3
      <4> QED BY <1>2, <4>1, <4>2
    <3> QED BY <2>2, <3>1, <3>2, <3>3 DEF Unstarted
  <2>3. CASE ended # "not yet" /\ response = finalizeResponse
    <3>1. CASE runErr = "copy"
      <4>1. response = [NoResponse EXCEPT !.failed = TRUE]
        BY <2>3, <3>1 DEF finalizeResponse
      <4>2. response.stdout = <<>> /\ response.stderr = <<>>
        BY <4>1 DEF NoResponse
      <4> QED BY <1>2, <4>2
    <3>2. CASE runErr # "copy"
      <4> DEFINE v == Verdict(kept["stderr"], memoryLimitTriggered(events))
      <4>1. response = [stdout |-> kept["stdout"], stderr |-> v,
                        failed |-> FALSE]
        BY <2>3, <3>2 DEF finalizeResponse
      <4>2. kept["stderr"] \in Seq(Program) /\ ended \in Endings
        BY <1>4, <2>3 DEF IInv, Types, Streams
      <4>3. v \in Seq(Program \cup Messages)
        BY <4>2, VerdictSays DEF Lines
      <4>4. v \in Texts /\ kept["stdout"] \in Texts
        BY <1>1, <1>3, <1>4, <4>3 DEF Streams
      <4> HIDE DEF v
      <4>5. response.stdout = kept["stdout"] /\ response.stderr = v
        BY <4>1
      <4> QED BY <4>4, <4>5
    <3> QED BY <3>1, <3>2
  <2> QED BY <1>4, <2>1, <2>2, <2>3 DEF IInv, Types, ResponseByPhase, Phases
<1>5. ASSUME IInv PROVE reply.status \in {0, 200, 500}
  <2>1. CASE reply = NoReply
    BY <2>1 DEF NoReply
  <2>2. CASE reply = Answer(response)
    <3>1. CASE response.failed /\ response.stderr = <<>>
      <4>1. reply = [status |-> 500, output |-> <<>>, error |-> <<Failed>>]
        BY <2>2, <3>1 DEF Answer
      <4> QED BY <4>1
    <3>2. CASE ~(response.failed /\ response.stderr = <<>>)
      <4>1. reply = [status |-> 200, output |-> response.stdout,
                     error |-> response.stderr]
        BY <2>2, <3>2 DEF Answer
      <4> QED BY <4>1
    <3> QED BY <3>1, <3>2
  <2> QED BY <1>5, <2>1, <2>2 DEF IInv, Types, ReplyByPhase, Phases
<1>6. ASSUME IInv
      PROVE  card \in {"hidden", "timeout", "memory limit", "execution error"}
  <2>1. showExecutionError(reply.error)
          \in {"timeout", "memory limit", "execution error"}
    BY DEF showExecutionError
  <2> QED BY <1>6, <2>1 DEF IInv, ReplyByPhase
<1>7. ASSUME IInv PROVE TypeOK
  <2>1. \A s \in Streams : written[s] \in Texts /\ kept[s] \in Texts
    BY <1>3, <1>7
  <2>2. \A s \in Streams : Len(kept[s]) <= Cap
    BY <1>3, <1>7
  <2>3. response.stdout \in Texts /\ response.stderr \in Texts
    BY <1>4, <1>7
  <2>4. reply.status \in {0, 200, 500}
    BY <1>5, <1>7
  <2>5. card \in {"hidden", "timeout", "memory limit", "execution error"}
    BY <1>6, <1>7
  <2>6. Types
    BY <1>7 DEF IInv
  <2> QED BY Zenon, <2>1, <2>2, <2>3, <2>4, <2>5, <2>6 DEF Types, TypeOK
<1> QED BY <1>7, Invariant, PTL
=============================================================================
