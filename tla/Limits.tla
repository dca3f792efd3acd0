------------------------------- MODULE Limits -------------------------------
(***************************************************************************)
(* The limits of one request, from the JSON body to what the sandbox gets: *)
(* the conversion of a /execute body (models), the normalisation against   *)
(* the configured limits and the capacity test (dispatcher), and the value *)
(* written into the control group (resourcemanager).                       *)
(*                                                                         *)
(* A duration is a Go time.Duration, a signed machine word of nanoseconds; *)
(* the word has WordSize values.  Memory is an unsigned number of KB.      *)
(***************************************************************************)
EXTENDS Integers

CONSTANTS
  WordSize,             \* number of values of a machine word (2^64)
  Second,               \* nanoseconds in a second
  KB,                   \* bytes in a kilobyte
  Configs,              \* the environments the server may be started in
  AskedSeconds,         \* "timeout" fields of /execute bodies (uint)
  AskedDurations,       \* "timeout" fields of /v2/execute bodies (int64)
  AskedMemory           \* "max_memory" fields (uint)

ASSUME WordAssumption == /\ WordSize \in Nat \ {0}
                         /\ Second \in Nat \ {0}
                         /\ KB \in Nat \ {0}

\* Whatever the environment may hold: no code relates one of its values to
\* another, and a duration may be negative.
ConfigType == [MaxTimeout : Int, DefaultTimeout : Int,
               MaxMemoryLimit : Nat, DefaultMemoryLimit : Nat,
               RAM_LIMIT : Nat]

ASSUME ConfigAssumption == Configs \subseteq ConfigType

ASSUME InputAssumption == /\ AskedSeconds \subseteq Nat
                          /\ AskedDurations \subseteq Int
                          /\ AskedMemory \subseteq Nat

VARIABLES
  Config,    \* config.Config, loaded when the server starts
  stage,     \* how far the request is
  asked,     \* the limits in the body: [timeout, memory, unit]
  req,       \* models.Request: [timeout, memory]
  reserved,  \* the amount given to ReserveRAM, in KB
  memoryMax  \* the value of memory.max, in bytes

vars == <<Config, stage, asked, req, reserved, memoryMax>>

Unlimited == -1   \* the "max" that lifts a limit of a control group
Nothing == 0

-----------------------------------------------------------------------------
(* Machine words.                                                          *)

\* The int64 that the low bits of x stand for.
Int64(x) == LET half == WordSize \div 2
            IN ((x + half) % WordSize) - half

-----------------------------------------------------------------------------
(* The conversions.                                                        *)

\* Mutant: the seconds are taken for nanoseconds.
MutToRequest(sr) == [timeout |-> Int64(sr.timeout), memory |-> sr.memory]

\* SimpleRequest.ToRequest: time.Duration(sr.Timeout) * time.Second.
ToRequest(sr) == [timeout |-> Int64(Int64(sr.timeout) * Second),
                  memory  |-> sr.memory]

\* Mutant: the maximum is tested first and the default is forgotten.
MutNormalizeTimeout(t) == IF t > Config.MaxTimeout THEN Config.MaxTimeout
                          ELSE t

\* The two halves of normalizeRequest: zero means the default, anything
\* over the maximum means the maximum.
normalizeTimeout(t) ==
  IF t = 0 THEN Config.DefaultTimeout
  ELSE IF t > Config.MaxTimeout THEN Config.MaxTimeout ELSE t

normalizeMemory(m) ==
  IF m = 0 THEN Config.DefaultMemoryLimit
  ELSE IF m > Config.MaxMemoryLimit THEN Config.MaxMemoryLimit ELSE m

normalizeRequest(r) == [timeout |-> normalizeTimeout(r.timeout),
                        memory  |-> normalizeMemory(r.memory)]

\* Mutant: the amount is compared with the per-request maximum instead.
MutOverCapacity(m) == m > Config.MaxMemoryLimit

\* Dispatch's first test: more than the server may ever use.
OverCapacity(m) == m > Config.RAM_LIMIT

\* Mutant: the limit is left in kilobytes.
MutMemoryLimitBytes(kb) == IF kb = 0 THEN Unlimited ELSE kb

memoryLimitBytes(kb) == IF kb = 0 THEN Unlimited ELSE (kb * KB) % WordSize

-----------------------------------------------------------------------------
Init == /\ Config \in Configs
        /\ stage = "client"
        /\ asked = [timeout |-> 0, memory |-> 0, unit |-> Second]
        /\ req = [timeout |-> 0, memory |-> 0]
        /\ reserved = Nothing
        /\ memoryMax = Nothing

(* POST /execute: seconds, converted by ToRequest.                         *)
SimpleDispatcher ==
  /\ stage = "client"
  /\ \E t \in AskedSeconds, m \in AskedMemory :
       asked' = [timeout |-> t, memory |-> m, unit |-> Second]
  /\ req' = ToRequest(asked')
  /\ stage' = "bound"
  /\ UNCHANGED <<Config, reserved, memoryMax>>

(* POST /v2/execute: the body is a models.Request, nanoseconds.            *)
CallDispatcher ==
  /\ stage = "client"
  /\ \E t \in AskedDurations, m \in AskedMemory :
       asked' = [timeout |-> t, memory |-> m, unit |-> 1]
  /\ req' = [timeout |-> asked'.timeout, memory |-> asked'.memory]
  /\ stage' = "bound"
  /\ UNCHANGED <<Config, reserved, memoryMax>>

(* Dispatch, with enough RAM free for whatever is asked: normalise, refuse *)
(* what is over the whole capacity, reserve the rest.                      *)
Dispatch ==
  /\ stage = "bound"
  /\ req' = normalizeRequest(req)
  /\ IF OverCapacity(req'.memory)
     THEN stage' = "refused" /\ UNCHANGED reserved
     ELSE stage' = "reserved" /\ reserved' = req'.memory
  /\ UNCHANGED <<Config, asked, memoryMax>>

(* NewCgroupV2(req.MemoryLimit): the limit written into the control group. *)
NewCgroupV2 ==
  /\ stage = "reserved"
  /\ memoryMax' = memoryLimitBytes(req.memory)
  /\ stage' = "confined"
  /\ UNCHANGED <<Config, asked, req, reserved>>

Served == stage \in {"refused", "confined"} /\ UNCHANGED vars

Next == SimpleDispatcher \/ CallDispatcher \/ Dispatch \/ NewCgroupV2 \/ Served

Spec == Init /\ [][Next]_vars

-----------------------------------------------------------------------------
(* Properties.                                                             *)

\* Types of the variables; the amount reserved never exceeds the capacity
\* (dispatcher, Dispatch), so that ReserveRAM can one day grant it.
TypeOK ==
  /\ Config \in Configs
  /\ stage \in {"client", "bound", "refused", "reserved", "confined"}
  /\ asked \in [timeout : Int, memory : Nat, unit : {1, Second}]
  /\ req \in [timeout : Int, memory : Nat]
  /\ reserved \in 0..Config.RAM_LIMIT
  /\ memoryMax \in Nat \cup {Unlimited}

\* Whatever the environment, the route and the numbers in the body
\* (dispatcher, normalizeRequest): a sandbox gets no more memory than was
\* asked, than the maximum and than the server has; what goes over a maximum
\* is the configured default, of a body that asked for nothing; and a zero
\* comes from the environment only.  A negative duration is not excluded.
WithinMaxima ==
  stage \in {"reserved", "confined"} =>
    /\ asked.memory # 0 => /\ req.memory <= Config.MaxMemoryLimit
                           /\ req.memory <= asked.memory
    /\ asked.memory = 0 => req.memory = Config.DefaultMemoryLimit
    /\ req.memory <= Config.RAM_LIMIT
    /\ req.memory = 0
         => 0 \in {Config.DefaultMemoryLimit, Config.MaxMemoryLimit}
    /\ req.timeout > Config.MaxTimeout => req.timeout = Config.DefaultTimeout
    /\ req.timeout = 0 => 0 \in {Config.DefaultTimeout, Config.MaxTimeout}

\* The ledger and the kernel agree: the control group is limited to exactly
\* the amount reserved, as long as that many bytes fit a word, and the "max"
\* that memoryLimitBytes writes for zero takes a zero in the environment.
CgroupMatchesReservation ==
  stage = "confined" =>
    /\ memoryMax = Unlimited
         => 0 \in {Config.DefaultMemoryLimit, Config.MaxMemoryLimit}
    /\ memoryMax # Unlimited /\ reserved * KB < WordSize
         => memoryMax = reserved * KB /\ memoryMax > 0

\* The reference meaning of a "timeout" field: nothing asked is the default,
\* anything more is cut at the maximum.
Effective(d) == IF d = 0 THEN Config.DefaultTimeout
                ELSE IF d > Config.MaxTimeout THEN Config.MaxTimeout ELSE d

Representable(d) == 2 * d < WordSize /\ -2 * d <= WordSize

\* As long as the asked duration fits a word, both routes execute for the
\* duration the field means: the unit conversion and the clamping commute.
HonoursTimeout ==
  /\ stage \in {"reserved", "confined"}
  /\ Representable(asked.timeout * asked.unit)
  => req.timeout = Effective(asked.timeout * asked.unit)

\* What README.md promises of MAX_TIMEOUT: a request with a higher timeout
\* is only executed for MAX_TIMEOUT.
HigherTimeoutRunsForMax ==
  /\ stage \in {"reserved", "confined"}
  /\ asked.timeout * asked.unit > Config.MaxTimeout
  => req.timeout = Config.MaxTimeout
=============================================================================
